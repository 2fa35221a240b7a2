--------------------------- MODULE PatchComponents ---------------------------
(***************************************************************************)
(* shared/patch_components.py, which CMake runs at every configuration of  *)
(* either project, after the component manager and before the compiler,    *)
(* if it finds a Python; if not, it says nothing.                          *)
(*                                                                         *)
(* Of a component's text all that is kept is which anchors it still has    *)
(* and how often each replacement is in it.  The manager fetches a clean   *)
(* copy, of a version that may lack any anchor or have the file at another *)
(* path, or leaves what is there.                                          *)
(* The script may die of a failed write, which CMake does not look at, or  *)
(* be killed with the whole configuration; either may leave the file it    *)
(* was writing empty.                                                      *)
(***************************************************************************)
EXTENDS Integers, Sequences

\* PATCHES: the OUT transfer's fields, its sender, the sender's declaration,
\* the tag 0xEE of reports from the OUT endpoint.
PATCHES == <<"field", "sender", "declaration", "tag">>
Patches == {PATCHES[i] : i \in 1..Len(PATCHES)}
FileOf == [field |-> "hid_host.c", sender |-> "hid_host.c",
           declaration |-> "hid_host.h", tag |-> "hid_device.c"]
Projects == {"portal", "console"}
Needed == [portal |-> {"field", "sender", "declaration"}, console |-> {"tag"}]
Files == {FileOf[p] : p \in Patches}
FilesOf(b) == {FileOf[p] : p \in Needed[b]}

\* "elsewhere": the component has it, but not at the path the script looks at.
FileStates == {"absent", "whole", "empty", "elsewhere"}
Outcomes == {"none", "quiet", "unpatched", "loud"}

VARIABLES
  anchors,              \* the patches whose anchor is in its file
  applied,              \* how often each replacement is in its file
  files,                \* the state of each file
  project,              \* the project configured last
  script,               \* 0: not run, 1..4: at that patch, 5: ended
  loud,                 \* the script has complained in this configuration
  missed,               \* it has not run, or not found a file of the project
  settled,              \* projects the script has been through since the fetch
  firmware              \* per project: how the build of what its board runs
                        \* went ("none" at first), and whether it has all its
                        \* patches

textVars == <<anchors, applied, files>>
patchVars == <<textVars, project, script, loud, missed, settled, firmware>>

PatchTypeOK ==
  /\ anchors \subseteq Patches
  /\ applied \in [Patches -> Nat]
  /\ files \in [Files -> FileStates]
  /\ project \in Projects
  /\ script \in 0..5
  /\ loud \in BOOLEAN
  /\ missed \in BOOLEAN
  /\ settled \subseteq Projects
  /\ firmware \in [Projects -> Outcomes \X BOOLEAN]

PatchInit ==
  /\ anchors = {}
  /\ applied = [p \in Patches |-> 0]
  /\ files = [f \in Files |-> "absent"]
  /\ project \in Projects
  /\ script = 0
  /\ loud = FALSE
  /\ missed = FALSE
  /\ settled = {}
  /\ firmware = [b \in Projects |-> <<"none", FALSE>>]

-----------------------------------------------------------------------------
\* The files in the domain of new get the state it says; nothing of what was in
\* them is left.
Wipe(new) ==
  /\ applied' = [p \in Patches |-> IF FileOf[p] \in DOMAIN new THEN 0 ELSE applied[p]]
  /\ files' = [f \in Files |-> IF f \in DOMAIN new THEN new[f] ELSE files[f]]

KeptAnchors(fs) == {p \in anchors : FileOf[p] \notin fs}

\* The component manager puts clean copies in place.
Fetch(b) ==
  \E new \in [FilesOf(b) -> {"whole", "elsewhere"}] :
    /\ Wipe(new)
    /\ \E found \in SUBSET {p \in Needed[b] : new[FileOf[p]] = "whole"} :
         anchors' = KeptAnchors(FilesOf(b)) \cup found

\* A configuration: the component manager, then the script from its start,
\* if(PATCH_PY).
Configure(b) ==
  /\ script \in {0, 5}
  /\ project' = b
  /\ \/ script' = 1 /\ missed' = FALSE
     \/ script' = 5 /\ missed' = TRUE
  /\ loud' = FALSE
  /\ \/ Fetch(b) /\ settled' = settled \ {b}
     \/ /\ \A f \in FilesOf(b) : files[f] # "absent"
        /\ UNCHANGED <<textVars, settled>>
  /\ UNCHANGED firmware

\* Faulty variant: the marker is not looked for.
NoMarker(p) == applied[p] > 1

\* "out_xfer;" is in the sender's text too.
HasMarker(p) ==
  \/ applied[p] > 0
  \/ p = "field" /\ applied["sender"] > 0

patch == PATCHES[script]
running == script \in 1..Len(PATCHES)
ours == FileOf[patch] \in FilesOf(project)
inPlace == ours /\ files[FileOf[patch]] # "elsewhere"

NextPatch ==
  /\ script' = script + 1
  /\ settled' = IF script = Len(PATCHES) THEN settled \cup {project} ELSE settled
  /\ UNCHANGED <<project, firmware>>

Writing ==
  /\ running
  /\ inPlace
  /\ ~HasMarker(patch)
  /\ patch \in anchors

\* No such file, in silence; or patched already.
SkipPatch ==
  /\ running
  /\ ~inPlace \/ HasMarker(patch)
  /\ missed' = (missed \/ (ours /\ ~inPlace))
  /\ NextPatch
  /\ UNCHANGED <<textVars, loud>>

\* Faulty variant: a missing anchor is passed over in silence.
SilentlyMissing ==
  /\ running
  /\ inPlace
  /\ ~HasMarker(patch)
  /\ patch \notin anchors
  /\ NextPatch
  /\ UNCHANGED <<textVars, loud, missed>>

AnchorMissing ==
  /\ running
  /\ inPlace
  /\ ~HasMarker(patch)
  /\ patch \notin anchors
  /\ loud' = TRUE
  /\ NextPatch
  /\ UNCHANGED <<textVars, missed>>

\* The replacements of sender and declaration bring their anchor with them.
ApplyPatch ==
  /\ Writing
  /\ applied' = [applied EXCEPT ![patch] = @ + 1]
  /\ anchors' = IF patch \in {"sender", "declaration"} THEN anchors
                ELSE anchors \ {patch}
  /\ NextPatch
  /\ UNCHANGED <<files, loud, missed>>

\* The file cannot be opened for writing, or it can, and is empty from then
\* on, and the text does not get into it.
LoseText ==
  \/ UNCHANGED textVars
  \/ /\ Wipe([f \in {FileOf[patch]} |-> "empty"])
     /\ anchors' = KeptAnchors({FileOf[patch]})

\* A traceback, a result that execute_process drops, and CMake goes on.
ScriptDies ==
  /\ Writing
  /\ LoseText
  /\ script' = 5
  /\ loud' = TRUE
  /\ UNCHANGED <<project, missed, settled, firmware>>

Killed ==
  /\ running
  /\ IF Writing THEN LoseText ELSE UNCHANGED textVars
  /\ script' = 0
  /\ UNCHANGED <<project, loud, missed, settled, firmware>>

\* The compiler wants no file empty and, on the portal side, whose sources call
\* the sender, each of its three patches.  The console side compiles without
\* the tag.
Compiles(b) ==
  /\ \A f \in FilesOf(b) : files[f] \in {"whole", "elsewhere"}
  /\ b = "portal" => \A p \in Needed[b] : applied[p] = 1

\* How the configuration went that a build follows.
outcome == IF loud THEN "loud" ELSE IF missed THEN "unpatched" ELSE "quiet"

Flash ==
  /\ script = 5
  /\ Compiles(project)
  /\ firmware' = [firmware EXCEPT ![project] =
       <<outcome, \A p \in Needed[project] : applied[p] = 1>>]
  /\ script' = 0
  /\ UNCHANGED <<textVars, project, loud, missed, settled>>

PatchNext ==
  \/ \E b \in Projects : Configure(b)
  \/ SkipPatch \/ AnchorMissing \/ ApplyPatch \/ ScriptDies \/ Killed
  \/ Flash

-----------------------------------------------------------------------------
(* Properties. *)

(* Once the script has been through a project's files, running it again     *)
(* leaves them alone until they are fetched anew (patch_components.py:9).   *)
RerunChangesNothing ==
  [][\A b \in settled \cap settled' : \A p \in Needed[b] :
       applied'[p] = applied[p] /\ files'[FileOf[p]] = files[FileOf[p]]]_patchVars

=============================================================================
