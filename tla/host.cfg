\* Two handles; the portal is plugged in and out at will; any number of builds.
CONSTANTS
  NULL = NULL
  Handles = {h1, h2}
SPECIFICATION PathSpec
INVARIANTS
  PathTypeOK
  DeviceIsKnown
  BufferIntact
  AudioNotObeyed
PROPERTIES
  RerunChangesNothing
  AudioGoesOn
