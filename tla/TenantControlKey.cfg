\* Two owners' requests at once: a key is set while another is deleted.
CONSTANTS
  Writers = {w1, w2}
  NoKey = NoKey
SPECIFICATION Spec
INVARIANTS KeyNullWhenManaged
