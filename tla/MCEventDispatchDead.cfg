SPECIFICATION Spec
CONSTANTS
  KeyPress = KeyPress
  Resize = Resize
  player = player
  camera = camera
  unnamed = unnamed
  Types = {KeyPress}
  Listeners = {player, camera}
  Names = {unnamed}
  Priorities = {0, 1}
  CallbackLimit = 2
  OutboxLimit = 1
INVARIANT DestroyedListenerIsSilent
