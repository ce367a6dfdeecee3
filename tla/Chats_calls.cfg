SPECIFICATION Spec
CONSTANTS
  controller = controller
  user = user
  anonymous = anonymous
  Principals = {controller, user, anonymous}
  Controllers = {controller}
  Anonymous = anonymous
  Grantees = {user, anonymous}
  Levels = {0, 1, 2}
  MaxChats = 2
  MaxTalks = 3
  MaxSecond = 2
INVARIANTS TypeOK LatestHasFile OwnChat
PROPERTIES LostOnlyToNewer RevokeIsComplete
