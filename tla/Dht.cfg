CONSTANTS
  MaxFriends = 2
SPECIFICATION Spec
INVARIANTS
  ErrorIffCallFailed
  FriendsListedOnSuccess
