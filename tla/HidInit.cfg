\* Three attempts, two bytes sent because of the user, every firmware state.
CONSTANTS
  Retries = 3
  MaxTouch = 2
SPECIFICATION StartUp
INVARIANT Consistent
PROPERTIES
  Accepted
  Ends
CHECK_DEADLOCK FALSE
