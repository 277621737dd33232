--------------------------- MODULE MCGuestSession ---------------------------
EXTENDS GuestSession, TLC

CONSTANTS p1, p2

MCDoes == (p1 :> {"guest", "signin"}) @@ (p2 :> {"account", "refresh", "capture"})

\* For SavedSessionsAreRestored, the console that signs an account in, and a request.
MCDoesSignIn == (p1 :> {"signin"}) @@ (p2 :> {"guest"})

MCConfigs == BOOLEAN \X BOOLEAN
=============================================================================
