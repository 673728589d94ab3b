\* Two users, and three refresh tokens for each.
CONSTANTS
  Users = {u1, u2}
  Nobody = Nobody
  Serials = {s1, s2, s3}
  NoToken = NoToken
SPECIFICATION Spec
INVARIANTS
  OnePerson
  SignedOutStaysOut
  SessionLostOnlyIf
  StaleTokenOnlyIf
