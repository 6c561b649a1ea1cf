CONSTANTS
  adm = adm
  mnt = mnt
  dev = dev
  aud = aud
  None = None
  Approval = {a1}
  Digest = {d1, d2}
  Key = {k1, k2}
  User <- MCUser
  RoleOf <- MCRoleOf
SPECIFICATION Spec
INVARIANT RepeatsAreIdempotent
