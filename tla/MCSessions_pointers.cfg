\* A session that starts and ends again and again and `knotch unit use': three processes at a time.
SPECIFICATION Spec
CONSTANTS
    None = None
    n1 = n1
    Units = {u1, u2}
    Sessions = {s1}
    Names = {n1}
    NameOf <- OneName
    Tasks = {t1, t2, t3}
    Envs = {None, u1, u2}
INVARIANT TypeOKSessions
INVARIANT LoneWritersLeaveWholePointers
INVARIANT HooksFollowTheSession
PROPERTY SessionKeepsItsUnit
SYMMETRY Interchangeable
