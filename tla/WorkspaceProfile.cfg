\* Two runs and a deletion at once over two documents, three profiles
\* computed: a document is described again while another's goes in.
SPECIFICATION Spec
CONSTANTS
    Docs = {d1, d2}
    Topics = {t1}
    Workers = {w1, w2}
    Admins = {a1}
    Nobody = Nobody
    NoDoc = NoDoc
    NoProfile = {none}
    MaxStores = 3
INVARIANTS
    TypeOK
    LockInv
    NeverUnder
PROPERTIES
    DeletionIsExact
CHECK_DEADLOCK FALSE
