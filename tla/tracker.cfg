\* Two accounts, the command line, both services, two applications.
SPECIFICATION Spec
CONSTANTS
    Users = {u1, u2}
    Cli = cli
    Workers = {w1, w2}
    Statuses = {applied, offer}
    Unlisted = unlisted
    Details = {d1, d2}
    MaxApps = 2
    MaxEvents = 3
SYMMETRY Interchangeable
INVARIANTS StatusIsLastEvent NoOrphanEvents
PROPERTIES OwnRowsOnly
