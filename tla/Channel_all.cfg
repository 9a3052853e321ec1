\* Two channels with and without a buffer: every call, moves while no operation waits,
\* close() while no send waits, reset() when closed.
CONSTANTS
    c1 = c1  c2 = c2  m1 = m1  m2 = m2  m3 = m3  r1 = r1  r2 = r2  r3 = r3
    NoMessage = NoMessage
    Channels = {c1, c2}
    Messages = {m1, m2, m3}
    Receivers = {r1, r2, r3}
    Capacities = {0, 2}
    Uses = {"cancel", "close", "reset_closed", "move", "shutdown"}
SPECIFICATION Spec
SYMMETRY Symmetry
INVARIANTS StatesAgree
PROPERTIES Fifo CancelCompletes RoomIsUsed
CHECK_DEADLOCK FALSE
