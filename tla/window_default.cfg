SPECIFICATION Spec
CONSTANTS
    Session = {s1}
    conn_local_window_size = 7
    initial_window_size = 7
    max_unfinished = 4
    pre_accept_buffer_limit = 8
    max_capsule_size = 11
    MaxFrame = 2
INVARIANTS
    WindowOpenAlone
CHECK_DEADLOCK FALSE
