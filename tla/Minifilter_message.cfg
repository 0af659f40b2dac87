\* DriverEntry gives its FltPort a null message callback.
CONSTANTS
    c1 = c1
    c2 = c2
    c3 = c3
    Clients = {c1, c2}
    NoClient = NoClient
    Callbacks = {"nullptr"}
SPECIFICATION Spec
INVARIANT MessagesHaveCallback
