SPECIFICATION Spec
CONSTANTS
    lamp = lamp
    probe = probe
    Things <- MCThings
    Types <- MCTypes
    MaxLive = 2
    FirstEndpoint = 3
    LastEndpoint = 4
    MaxTickets = 2
    Capacity = 2
    Duration = 1
    RequestSlots = 2
    ControlSlots = 2
    ObservationSlots = 2
    Workloads <- MCWorkloads
INVARIANTS
    TicketCustody
    ReceiptHonest
    ObservationOrder
    StoreHonest
PROPERTIES
    FreshSuccess
