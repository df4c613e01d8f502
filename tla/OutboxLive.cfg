SPECIFICATION RestingSpec
CONSTANTS
    Messages = 2
    BatchLimit = 1
    Handlers = {h1}
    FaultLimit = 1
PROPERTIES
    EventuallySettled
    ImplementsDelivery
