SPECIFICATION Spec
CONSTANTS
    producer = producer
    consumer = consumer
    Nobody = Nobody
    Items = 5
    BufferSize = 2
    IntMax <- MCIntMax
    MaxSpurious = 2
PROPERTIES ExampleFinishes
CHECK_DEADLOCK FALSE
