SPECIFICATION CalmSpec
CONSTANT MaxEvents = 8
PROPERTY ImplementsFifo
