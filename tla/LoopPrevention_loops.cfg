SPECIFICATION Spec
CONSTANTS
    Deliveries = {d1, d2}
    Messages = {data, status, note, bare, word, signal}
    Exempt = {status, bare, word}
    Unstamped = {bare}
    Unrequested = {note, signal}
    Objects = {word, signal}
    NoMessage = none
    NoTag = untagged
    NoMatch = unique
    MaxCache = 3
    MaxPasses = 4
INVARIANTS LoopsEnd DuplicatesOverlap SomeDeliveryProceeds
SYMMETRY Interchangeable
CHECK_DEADLOCK FALSE
