SPECIFICATION Spec
CONSTANTS
  p1 = p1
  p2 = p2
  k1 = k1
  k2 = k2
  r1 = r1
  None = None
  Pool <- MCPool
  Queue <- MCQueue
  Kafka <- MCKafka
  Own <- MCOwn
  Handler = {h1, h2}
INVARIANTS TypeOK AnsweredIsDone
PROPERTIES DeleteCanBeRepeated
