SPECIFICATION Spec
CONSTANT Codecs <- AllCodecs
INVARIANTS
  RoundTrip
  PackIsHonest
  DataAtOffset
