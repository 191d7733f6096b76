SPECIFICATION Spec
CONSTANT Packets <- MCPackets
CHECK_DEADLOCK FALSE
INVARIANT TypeOK
 
PROPERTY ParserEnds
