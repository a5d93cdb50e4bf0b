------------------------------ MODULE MCBridge ------------------------------
EXTENDS Bridge

\* Buffers and header lengths on both sides of every test of the parser.
MCPackets ==
  [len : {0, 19, 20, 27, 28, 40, 43, 44, 59, 60, 79, 80, 120},
   version : {4, 6}, ihl : {4, 5, 15}, total : {19, 20, 60},
   protocol : {"tcp", "udp", "icmp", "other"}, dataOffset : {4, 5, 15}]

\* The counters of src/bridge/aegis_bridge_test.cpp that differ in their level.
MCUpdates ==
  {[critical |-> c[1], blocked |-> c[2], kernel |-> c[3], total |-> c[4]] :
     c \in {<<0, 3, 0, 10>>, <<9, 0, 0, 20>>}}
=============================================================================
