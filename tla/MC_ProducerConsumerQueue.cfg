CONSTANTS
  main = main
  client1 = client1
  client2 = client2
  client3 = client3
  sock1 = sock1
  sock2 = sock2
  Producers = {main}
  Consumers = {client1, client2, client3}
  Waiting = {main, client2, client3}
  Item = {sock1, sock2}
  NoItem = NoItem
  QSize = 2
SPECIFICATION LiveSpec
INVARIANT NoLostWakeup
PROPERTIES
  ImplementsFifo
  ProduceReturns
