---------------------- MODULE MC_ProducerConsumerQueue ----------------------
(* Small instance of ProducerConsumerQueue for TLC.                         *)
EXTENDS ProducerConsumerQueue

CONSTANTS main, client1, client2, client3, sock1, sock2
=============================================================================
