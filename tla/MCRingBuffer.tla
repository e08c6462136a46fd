---------------------------- MODULE MCRingBuffer ----------------------------
(* Small instances of the ring.  The capacity is what NewRingBuffer makes  *)
(* of the configured size.                                                 *)
EXTENDS RingBuffer

CONSTANTS
  Size           \* the ring_buffer_size the instance is built with

MCCapacity == RoundedCapacity(Size)
=============================================================================
