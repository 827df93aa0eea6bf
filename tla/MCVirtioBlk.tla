----------------------------- MODULE MCVirtioBlk -----------------------------
(* A small instance of VirtioBlk for TLC: a one-sector image and a write   *)
(* whose second buffer is outside guest RAM, a read that runs past the image, *)
(* a flush, and a chain with no status byte.                                  *)
EXTENDS VirtioBlk

Good(v) == [ok |-> TRUE, val |-> v]
Bad     == [ok |-> FALSE, val |-> 0]

Mixed == {[type |-> "out",   sector |-> 0, bufs |-> <<Good(1), Bad>>,     whole |-> TRUE],
          [type |-> "in",    sector |-> 0, bufs |-> <<Good(0), Good(0)>>, whole |-> TRUE],
          [type |-> "flush", sector |-> 0, bufs |-> <<>>,                 whole |-> TRUE],
          [type |-> "out",   sector |-> 0, bufs |-> <<Good(2)>>,          whole |-> FALSE]}
=============================================================================
