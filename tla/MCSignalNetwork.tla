---------------------------- MODULE MCSignalNetwork ----------------------------
(* Layouts for which TLC checks SignalNetwork.                             *)
EXTENDS SignalNetwork

Bits(start, length) ==
  [pdu |-> 1, start |-> start, length |-> length, factor |-> 1, offset |-> 0,
   min |-> 0, max |-> 2^length - 1, invalid |-> FALSE, exact |-> TRUE,
   encode |-> {}, decode |-> {}]

Frame(len) == [len |-> len, encode |-> {}, decode |-> {}]

\* A signal that crosses a byte, between one that ends in the first byte and one
\* that ends with the second, in steps of 2 from -4.
Crossing ==
  [pdus    |-> <<Frame(2)>>,
   signals |-> <<Bits(0, 3),
                 [Bits(3, 10) EXCEPT !.factor = 2, !.offset = -4, !.min = -4, !.max = 2042],
                 Bits(13, 3)>>,
   set     |-> <<{0, 5, 8}, {-4, 701, 2042}, {2, 7}>>]

\* A byte, a signal with a whole byte and a last byte, and one with a last bit.
WholeBytes ==
  [pdus    |-> <<Frame(4)>>,
   signals |-> <<Bits(0, 8), Bits(8, 16), Bits(24, 1)>>,
   set     |-> <<{1, 170, 255}, {258, 65535}, {0, 1}>>]

\* A signal inside a byte, one from there through a whole byte to a last bit, in
\* another order than that of their bits.
Inside ==
  [pdus    |-> <<Frame(3)>>,
   signals |-> <<Bits(6, 11), Bits(2, 3)>>,
   set     |-> <<{1, 1023, 1366}, {0, 2, 7}>>]

\* Two PDUs, one of them with a byte that its Lua function writes, a signal in
\* that byte, and a signal without a scale.
TwoPdus ==
  [pdus    |-> <<[Frame(2) EXCEPT !.encode = {(1 :> 0), (1 :> 129)}], Frame(1)>>,
   signals |-> <<Bits(8, 4), [Bits(12, 4) EXCEPT !.invalid = TRUE],
                 [Bits(3, 2) EXCEPT !.pdu = 2], Bits(0, 2)>>,
   set     |-> <<{6, 9}, {1}, {1, 2, 4}, {2}>>]

\* Limits that are not on the grid, values that are wider than their signal, less
\* than the offset, or rounded.
Edges ==
  [pdus    |-> <<Frame(2)>>,
   signals |-> <<[Bits(0, 4) EXCEPT !.factor = 3, !.min = 2, !.max = 40],
                 [Bits(4, 4) EXCEPT !.max = 90],
                 [Bits(8, 5) EXCEPT !.factor = 5, !.offset = 10, !.min = -5, !.max = 60,
                                    !.exact = FALSE],
                 [Bits(13, 3) EXCEPT !.factor = 2, !.min = 4, !.max = 14,
                                     !.exact = FALSE]>>,
   set     |-> <<{2, 17, 41}, {25}, {-5, 35, 36}, {4}>>]

\* Lua functions of signals, and of a PDU that is received.
Functions ==
  [pdus    |-> <<[Frame(2) EXCEPT !.decode = {(2 :> 3), (2 :> 200)}]>>,
   signals |-> <<[Bits(0, 4) EXCEPT !.min = 1, !.max = 9,
                    !.encode = {[sets |-> "none", to |-> 0], [sets |-> "phys", to |-> 4],
                                [sets |-> "phys", to |-> 12]}],
                 [Bits(4, 4) EXCEPT !.max = 9,
                    !.decode = {[sets |-> "phys", to |-> 3], [sets |-> "phys", to |-> 11],
                                [sets |-> "raw", to |-> 7], [sets |-> "raw", to |-> 10]}]>>,
   set     |-> <<{0, 2, 9}, {1, 9}>>]

MCLayouts == {Crossing, WholeBytes, Inside, TwoPdus, Edges, Functions}
=============================================================================
