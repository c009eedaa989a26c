---------------------------- MODULE MCGattServer ----------------------------
EXTENDS GattServer

CONSTANTS batt, lock, meta, v1, v2, short, base1, base2

MCCharacteristics == {batt, lock, meta}
MCProperties == [c \in MCCharacteristics |->
  CASE c = batt -> {"notify", "write"}
    [] c = lock -> {"indicate", "write", "authorizeWrite", "authorizeRead"}
    [] c = meta -> {"incomplete"}]
\* One descriptor more than there is room for: the service fails half-way.
MCDescriptors == [c \in MCCharacteristics |-> IF c = lock THEN 2 ELSE 0]
MCServices == {[base |-> short, chars |-> <<batt>>],
               [base |-> base1, chars |-> <<meta, lock>>]}
MCTwoBases == {[base |-> base1, chars |-> <<batt>>],
               [base |-> base2, chars |-> <<lock>>]}
MCValues == {v1, v2}
MCCCCDValues == {{}, {"notify"}, {"indicate"}}
=============================================================================
