------------------------- MODULE MCAdvertisingData -------------------------
(***************************************************************************)
(* AdvertisingData for TLC: the values.                                    *)
(***************************************************************************)
EXTENDS AdvertisingData

\* COMPLETE_LIST_16BIT_SERVICE_IDS, COMPLETE_LOCAL_NAME and APPEARANCE.
SomeTypes == {3, 9, 25}
SomeListTypes == {3}

\* Nothing, one byte, two different bytes.
SomeDatas == {<<>>, <<7>>, <<7, 8>>}
=============================================================================
