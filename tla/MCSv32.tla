------------------------------- MODULE MCSv32 -------------------------------
(***************************************************************************)
(* Three pages of two words: a root table, a second table, a page of data.   *)
(* The tables may be linked, map themselves for S, or be left invalid; the  *)
(* data page may hold entries too.                                          *)
(***************************************************************************)
EXTENDS Sv32

Entry(bits, n) ==
    [V |-> TRUE, R |-> "R" \in bits, W |-> "W" \in bits, X |-> "X" \in bits,
     U |-> "U" \in bits, A |-> FALSE, D |-> FALSE, ppn |-> n]
Null == [V |-> FALSE, R |-> FALSE, W |-> FALSE, X |-> FALSE, U |-> FALSE,
         A |-> FALSE, D |-> FALSE, ppn |-> 0]

Pointer   == Entry({}, 1)
LargeS    == Entry({"R", "W", "X"}, 0)
UserData  == Entry({"R", "W", "X", "U"}, 2)
TableForS == Entry({"R", "W"}, 1)
Alias     == Entry({"R", "W", "U"}, 6)  \* beyond the address space, in frame 2

MCPpn   == {0, 1, 2, 6}
MCRoots == {0}

MCImages == {[a \in PhysAddr |-> Null]}

MCStoreWords ==
    [a \in PhysAddr |-> CASE a = 0 -> {Null, Pointer, LargeS}
                          [] a = 1 -> {Pointer}
                          [] a = 2 -> {Null, UserData, TableForS}
                          [] a = 3 -> {UserData, Alias}
                          [] a > 3 -> {UserData}]

=============================================================================
