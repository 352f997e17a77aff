------------------------------ MODULE MCSession ------------------------------
(***************************************************************************)
(* Files of up to three headers for a memory of four bytes, with segments    *)
(* that overlap, that stick out of the file or of memory, and that are not   *)
(* loadable; and a program of two instructions that jumps, loops and ends.   *)
(***************************************************************************)
EXTENDS Session, TLC

Seg(l, o, v, fs, ms) ==
    [load |-> l, offset |-> o, vaddr |-> v, filesz |-> fs, memsz |-> ms]

Segments == {
    Seg(TRUE,  0, 0, 2, 4),     \* data and .bss
    Seg(TRUE,  1, 1, 2, 2),     \* data over the .bss of the first
    Seg(TRUE,  0, 3, 3, 5),     \* sticks out of memory
    Seg(TRUE,  2, 0, 2, 2),     \* sticks out of the file
    Seg(TRUE,  0, 6, 1, 1),     \* beyond memory
    Seg(TRUE,  0, 1, 0, 2),     \* .bss only
    Seg(FALSE, 0, 0, 1, 1) }    \* a note

\* Byte values: 0, and one for each place in the file.
FileWith(h, e, ps, n) ==
    [header |-> h, entry |-> e, size |-> 3, bytes |-> [i \in 0 .. 2 |-> i + 1],
     phdrs |-> ps, phnum |-> n]

Lists == {<<s>> : s \in Segments}
    \cup {<<s, t>> : s, t \in Segments}
    \cup {<<Seg(TRUE, 0, 0, 2, 4), s, t>> : s, t \in Segments}

MCFiles ==
    {FileWith(h, 1, <<Seg(TRUE, 0, 0, 2, 4)>>, 1) : h \in Headers}
    \cup {FileWith("good", 0, <<Seg(TRUE, 0, 0, 2, 4)>>, 1),
          FileWith("good", 1, <<>>, 0),
          FileWith("good", 1, <<Seg(TRUE, 0, 0, 2, 4)>>, 2)}
    \cup {FileWith("good", 1, l, Len(l)) : l \in Lists}

MCOutcomes ==
    [a \in 0 .. 15 |->
        CASE a = 1 -> {[pc |-> 2, state |-> "RUNNING"], [pc |-> 1, state |-> "HALTED"]}
          [] a = 2 -> {[pc |-> 1, state |-> "RUNNING"], [pc |-> 2, state |-> "RUNNING"]}
          [] OTHER -> {[pc |-> a, state |-> "EXCEPTION"]}]

=============================================================================
