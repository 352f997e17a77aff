---------------------------- MODULE MCAnyProgram ----------------------------
(***************************************************************************)
(* Arbitrary software in eight bytes at the end of the address space: any    *)
(* instruction of the repertoire at any address, in any privilege level,    *)
(* with handlers installed, removed and delegated to at any moment.  And,   *)
(* with an entry of its own, that of a smaller repertoire that arms the      *)
(* timer and enables, delegates and returns from its interrupt.              *)
(***************************************************************************)
EXTENDS HartProtection, TLC

Op(name)         == [op |-> name]
Jmp(a)           == [op |-> "jump", target |-> a]
Fault2           == [op |-> "fault", cause |-> 2]
SetPc(name, a)     == [op |-> "csrw", csr |-> name, to |-> a]
SetStatus(name, s) == [op |-> "csrw", csr |-> name, status |-> s]
SetDeleg(name, s)  == [op |-> "csrw", csr |-> name, codes |-> s]
Status(b, p)     == [SIE |-> b, MIE |-> b, SPIE |-> b, MPIE |-> b, SPP |-> 1,
                     MPP |-> p]

Software == 16

Repertoire ==
    {[op |-> "plain", len |-> 2], Jmp(Software + 4),
     Op("mret"), Op("sret"), Op("sfence"), [op |-> "ebreak", len |-> 2], Fault2}
    \cup {[op |-> "ecall", a7 |-> s] : s \in {"exit", "write", "unknown"}}
    \cup {SetPc("mtvec", v)   : v \in {0, Software + 4}}
    \cup {SetPc("stvec", v)   : v \in {0, Software + 6}}
    \cup {SetDeleg("medeleg", v) : v \in {{}, {2, 3, 8}}}
    \cup {SetStatus("mstatus", Status(TRUE, p)) : p \in 0 .. 3}
    \cup {SetStatus("sstatus", Status(FALSE, 3))}

Interrupted == 4

TimerRepertoire ==
    {[op |-> "set_timer", len |-> 4, on |-> TRUE, left |-> 0],
     [op |-> "csrw", csr |-> "mie", bit |-> TRUE], SetDeleg("mideleg", {7}),
     SetPc("mtvec", Interrupted), SetPc("stvec", Interrupted + 4), Op("mret")}
    \cup {SetStatus("mstatus", Status(TRUE, p)) : p \in {0, 1}}

\* An odd entry makes the first fetch misaligned.
MCEntries == {Software + 5, Software + 6, Interrupted}

MCProgram ==
    [a \in Addr |->
        IF a >= Software THEN Repertoire
        ELSE IF a = Interrupted THEN TimerRepertoire
        ELSE IF a = Interrupted + 4 THEN {Jmp(Interrupted), Op("sret")}
        ELSE {Jmp(Software + (a % 8))}]

=============================================================================
