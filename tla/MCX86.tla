-------------------------------- MODULE MCX86 --------------------------------
(***************************************************************************)
(* Programs and configurations of the x86 thread for TLC.                  *)
(***************************************************************************)
EXTENDS X86Thread

I(op, in, out) == [op |-> op, in |-> in, out |-> out]

\* Registers: an integer register, two flags, an integer register behind them, an
\* XMM register, and three floating-point ones over a stack of two.
ax == 10
cf0 == 11
zf == 12
aux == 13
xmm == 20

Load == <<I("load", <<>>, <<ax>>)>>
Store == <<I("store", <<ax>>, <<>>)>>
Add == <<I("alu", <<ax>>, <<ax, cf0, zf>>)>>
Compare == <<I("alu", <<ax>>, <<cf0, zf>>)>>
\* An output that is repeated.
Exchange == <<I("alu", <<ax>>, <<ax, ax>>)>>
Jump == <<I("branch", <<cf0>>, <<>>)>>
\* Instructions of two micro-instructions.
Push == <<I("fp_push", <<>>, <<>>), I("alu", <<ax>>, <<0>>)>>
Pop == <<I("alu", <<0>>, <<1>>), I("fp_pop", <<>>, <<>>)>>
\* The control word: the third floating-point register.
Control == <<I("alu", <<2>>, <<2, xmm>>)>>
Nop == <<I("nop", <<>>, <<>>)>>
Exit == <<I("syscall", <<>>, <<>>)>>

Base == [programs |-> <<<<Load, Compare, Jump, Exit>>>>,
         wrong |-> {Add}, atWriteback |-> TRUE, preempt |-> FALSE,
         fetchSize |-> 2, uopqSize |-> 1, robSize |-> 3, iqSize |-> 2, lsqSize |-> 2]

\* Recovery at commit, a store that waits for its operand, and repeated outputs.
AtCommit == [Base EXCEPT !.programs = <<<<Load, Jump, Store, Exit>>>>,
                         !.wrong = {Exchange, Store}, !.atWriteback = FALSE]
\* Two mispredictions, the second one while stores of a wrong path are about.
WrongStore == [Base EXCEPT !.programs = <<<<Jump, Store, Jump, Exit>>>>,
                           !.wrong = {Store}]
\* Loads of a wrong path return late.
WrongLoad == [Base EXCEPT !.programs = <<<<Jump, Add, Exit>>>>, !.wrong = {Load, Nop}]
\* The floating-point stack, turned on the wrong path.
Stack == [Base EXCEPT !.programs = <<<<Push, Jump, Pop, Exit>>>>,
                      !.wrong = {Push, Control}, !.robSize = 4]
\* Two contexts share the thread: one runs after the other, with mispredictions,
\* or they take turns, on a straight path.
Both == [Base EXCEPT !.programs = <<<<Load, Jump, Exit>>, <<Store, Jump, Exit>>>>]
Turns == [Base EXCEPT !.programs = <<<<Load, Add, Exit>>, <<Store, Push, Exit>>>>,
                      !.preempt = TRUE]

MCConfigs == {Base, AtCommit, WrongStore, WrongLoad, Stack, Both, Turns}
\* Contexts with branches are preempted.
MCPreempted == {[Both EXCEPT !.preempt = TRUE]}
MCSizes == [k \in {"int", "fp", "xmm"} |->
                CASE k = "int" -> 6 [] k = "fp" -> 5 [] k = "xmm" -> 2]
MCContexts == {1, 2}
MCFpRegs == {0, 1, 2}
=============================================================================
