------------------------------ MODULE MCMarket ------------------------------
(* Instances of Market for TLC. *)
EXTENDS Market, TLC

CONSTANTS g1, g2

TwoProcs == {g1, g2}
OneProc == {g1}
AllKinds == {"daily", "futures", "latest", "static"}
FuturesOnly == {"futures"}

\* Friday, Saturday, Monday, Tuesday; four ticks a day, published at the last one.
Friday == 0
Calendar(monday) == <<Friday * DayTicks + PublishAt, Never, monday, 3 * DayTicks + PublishAt>>
FromZero(s) == [d \in Days |-> s[d + 1]]

\* Monday's data come on time, late or not at all.
AllSchedules == {FromZero(Calendar(m)) : m \in {11, 13, Never}}
OnTime == {FromZero(Calendar(11))}

\* A contract of the large future, or both small ones, fail.
SomeFail == {{}, {"TXF"}, {"MXF", "TMF"}}

AskedFor == {2, NoDate, 9}
ProcSymmetry == Permutations(Procs)
=============================================================================
