------------------------------- MODULE MCMpsc -------------------------------
\* Instances of Mpsc for TLC: three channels, the address order is chA, chB, chC.
EXTENDS Mpsc

CONSTANTS chA, chB, chC, s1, s2

MCAddr == [x \in Channels |-> CASE x = chA -> 1 [] x = chB -> 2 [] x = chC -> 3]

\* s1 holds a Sender of chA, the other one a Sender of chB.
HomeAB == [s \in Senders |-> IF s = s1 THEN chA ELSE chB]

NoForwards == {}
OneHop == {<<chA, chB>>}
Ring == {<<chA, chB>>, <<chB, chC>>, <<chC, chA>>, <<chB, chA>>}
Mutual == {<<chA, chB>>, <<chB, chA>>}

NoItems == {}
FirstOfS1 == {<<s1, 1>>}
SecondOfS2 == {<<s2, 2>>}
=============================================================================
