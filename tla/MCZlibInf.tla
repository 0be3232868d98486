------------------------------ MODULE MCZlibInf ------------------------------
(***************************************************************************)
(* Instance of ZlibInf for TLC: sound streams of up to two units that      *)
(* decode to less, to more and to exactly what the out buffer holds; the   *)
(* same cut short, with one unit replaced by another one or by one that    *)
(* cannot be decoded, and with more data or another stream behind them.    *)
(***************************************************************************)
EXTENDS ZlibInf

Runs == {<<1>>, <<1, 2>>, <<1, 2, 3, 4>>}
Bodies == {<<>>} \cup {<<Data(r)>> : r \in Runs} \cup {<<Data(r), Data(q)>> : r, q \in Runs}
Sound == {<<Data(<<>>)>> \o b \o <<End(Plain(b))>> : b \in Bodies}

Truncated == UNION {{SubSeq(s, 1, n) : n \in 0 .. Len(s) - 1} : s \in Sound}
Damaged == {[s EXCEPT ![n] = u] : s \in {s \in Sound : Len(s) = 4}, n \in 1 .. 4,
                                  u \in {Bad, Dict, Data(<<2>>)}}
Trailing == {s \o t : s \in Sound, t \in {<<Bad>>, <<Data(<<>>), Data(<<5>>), End(<<5>>)>>}}

MCSources == Sound \cup Truncated \cup Damaged \cup Trailing
================================================================================
