------------------------ MODULE CodingTranscriptProofs ------------------------
(* Proofs about EventMerge and CodingTranscript for any prompts, pieces    *)
(* and tools, and conversations of any length.                             *)
EXTENDS CodingTranscript, WellFoundedInduction, TLAPS

(***************************************************************************)
(* Numbers, and functions that are defined by recursion.                   *)
(***************************************************************************)
(* A set of numbers has a least one.                                       *)
LEMMA Least ==
    ASSUME NEW T, T \subseteq Nat, T # {}
    PROVE  \E x \in T : \A y \in T : x <= y
<1>1. IsWellFoundedOn(OpToRel(<,Nat), Nat)
  BY NatLessThanWellFounded
<1>2. PICK x \in T : \A y \in T : <<y, x>> \notin OpToRel(<,Nat)
  BY <1>1, WFMin
<1>3. ASSUME NEW y \in T PROVE x <= y
  <2>1. <<y, x>> \in OpToRel(<,Nat) <=> y < x
    <3>1. <<y, x>> \in Nat \X Nat
      OBVIOUS
    <3> QED  BY <3>1 DEF OpToRel
  <2>2. x \in Nat /\ y \in Nat
    OBVIOUS
  <2>3. ~(y < x)
    BY <1>2, <2>1
  <2> QED BY <2>2, <2>3
<1> QED BY <1>3

(* Induction, on the set of the numbers for which something holds.         *)
LEMMA InductionUpTo ==
    ASSUME NEW N \in Nat, NEW T, 0 \in T, \A n \in 1..N : n - 1 \in T => n \in T
    PROVE  0..N \subseteq T
<1> DEFINE U == (0..N) \ T
<1> SUFFICES ASSUME U # {} PROVE FALSE
  OBVIOUS
<1>1. PICK x \in U : \A y \in U : x <= y
  <2>1. U \subseteq Nat
    OBVIOUS
  <2> HIDE DEF U
  <2> QED BY <2>1, Least
<1> QED BY <1>1

(* The functions that begin with s0 and go on as step says: there is one.  *)
Iterates(N, S, s0, step) ==
    {f \in [0..N -> S] : f[0] = s0 /\ \A n \in 1..N : f[n] = step[<<n, f[n-1]>>]}

LEMMA Recursion ==
    ASSUME NEW N \in Nat, NEW S, NEW s0 \in S, NEW step \in [(1..N) \X S -> S]
    PROVE  Iterates(N, S, s0, step) # {}
<1> DEFINE T == {m \in 0..N : Iterates(m, S, s0, step) # {}}
<1>1. 0 \in T
  <2>1. [x \in 0..0 |-> s0] \in Iterates(0, S, s0, step)
    BY DEF Iterates
  <2> QED BY <2>1
<1>2. ASSUME NEW m \in 1..N, m - 1 \in T PROVE m \in T
  <2>1. PICK f \in [0..(m-1) -> S] : f[0] = s0 /\ \A n \in 1..(m-1) : f[n] = step[<<n, f[n-1]>>]
    BY <1>2 DEF Iterates
  <2> DEFINE g == [x \in 0..m |-> IF x = m THEN step[<<m, f[m-1]>>] ELSE f[x]]
  <2>2. g \in [0..m -> S]
    <3>1. f[m-1] \in S
      OBVIOUS
    <3>2. \A x \in 0..m : x # m => f[x] \in S
      OBVIOUS
    <3>3. step[<<m, f[m-1]>>] \in S
      <4>1. <<m, f[m-1]>> \in (1..N) \X S
        BY <3>1
      <4> QED BY <4>1
    <3> QED BY <3>2, <3>3
  <2>3. g[0] = s0
    BY <2>1
  <2>4. ASSUME NEW n \in 1..m PROVE g[n] = step[<<n, g[n-1]>>]
    <3>1. g[n-1] = f[n-1]
      OBVIOUS
    <3>2. CASE n = m
      <4>1. g[n] = step[<<m, f[m-1]>>]
        BY <3>2
      <4> QED BY <3>1, <3>2, <4>1
    <3>3. CASE n # m
      <4>1. n \in 1..(m-1) /\ g[n] = f[n]
        BY <3>3
      <4>2. f[n] = step[<<n, f[n-1]>>]
        BY <2>1, <4>1
      <4> HIDE DEF g
      <4> QED BY <3>1, <4>1, <4>2
    <3> QED BY <3>2, <3>3
  <2>5. g \in Iterates(m, S, s0, step)
    <3> HIDE DEF g
    <3> QED BY <2>2, <2>3, <2>4 DEF Iterates
  <2> QED BY <2>5
<1>3. N \in T
  <2> HIDE DEF T
  <2> QED BY <1>1, <1>2, InductionUpTo
<1> QED BY <1>3

(* A set of numbers with a bound has a greatest one.                       *)
LEMMA Greatest ==
    ASSUME NEW N \in Nat, NEW T, T \subseteq 0..N, T # {}
    PROVE  \E x \in T : \A y \in T : y <= x
<1> DEFINE U == {N - x : x \in T}
<1>1. U \subseteq Nat /\ U # {}
  <2>1. \A x \in T : x \in 0..N /\ N - x \in Nat
    OBVIOUS
  <2> QED BY <2>1
<1>2. PICK u \in U : \A v \in U : u <= v
  <2> HIDE DEF U
  <2> QED BY <1>1, Least
<1>3. PICK x \in T : u = N - x
  OBVIOUS
<1>4. ASSUME NEW y \in T PROVE y <= x
  <2>1. N - y \in U
    OBVIOUS
  <2>2. N - x <= N - y
    BY <1>2, <1>3, <2>1
  <2>3. x \in 0..N /\ y \in 0..N
    OBVIOUS
  <2> HIDE DEF U
  <2> QED BY <2>2, <2>3
<1> QED BY <1>4

LEMMA MinOf ==
    ASSUME NEW T, T \subseteq Nat, T # {}
    PROVE  Min(T) \in T /\ \A y \in T : Min(T) <= y
BY Least DEF Min

LEMMA MaxOf ==
    ASSUME NEW N \in Nat, NEW T, T \subseteq 0..N, T # {}
    PROVE  Max(T) \in T /\ \A y \in T : y <= Max(T)
<1>1. PICK x \in T : \A y \in T : y <= x
  BY Greatest
<1>2. \A y \in T : x >= y
  BY <1>1
<1>3. Max(T) \in T /\ \A y \in T : Max(T) >= y
  BY <1>2 DEF Max
<1> QED BY <1>3

(***************************************************************************)
(* Sequences.                                                              *)
(***************************************************************************)
LEMMA SameSequence ==
    ASSUME NEW W, NEW s \in Seq(W), NEW t \in Seq(W), Len(s) = Len(t),
           \A k \in 1..Len(s) : s[k] = t[k]
    PROVE  s = t
OBVIOUS

(* The beginning, the rest and the concatenation of sequences, item by     *)
(* item.                                                                   *)
LEMMA FirstIs ==
    ASSUME NEW W, NEW s \in Seq(W), NEW c \in 0..Len(s)
    PROVE  /\ SubSeq(s, 1, c) \in Seq(W) /\ Len(SubSeq(s, 1, c)) = c
           /\ \A k \in 1..c : SubSeq(s, 1, c)[k] = s[k]
OBVIOUS

LEMMA RestIs ==
    ASSUME NEW W, NEW s \in Seq(W), NEW c \in 0..Len(s)
    PROVE  /\ From(s, c + 1) \in Seq(W) /\ Len(From(s, c + 1)) = Len(s) - c
           /\ \A k \in 1..(Len(s) - c) : From(s, c + 1)[k] = s[c + k] /\ c + k \in 1..Len(s)
<1> DEFINE N == Len(s)
           x == SubSeq(s, c + 1, N)
<1>1. N \in Nat /\ c \in 0..N /\ From(s, c + 1) = x
  BY DEF From
<1>2. x \in Seq(W) /\ Len(x) = N - c
  BY <1>1
<1>3. \A k \in 1..(N - c) : x[k] = s[c + k] /\ c + k \in 1..N
  BY <1>1
<1> QED BY <1>1, <1>2, <1>3

LEMMA TogetherIs ==
    ASSUME NEW W, NEW e \in Seq(W), NEW f \in Seq(W)
    PROVE  /\ e \o f \in Seq(W) /\ Len(e \o f) = Len(e) + Len(f)
           /\ \A k \in 1..Len(e) : (e \o f)[k] = e[k]
           /\ \A k \in 1..Len(f) : (e \o f)[Len(e) + k] = f[k]
           /\ \A k \in 1..Len(e \o f) : k \in 1..Len(e) \/ (k - Len(e) \in 1..Len(f) /\ Len(e) + (k - Len(e)) = k)
<1>1. /\ e \o f \in Seq(W) /\ Len(e \o f) = Len(e) + Len(f)
      /\ \A k \in 1..Len(e) : (e \o f)[k] = e[k]
      /\ \A k \in 1..Len(f) : (e \o f)[Len(e) + k] = f[k]
  OBVIOUS
<1>2. Len(e) \in Nat /\ Len(f) \in Nat
  OBVIOUS
<1> QED BY <1>1, <1>2

LEMMA OneMore ==
    ASSUME NEW W, NEW e \in Seq(W), NEW s \in Seq(W), NEW n \in 1..Len(s)
    PROVE  Append(e \o SubSeq(s, 1, n - 1), s[n]) = e \o SubSeq(s, 1, n)
<1> DEFINE a == SubSeq(s, 1, n - 1)
           b == SubSeq(s, 1, n)
           x == Append(e \o a, s[n])
           y == e \o b
<1>1. /\ a \in Seq(W) /\ Len(a) = n - 1 /\ \A k \in 1..(n - 1) : a[k] = s[k]
      /\ b \in Seq(W) /\ Len(b) = n /\ \A k \in 1..n : b[k] = s[k]
      /\ n \in Nat /\ n - 1 \in Nat
  <2>1. n - 1 \in 0..Len(s) /\ n \in 0..Len(s)
    OBVIOUS
  <2> QED BY <2>1, FirstIs
<1> HIDE DEF a, b
<1>2. b = Append(a, s[n])
  <2>1. s[n] \in W
    OBVIOUS
  <2>2. Append(a, s[n]) \in Seq(W) /\ Len(Append(a, s[n])) = n
        /\ (\A k \in 1..(n - 1) : Append(a, s[n])[k] = a[k]) /\ Append(a, s[n])[n] = s[n]
    BY <1>1, <2>1
  <2>3. \A k \in 1..Len(b) : b[k] = Append(a, s[n])[k]
    BY <1>1, <2>2
  <2> QED BY <1>1, <2>2, <2>3, SameSequence
<1>3. Append(e \o a, s[n]) = e \o Append(a, s[n])
  <2>1. s[n] \in W /\ e \in Seq(W) /\ a \in Seq(W)
    BY <1>1
  <2> HIDE DEF x, y
  <2> QED BY <2>1, SMTT(30)
<1> QED BY <1>2, <1>3 DEF a, b

LEMMA IsPrefixIs ==
    ASSUME NEW W, NEW s \in Seq(W), NEW t \in Seq(W)
    PROVE  IsPrefix(s, t) <=> Len(s) <= Len(t) /\ \A i \in 1..Len(s) : s[i] = t[i]
<1>1. CASE ~(Len(s) <= Len(t))
  BY <1>1 DEF IsPrefix
<1>2. CASE Len(s) <= Len(t)
  <2>1. SubSeq(s, 1, Len(s)) = s
    OBVIOUS
  <2>2. SubSeq(t, 1, Len(s)) \in Seq(W) /\ Len(SubSeq(t, 1, Len(s))) = Len(s)
    BY <1>2
  <2>3. \A i \in 1..Len(s) : SubSeq(t, 1, Len(s))[i] = t[i]
    BY <1>2
  <2>4. s = SubSeq(t, 1, Len(s)) <=> \A i \in 1..Len(s) : s[i] = t[i]
    BY <2>2, <2>3
  <2> QED BY <1>2, <2>1, <2>4 DEF IsPrefix
<1> QED BY <1>1, <1>2

(***************************************************************************)
(* Texts and events, and the signature of a sequence of them: what it      *)
(* says, with consecutive texts made one.                                  *)
(***************************************************************************)
Types == {"session_initialized", "user_prompt", "text", "tool", "done"}

Words == Prompts \cup Pieces \cup Tools

Speech == [type : Types, text : Seq(Words)]

Events == [type : Types, text : Seq(Words), from : Nat, to : Nat,
           source : {"hub", "transcript"}]

(* With what the transcript never tells.                                   *)
AllTypes == Types \cup {"usage", "output"}

AllEvents == [type : AllTypes, text : Seq(Words), from : Nat, to : Nat,
              source : {"hub", "transcript"}]

LEMMA SpeechIs ==
    ASSUME NEW x \in Speech
    PROVE  x.type \in Types /\ x.text \in Seq(Words) /\ x = [type |-> x.type, text |-> x.text]
BY DEF Speech

LEMMA EventIs ==
    ASSUME NEW e \in Events
    PROVE  /\ e.type \in Types /\ e.text \in Seq(Words) /\ e.from \in Nat /\ e.to \in Nat
           /\ e.source \in {"hub", "transcript"}
           /\ e = [type |-> e.type, text |-> e.text, from |-> e.from, to |-> e.to,
                   source |-> e.source]
           /\ Key(e) \in Speech
           /\ ~LiveOnly(e) /\ e \in AllEvents
<1>1. /\ e.type \in Types /\ e.text \in Seq(Words) /\ e.from \in Nat /\ e.to \in Nat
      /\ e.source \in {"hub", "transcript"}
      /\ e = [type |-> e.type, text |-> e.text, from |-> e.from, to |-> e.to,
              source |-> e.source]
  BY DEF Events
<1>2. Key(e) \in Speech
  BY <1>1 DEF Key, Speech
<1>3. ~LiveOnly(e)
  BY <1>1 DEF LiveOnly, Types
<1>4. e \in AllEvents
  BY <1>1 DEF AllEvents, AllTypes
<1> QED BY <1>1, <1>2, <1>3, <1>4

LEMMA AnyEventIs ==
    ASSUME NEW e \in AllEvents
    PROVE  /\ e.type \in AllTypes /\ e.text \in Seq(Words) /\ e.from \in Nat /\ e.to \in Nat
           /\ e.source \in {"hub", "transcript"}
           /\ ~LiveOnly(e) => e \in Events
<1>1. /\ e.type \in AllTypes /\ e.text \in Seq(Words) /\ e.from \in Nat /\ e.to \in Nat
      /\ e.source \in {"hub", "transcript"}
      /\ e = [type |-> e.type, text |-> e.text, from |-> e.from, to |-> e.to,
              source |-> e.source]
  BY DEF AllEvents
<1>2. ASSUME ~LiveOnly(e) PROVE e \in Events
  <2>1. e.type \in Types
    BY <1>1, <1>2 DEF LiveOnly, AllTypes
  <2> QED BY <1>1, <2>1 DEF Events
<1> QED BY <1>1, <1>2

(* Events the transcript may tell of are told apart by their types.        *)
LEMMA Bare ==
    ASSUME NEW events \in Seq(AllEvents), Comparable(events)
    PROVE  events \in Seq(Events)
<1>1. Len(events) \in Nat /\ events \in [1..Len(events) -> AllEvents]
  OBVIOUS
<1>2. \A k \in 1..Len(events) : events[k] \in Events
  BY <1>1, AnyEventIs DEF Comparable
<1>3. events \in [1..Len(events) -> Events]
  BY <1>1, <1>2
<1> QED BY <1>1, <1>3

LEMMA AllComparable ==
    ASSUME NEW events \in Seq(Events)
    PROVE  Comparable(events) /\ events \in Seq(AllEvents)
<1>1. Len(events) \in Nat /\ events \in [1..Len(events) -> Events]
  OBVIOUS
<1>2. \A k \in 1..Len(events) : ~LiveOnly(events[k]) /\ events[k] \in AllEvents
  BY <1>1, EventIs
<1>3. events \in [1..Len(events) -> AllEvents]
  BY <1>1, <1>2
<1> QED BY <1>1, <1>2, <1>3 DEF Comparable

LEMMA KeyOfSpeech ==
    ASSUME NEW x \in Speech PROVE Key(x) = x /\ Key(x) \in Speech
BY SpeechIs DEF Key

LEMMA KeysAre ==
    ASSUME NEW events \in Seq(Events)
    PROVE  /\ Keys(events) \in Seq(Speech) /\ Len(Keys(events)) = Len(events)
           /\ \A k \in 1..Len(events) : Keys(events)[k] = Key(events[k])
<1> DEFINE n == Len(events)
           s == Keys(events)
<1>1. n \in Nat /\ DOMAIN events = 1..n
  OBVIOUS
<1>2. \A k \in 1..n : Key(events[k]) \in Speech
  BY EventIs
<1>3. s = [k \in 1..n |-> Key(events[k])]
  BY <1>1 DEF Keys
<1>4. s \in [1..n -> Speech]
  BY <1>2, <1>3
<1>5. \A k \in 1..n : s[k] = Key(events[k])
  BY <1>3
<1> HIDE DEF s, n
<1>6. s \in Seq(Speech) /\ Len(s) = n
  BY <1>1, <1>4
<1> QED BY <1>5, <1>6 DEF s, n

(* What an event adds to a signature: text to a text, or an item.          *)
LEMMA ExtendedJoins ==
    ASSUME NEW s \in Seq(Speech), NEW e, Key(e) \in Speech,
           s # <<>>, s[Len(s)].type = "text", e.type = "text"
    PROVE  /\ Extended(s, e) \in Seq(Speech)
           /\ Len(Extended(s, e)) = Len(s)
           /\ \A i \in 1..(Len(s) - 1) : Extended(s, e)[i] = s[i]
           /\ Extended(s, e)[Len(s)] = [type |-> "text", text |-> s[Len(s)].text \o e.text]
<1> DEFINE n == Len(s)
           last == s[n]
           joined == last.text \o e.text
           x == [s EXCEPT ![n].text = @ \o e.text]
<1>1. n \in Nat /\ n >= 1
  OBVIOUS
<1>2. last \in Speech
  BY <1>1
<1>3. last.text \in Seq(Words) /\ e.text \in Seq(Words)
  <2>1. last.text \in Seq(Words)
    BY <1>2 DEF Speech
  <2>2. e.text \in Seq(Words)
    BY DEF Key, Speech
  <2> QED BY <2>1, <2>2
<1>4. joined \in Seq(Words)
  <2> HIDE DEF last
  <2> QED BY <1>3
<1>5. Extended(s, e) = x
  BY DEF Extended, Last
<1>6. x = [i \in 1..n |-> IF i = n THEN [last EXCEPT !.text = joined] ELSE s[i]]
  <2>1. x = [i \in DOMAIN s |-> IF i = n THEN [last EXCEPT !.text = joined] ELSE s[i]]
    OBVIOUS
  <2>2. DOMAIN s = 1..n
    OBVIOUS
  <2> HIDE DEF x, joined, last, n
  <2> QED BY <2>1, <2>2
<1>7. [last EXCEPT !.text = joined] = [type |-> "text", text |-> joined]
  <2>1. last.type = "text"
    OBVIOUS
  <2> HIDE DEF last, joined
  <2> QED BY <1>2, <2>1 DEF Speech
<1>8. [type |-> "text", text |-> joined] \in Speech
  BY <1>4 DEF Speech, Types
<1>9. /\ x \in Seq(Speech) /\ Len(x) = n
      /\ \A i \in 1..(n - 1) : x[i] = s[i]
      /\ x[n] = [type |-> "text", text |-> joined]
  <2>1. \A i \in 1..n : s[i] \in Speech
    OBVIOUS
  <2> HIDE DEF x, n, last, joined
  <2> QED BY <1>1, <1>6, <1>7, <1>8, <2>1
<1> HIDE DEF x
<1> QED BY <1>5, <1>9

LEMMA ExtendedAdds ==
    ASSUME NEW s \in Seq(Speech), NEW e, Key(e) \in Speech,
           ~(s # <<>> /\ s[Len(s)].type = "text" /\ e.type = "text")
    PROVE  /\ Extended(s, e) = Append(s, Key(e))
           /\ Extended(s, e) \in Seq(Speech)
           /\ Len(Extended(s, e)) = Len(s) + 1
           /\ \A i \in 1..Len(s) : Extended(s, e)[i] = s[i]
           /\ Extended(s, e)[Len(s) + 1] = Key(e)
<1>1. Extended(s, e) = Append(s, Key(e))
  BY DEF Extended, Last
<1> QED BY <1>1

LEMMA ExtendedType ==
    ASSUME NEW s \in Seq(Speech), NEW e, Key(e) \in Speech
    PROVE  /\ Extended(s, e) \in Seq(Speech)
           /\ Extended(s, e) # <<>>
           /\ Extended(s, e)[Len(Extended(s, e))].type = e.type
<1>1. CASE s # <<>> /\ s[Len(s)].type = "text" /\ e.type = "text"
  <2>1. /\ Extended(s, e) \in Seq(Speech) /\ Len(Extended(s, e)) = Len(s)
        /\ Extended(s, e)[Len(s)] = [type |-> "text", text |-> s[Len(s)].text \o e.text]
    BY <1>1, ExtendedJoins
  <2>2. Len(s) >= 1
    BY <1>1
  <2> QED BY <1>1, <2>1, <2>2
<1>2. CASE ~(s # <<>> /\ s[Len(s)].type = "text" /\ e.type = "text")
  <2>1. Key(e).type = e.type
    BY DEF Key
  <2> QED BY <1>2, <2>1, ExtendedAdds
<1> QED BY <1>1, <1>2

(* Events that say the same add the same.                                  *)
LEMMA ExtendedSame ==
    ASSUME NEW s, NEW e, NEW f, Key(e) = Key(f)
    PROVE  Extended(s, e) = Extended(s, f)
<1>1. e.type = f.type /\ e.text = f.text
  <2>1. Key(e).type = e.type /\ Key(f).type = f.type /\ Key(e).text = e.text /\ Key(f).text = f.text
    BY DEF Key
  <2> QED BY <2>1
<1> QED BY <1>1 DEF Extended, Key

(* A text, one that follows it, and their concatenation.                   *)
Joins(e, f, g) ==
    /\ Key(e) \in Speech /\ Key(f) \in Speech /\ Key(g) \in Speech
    /\ e.type = "text" /\ f.type = "text" /\ g.type = "text"
    /\ g.text = e.text \o f.text

(* Two texts add what their concatenation adds.                            *)
LEMMA ExtendedTwice ==
    ASSUME NEW s \in Seq(Speech), NEW e, NEW f, NEW g, Joins(e, f, g)
    PROVE  Extended(Extended(s, e), f) = Extended(s, g)
<1> USE DEF Joins
<1> DEFINE t == Extended(s, e)
           u == Extended(t, f)
           v == Extended(s, g)
<1>1. t \in Seq(Speech) /\ t # <<>> /\ t[Len(t)].type = "text"
  BY ExtendedType
<1>2. e.text \in Seq(Words) /\ f.text \in Seq(Words)
  <2>1. Key(e).text = e.text /\ Key(f).text = f.text
    BY DEF Key
  <2> QED BY <2>1, SpeechIs
<1>3. Key(e) = [type |-> "text", text |-> e.text] /\ Key(g) = [type |-> "text", text |-> g.text]
  BY DEF Key
<1>4. /\ u \in Seq(Speech) /\ Len(u) = Len(t)
      /\ \A i \in 1..(Len(t) - 1) : u[i] = t[i]
      /\ u[Len(t)] = [type |-> "text", text |-> t[Len(t)].text \o f.text]
  <2> HIDE DEF t
  <2> QED BY <1>1, ExtendedJoins
<1>5. CASE s # <<>> /\ s[Len(s)].type = "text"
  <2> DEFINE n == Len(s)
             w == s[n].text
  <2>1. /\ t \in Seq(Speech) /\ Len(t) = n
        /\ \A i \in 1..(n - 1) : t[i] = s[i]
        /\ t[n] = [type |-> "text", text |-> w \o e.text]
    BY <1>5, ExtendedJoins
  <2>2. /\ v \in Seq(Speech) /\ Len(v) = n
        /\ \A i \in 1..(n - 1) : v[i] = s[i]
        /\ v[n] = [type |-> "text", text |-> w \o g.text]
    BY <1>5, ExtendedJoins
  <2>3. n \in Nat /\ n >= 1
    BY <1>5
  <2>4. w \in Seq(Words)
    <3>1. s[n] \in Speech
      BY <2>3
    <3> QED BY <3>1, SpeechIs
  <2>5. (w \o e.text) \o f.text = w \o g.text
    <3> DEFINE x == e.text
               y == f.text
    <3>1. x \in Seq(Words) /\ y \in Seq(Words) /\ w \in Seq(Words)
      BY <1>2, <2>4
    <3> HIDE DEF x, y, w
    <3>2. (w \o x) \o y = w \o (x \o y)
      BY <3>1
    <3> QED BY <3>2 DEF x, y
  <2>6. t[n].text = w \o e.text
    <3> DEFINE z == w \o e.text
    <3>1. t[n] = [type |-> "text", text |-> z]
      BY <2>1
    <3> HIDE DEF z, t
    <3>2. t[n].text = z
      BY <3>1
    <3> QED BY <3>2 DEF z
  <2>7. u[n] = v[n]
    <3> HIDE DEF t, u, v, w, n
    <3> QED BY <1>4, <2>1, <2>2, <2>5, <2>6
  <2>8. \A i \in 1..n : u[i] = v[i]
    <3> HIDE DEF t, u, v, w, n
    <3>1. ASSUME NEW i \in 1..n, i # n PROVE u[i] = v[i]
      <4>1. i \in 1..(n - 1)
        BY <2>3, <3>1
      <4> QED BY <1>4, <2>1, <2>2, <4>1
    <3> QED BY <2>7, <3>1
  <2>9. u = v
    <3> HIDE DEF t, u, v, w, n
    <3> QED BY <1>4, <2>1, <2>2, <2>3, <2>8
  <2> QED BY <2>9
<1>6. CASE ~(s # <<>> /\ s[Len(s)].type = "text")
  <2> DEFINE n == Len(s)
  <2>1. /\ t \in Seq(Speech) /\ Len(t) = n + 1
        /\ \A i \in 1..n : t[i] = s[i]
        /\ t[n + 1] = Key(e)
    BY <1>6, ExtendedAdds
  <2>2. /\ v \in Seq(Speech) /\ Len(v) = n + 1
        /\ \A i \in 1..n : v[i] = s[i]
        /\ v[n + 1] = Key(g)
    BY <1>6, ExtendedAdds
  <2>3. n \in Nat
    OBVIOUS
  <2>4. t[n + 1].text = e.text
    <3> HIDE DEF t, n
    <3> QED BY <2>1 DEF Key
  <2>5. u[n + 1] = v[n + 1]
    <3> HIDE DEF t, u, v, n
    <3> QED BY <1>3, <1>4, <2>1, <2>2, <2>4
  <2>6. \A i \in 1..(n + 1) : u[i] = v[i]
    <3> HIDE DEF t, u, v, n
    <3>1. ASSUME NEW i \in 1..(n + 1), i # n + 1 PROVE u[i] = v[i]
      <4>1. i \in 1..n
        BY <2>3, <3>1
      <4>2. u[i] = t[i]
        BY <1>4, <2>1, <2>3, <4>1
      <4> QED BY <2>1, <2>2, <4>1, <4>2
    <3> QED BY <2>5, <3>1
  <2>7. u = v
    <3> HIDE DEF t, u, v, n
    <3> QED BY <1>4, <2>1, <2>2, <2>3, <2>6
  <2> QED BY <2>7
<1> QED BY <1>5, <1>6

(* The function by which Signature is defined exists.                      *)
LEMMA SignatureDef ==
    ASSUME NEW S, NEW events, NEW N \in Nat, N = Len(events), <<>> \in S, \A n \in 1..N, s \in S : Extended(s, events[n]) \in S
    PROVE \E sig \in [0..N -> S] :
            /\ sig[0] = <<>>
            /\ \A n \in 1..N : sig[n] = Extended(sig[n-1], events[n])
            /\ Signature(events) = sig[N]
<1> DEFINE Body(f) == [n \in 0..N |-> IF n = 0 THEN <<>> ELSE Extended(f[n - 1], events[n])]
<1>0. PICK step \in [(1..N) \X S -> S] :
         \A n \in 1..N, s \in S : step[<<n, s>>] = Extended(s, events[n])
  <2> DEFINE st == [x \in (1..N) \X S |-> Extended(x[2], events[x[1]])]
  <2>1. st \in [(1..N) \X S -> S]
    OBVIOUS
  <2>2. \A n \in 1..N, s \in S : st[<<n, s>>] = Extended(s, events[n])
    OBVIOUS
  <2> HIDE DEF st
  <2> QED BY <2>1, <2>2
<1>1. PICK f \in [0..N -> S] : f[0] = <<>> /\ \A n \in 1..N : f[n] = step[<<n, f[n-1]>>]
  <2>1. Iterates(N, S, <<>>, step) # {}
    BY Recursion
  <2> QED BY <2>1 DEF Iterates
<1>2. ASSUME NEW n \in 1..N PROVE f[n] = Extended(f[n-1], events[n])
  <2>1. f[n-1] \in S
    <3>1. n - 1 \in 0..N
      OBVIOUS
    <3> QED BY <3>1
  <2>2. step[<<n, f[n-1]>>] = Extended(f[n-1], events[n])
    BY <2>1, <1>0
  <2> QED BY <1>1, <2>2
<1>3. f = Body(f)
  <2>1. \A n \in 0..N : f[n] = IF n = 0 THEN <<>> ELSE Extended(f[n - 1], events[n])
    BY <1>1, <1>2
  <2> QED BY <2>1
<1> DEFINE sig == CHOOSE g : g = Body(g)
<1>4. sig = Body(sig)
  <2> HIDE DEF Body
  <2> QED BY <1>3
<1>5. Signature(events) = sig[N]
  BY DEF Signature
<1>6. sig[0] = <<>>
  <2> HIDE DEF sig
  <2> QED BY <1>4
<1>7. \A n \in 1..N : sig[n] = Extended(sig[n-1], events[n])
  <2> HIDE DEF sig
  <2> QED BY <1>4
<1>8. sig \in [0..N -> S]
  <2> DEFINE T == {n \in 0..N : sig[n] \in S}
  <2> HIDE DEF sig
  <2>1. 0 \in T
    BY <1>6
  <2>2. ASSUME NEW n \in 1..N, n - 1 \in T PROVE n \in T
    BY <1>7, <2>2
  <2>3. 0..N \subseteq T
    <3> HIDE DEF T
    <3> QED BY <2>1, <2>2, InductionUpTo
  <2>4. sig = [n \in 0..N |-> sig[n]]
    BY <1>4
  <2> QED BY <2>3, <2>4
<1> HIDE DEF sig
<1> QED BY <1>5, <1>6, <1>7, <1>8

Says(events) == \A n \in 1..Len(events) : Key(events[n]) \in Speech

(* A signature is that of all events but the last, extended by the last.   *)
LEMMA SignatureIs ==
    ASSUME NEW X, NEW events \in Seq(X), Says(events)
    PROVE  \E sig \in [0..Len(events) -> Seq(Speech)] :
            /\ sig[0] = <<>>
            /\ \A n \in 1..Len(events) : sig[n] = Extended(sig[n-1], events[n])
            /\ Signature(events) = sig[Len(events)]
<1> DEFINE N == Len(events)
           S == Seq(Speech)
<1>1. N \in Nat
  OBVIOUS
<1>2. \A n \in 1..N, s \in S : Extended(s, events[n]) \in S
  BY ExtendedType DEF Says
<1>3. <<>> \in S
  OBVIOUS
<1>4. \E sig \in [0..N -> S] :
            /\ sig[0] = <<>>
            /\ \A n \in 1..N : sig[n] = Extended(sig[n-1], events[n])
            /\ Signature(events) = sig[N]
  <2>1. N = Len(events)
    OBVIOUS
  <2> HIDE DEF N, S
  <2> QED BY <1>1, <1>2, <1>3, <2>1, SignatureDef, SMTT(30)
<1> QED BY <1>4

LEMMA SignatureOfNone ==
    ASSUME NEW X PROVE Signature(<<>>) = <<>>
<1> DEFINE e == <<>>
<1>1. e \in Seq(X) /\ Says(e) /\ Len(e) = 0
  BY DEF Says
<1> HIDE DEF e
<1>2. Signature(e) = <<>>
  BY <1>1, SignatureIs
<1> QED BY <1>2 DEF e

LEMMA SignatureOfMore ==
    ASSUME NEW X, NEW events \in Seq(X), Says(events), NEW e \in X, Key(e) \in Speech
    PROVE  /\ Signature(Append(events, e)) = Extended(Signature(events), e)
           /\ Signature(events) \in Seq(Speech)
<1> DEFINE more == Append(events, e)
           N == Len(events)
<1>1. /\ more \in Seq(X) /\ N \in Nat /\ Len(more) = N + 1
      /\ more[N + 1] = e /\ \A n \in 1..N : more[n] = events[n]
  OBVIOUS
<1>2. Says(more)
  BY <1>1 DEF Says
<1>3. PICK f \in [0..N -> Seq(Speech)] :
            /\ f[0] = <<>>
            /\ \A n \in 1..N : f[n] = Extended(f[n-1], events[n])
            /\ Signature(events) = f[N]
  BY SignatureIs
<1> HIDE DEF more
<1>4. PICK g \in [0..(N + 1) -> Seq(Speech)] :
            /\ g[0] = <<>>
            /\ \A n \in 1..(N + 1) : g[n] = Extended(g[n-1], more[n])
            /\ Signature(more) = g[N + 1]
  BY <1>1, <1>2, SignatureIs
<1> DEFINE T == {n \in 0..N : f[n] = g[n]}
<1>5. 0 \in T
  BY <1>1, <1>3, <1>4
<1>6. ASSUME NEW n \in 1..N, n - 1 \in T PROVE n \in T
  <2>1. f[n - 1] = g[n - 1]
    BY <1>6
  <2>2. f[n] = Extended(f[n-1], events[n])
    BY <1>3
  <2>3. g[n] = Extended(g[n-1], events[n])
    BY <1>1, <1>4
  <2> QED BY <2>1, <2>2, <2>3
<1>7. f[N] = g[N]
  <2>1. 0..N \subseteq T
    <3> HIDE DEF T
    <3> QED BY <1>1, <1>5, <1>6, InductionUpTo
  <2>2. N \in T
    BY <1>1, <2>1
  <2> QED BY <2>2
<1>8. g[N + 1] = Extended(g[N], e)
  BY <1>1, <1>4
<1> QED BY <1>1, <1>3, <1>4, <1>7, <1>8 DEF more

(* The signature of a part of a sequence.                                  *)
LEMMA SignatureOfPart ==
    ASSUME NEW X, NEW s \in Seq(X), Says(s), NEW a \in 1..(Len(s) + 1), NEW b \in (a - 1)..Len(s)
    PROVE  /\ Signature(SubSeq(s, a, b)) \in Seq(Speech)
           /\ b = a - 1 => Signature(SubSeq(s, a, b)) = <<>>
           /\ b >= a => Signature(SubSeq(s, a, b)) = Extended(Signature(SubSeq(s, a, b - 1)), s[b])
<1>1. CASE b = a - 1
  <2>1. SubSeq(s, a, b) = <<>>
    BY <1>1
  <2>2. <<>> \in Seq(Speech)
    OBVIOUS
  <2>3. Signature(<<>>) = <<>>
    BY SignatureOfNone
  <2>4. ~(b >= a)
    BY <1>1
  <2> QED BY <1>1, <2>1, <2>2, <2>3, <2>4
<1>2. CASE b >= a
  <2> DEFINE p == SubSeq(s, a, b - 1)
  <2>1. p \in Seq(X) /\ Len(p) = b - a /\ \A n \in 1..(b - a) : p[n] = s[a + n - 1]
    BY <1>2
  <2>2. s[b] \in X /\ Key(s[b]) \in Speech
    BY <1>2 DEF Says
  <2>3. Says(p)
    <3>1. ASSUME NEW n \in 1..(b - a) PROVE a + n - 1 \in 1..Len(s)
      BY <1>2
    <3> HIDE DEF p
    <3> QED BY <2>1, <3>1 DEF Says
  <2>4. SubSeq(s, a, b) = Append(p, s[b])
    BY <1>2
  <2> HIDE DEF p
  <2>5. Signature(SubSeq(s, a, b)) = Extended(Signature(p), s[b]) /\ Signature(p) \in Seq(Speech)
    BY <2>1, <2>2, <2>3, <2>4, SignatureOfMore
  <2>6. Signature(SubSeq(s, a, b)) \in Seq(Speech)
    BY <2>2, <2>5, ExtendedType
  <2> QED BY <1>2, <2>5, <2>6 DEF p
<1> QED BY <1>1, <1>2

(***************************************************************************)
(* What covers what.                                                       *)
(***************************************************************************)
LEMMA CoversItself ==
    ASSUME NEW s \in Seq(Speech), s # <<>>
    PROVE  Covers(s, s)
<1>1. Len(s) \in Nat /\ DOMAIN s = 1..Len(s)
  OBVIOUS
<1>2. ASSUME NEW i \in 1..Len(s) PROVE IsPrefix(s[i].text, s[i].text)
  <2>1. s[i].text \in Seq(Words)
    <3>1. s[i] \in Speech
      OBVIOUS
    <3> QED BY <3>1, SpeechIs
  <2> QED BY <2>1, IsPrefixIs
<1> QED BY <1>1, <1>2 DEF Covers

(* What covers goes on to cover when it is extended.                       *)
LEMMA CoversMore ==
    ASSUME NEW s \in Seq(Speech), NEW t \in Seq(Speech), Covers(s, t),
           NEW e, Key(e) \in Speech
    PROVE  Covers(Extended(s, e), t)
<1> DEFINE x == Extended(s, e)
<1>0. /\ t # <<>> /\ Len(t) <= Len(s) /\ Len(t) \in Nat /\ Len(s) \in Nat /\ Len(t) >= 1
      /\ DOMAIN t = 1..Len(t)
  BY DEF Covers
<1>1. CASE s # <<>> /\ s[Len(s)].type = "text" /\ e.type = "text"
  <2>1. /\ x \in Seq(Speech) /\ Len(x) = Len(s)
        /\ \A i \in 1..(Len(s) - 1) : x[i] = s[i]
        /\ x[Len(s)] = [type |-> "text", text |-> s[Len(s)].text \o e.text]
    BY <1>1, ExtendedJoins
  <2> HIDE DEF x
  <2>2. ASSUME NEW i \in 1..Len(t)
        PROVE  /\ t[i].type = x[i].type
               /\ IF t[i].type = "text" THEN IsPrefix(t[i].text, x[i].text)
                  ELSE t[i].text = x[i].text
    <3>1. i \in 1..Len(s)
      BY <1>0
    <3>2. /\ t[i].type = s[i].type
          /\ IF t[i].type = "text" THEN IsPrefix(t[i].text, s[i].text)
             ELSE t[i].text = s[i].text
      BY <1>0 DEF Covers
    <3>3. CASE i < Len(s)
      <4>1. x[i] = s[i]
        BY <2>1, <3>1, <3>3
      <4> QED BY <3>2, <4>1
    <3>4. CASE i = Len(s)
      <4>1. x[i].type = "text" /\ x[i].text = s[i].text \o e.text /\ t[i].type = "text"
        <5>1. x[i] = [type |-> "text", text |-> s[i].text \o e.text]
          BY <2>1, <3>4
        <5>2. s[i].type = "text"
          BY <1>1, <3>4
        <5>3. x[i].type = "text"
          BY <5>1
        <5>4. x[i].text = s[i].text \o e.text
          <6> DEFINE z == s[i].text \o e.text
          <6>1. x[i] = [type |-> "text", text |-> z]
            BY <5>1
          <6> HIDE DEF z
          <6>2. x[i].text = z
            BY <6>1
          <6> QED BY <6>2 DEF z
        <5> QED BY <5>2, <5>3, <5>4, <3>2
      <4>2. t[i].text \in Seq(Words) /\ s[i].text \in Seq(Words)
        <5>1. t[i] \in Speech /\ s[i] \in Speech
          BY <3>1
        <5> QED BY <5>1, SpeechIs
      <4>3. e.text \in Seq(Words)
        BY DEF Key, Speech
      <4>4. IsPrefix(t[i].text, s[i].text)
        BY <3>2, <4>1
      <4>5. Len(t[i].text) <= Len(s[i].text)
            /\ \A k \in 1..Len(t[i].text) : t[i].text[k] = s[i].text[k]
        BY <4>2, <4>4, IsPrefixIs
      <4> DEFINE p == t[i].text
                 q == s[i].text
                 r == e.text
      <4>6. IsPrefix(p, q \o r)
        <5>1. p \in Seq(Words) /\ q \in Seq(Words) /\ r \in Seq(Words)
              /\ Len(p) <= Len(q) /\ \A k \in 1..Len(p) : p[k] = q[k]
          BY <4>2, <4>3, <4>5
        <5> HIDE DEF p, q, r
        <5>2. q \o r \in Seq(Words) /\ Len(q \o r) = Len(q) + Len(r)
              /\ \A k \in 1..Len(q) : (q \o r)[k] = q[k]
          BY <5>1
        <5>3. Len(p) <= Len(q \o r) /\ \A k \in 1..Len(p) : p[k] = (q \o r)[k]
          BY <5>1, <5>2
        <5> QED BY <5>1, <5>2, <5>3, IsPrefixIs
      <4> QED BY <4>1, <4>6
    <3> QED BY <3>1, <3>3, <3>4
  <2>3. Len(t) <= Len(x)
    BY <1>0, <2>1
  <2>4. Covers(x, t)
    BY <1>0, <2>2, <2>3 DEF Covers
  <2> QED BY <2>4 DEF x
<1>2. CASE ~(s # <<>> /\ s[Len(s)].type = "text" /\ e.type = "text")
  <2>1. /\ x \in Seq(Speech) /\ Len(x) = Len(s) + 1
        /\ \A i \in 1..Len(s) : x[i] = s[i]
    BY <1>2, ExtendedAdds
  <2> HIDE DEF x
  <2>2. \A i \in 1..Len(t) : x[i] = s[i]
    BY <1>0, <2>1
  <2>3. Len(t) <= Len(x)
    BY <1>0, <2>1
  <2>4. \A i \in 1..Len(t) : /\ t[i].type = s[i].type
                            /\ IF t[i].type = "text" THEN IsPrefix(t[i].text, s[i].text)
                               ELSE t[i].text = s[i].text
    BY <1>0 DEF Covers
  <2>5. \A i \in 1..Len(t) : /\ t[i].type = x[i].type
                            /\ IF t[i].type = "text" THEN IsPrefix(t[i].text, x[i].text)
                               ELSE t[i].text = x[i].text
    BY <2>2, <2>4
  <2>6. Covers(x, t)
    BY <1>0, <2>3, <2>5 DEF Covers
  <2> QED BY <2>6 DEF x
<1> QED BY <1>1, <1>2

(* A signature that is longer covers no less than the shorter one, and is  *)
(* not covered by it.                                                      *)
Longer(s, t) ==
    \/ Len(s) > Len(t)
    \/ /\ Len(s) = Len(t) /\ Len(t) > 0
       /\ s[Len(t)].type = "text" /\ t[Len(t)].type = "text"
       /\ Len(s[Len(t)].text) > Len(t[Len(t)].text)

LEMMA ExtendedIsLonger ==
    ASSUME NEW s \in Seq(Speech), NEW e, Key(e) \in Speech, e.text # <<>> \/ e.type # "text"
    PROVE  Longer(Extended(s, e), s)
<1>0. Len(s) \in Nat
  OBVIOUS
<1>1. CASE s # <<>> /\ s[Len(s)].type = "text" /\ e.type = "text"
  <2>1. /\ Len(Extended(s, e)) = Len(s)
        /\ Extended(s, e)[Len(s)] = [type |-> "text", text |-> s[Len(s)].text \o e.text]
    BY <1>1, ExtendedJoins
  <2>2. Len(s) \in 1..Len(s)
    BY <1>1
  <2>3. s[Len(s)].text \in Seq(Words)
    <3>1. s[Len(s)] \in Speech
      BY <2>2
    <3> QED BY <3>1, SpeechIs
  <2>4. e.text \in Seq(Words)
    BY DEF Key, Speech
  <2>5. Len(s[Len(s)].text \o e.text) > Len(s[Len(s)].text)
    <3> DEFINE q == s[Len(s)].text
               r == e.text
    <3>1. q \in Seq(Words) /\ r \in Seq(Words) /\ r # <<>>
      BY <1>1, <2>3, <2>4
    <3> HIDE DEF q, r
    <3>2. Len(q \o r) > Len(q)
      BY <3>1
    <3> QED BY <3>2 DEF q, r
  <2>6. Extended(s, e)[Len(s)].type = "text" /\ Extended(s, e)[Len(s)].text = s[Len(s)].text \o e.text
    <3> DEFINE z == s[Len(s)].text \o e.text
    <3> HIDE DEF z
    <3>1. Extended(s, e)[Len(s)] = [type |-> "text", text |-> z]
      BY <2>1 DEF z
    <3>2. Extended(s, e)[Len(s)].type = "text" /\ Extended(s, e)[Len(s)].text = z
      BY <3>1
    <3> QED BY <3>2 DEF z
  <2>7. Len(s) > 0
    BY <1>0, <2>2
  <2> QED BY <1>1, <2>1, <2>5, <2>6, <2>7 DEF Longer
<1>2. CASE ~(s # <<>> /\ s[Len(s)].type = "text" /\ e.type = "text")
  BY <1>0, <1>2, ExtendedAdds DEF Longer
<1> QED BY <1>1, <1>2

LEMMA LongerIsTransitive ==
    ASSUME NEW s \in Seq(Speech), NEW t \in Seq(Speech), NEW u \in Seq(Speech),
           Longer(s, t), Longer(t, u)
    PROVE  Longer(s, u)
<1>1. Len(s) \in Nat /\ Len(t) \in Nat /\ Len(u) \in Nat
  OBVIOUS
<1>2. CASE Len(s) = Len(t) /\ Len(t) = Len(u)
  <2> DEFINE n == Len(u)
  <2>1. /\ n > 0 /\ s[n].type = "text" /\ t[n].type = "text" /\ u[n].type = "text"
        /\ Len(s[n].text) > Len(t[n].text) /\ Len(t[n].text) > Len(u[n].text)
    BY <1>1, <1>2 DEF Longer
  <2>2. Len(s[n].text) \in Nat /\ Len(t[n].text) \in Nat /\ Len(u[n].text) \in Nat
    <3>1. n \in 1..Len(s) /\ n \in 1..Len(t) /\ n \in 1..Len(u)
      BY <1>1, <1>2, <2>1
    <3>2. s[n] \in Speech /\ t[n] \in Speech /\ u[n] \in Speech
      BY <3>1
    <3>3. s[n].text \in Seq(Words) /\ t[n].text \in Seq(Words) /\ u[n].text \in Seq(Words)
      <4> HIDE DEF n
      <4> QED BY <3>2 DEF Speech
    <3> HIDE DEF n
    <3> QED BY <3>3, SMTT(30)
  <2>3. Len(s[n].text) > Len(u[n].text)
    <3> DEFINE p == Len(s[n].text)
               q == Len(t[n].text)
               r == Len(u[n].text)
    <3>1. p \in Nat /\ q \in Nat /\ r \in Nat /\ p > q /\ q > r
      BY <2>1, <2>2
    <3>2. p > r
      <4> HIDE DEF p, q, r
      <4> QED BY <3>1
    <3> QED BY <3>2
  <2> QED BY <1>2, <2>1, <2>3 DEF Longer
<1>3. CASE Len(s) > Len(t) \/ Len(t) > Len(u)
  BY <1>1, <1>3 DEF Longer
<1> QED BY <1>1, <1>2, <1>3 DEF Longer

LEMMA CoveredIsNotLonger ==
    ASSUME NEW s \in Seq(Speech), NEW t \in Seq(Speech), Covers(s, t)
    PROVE  ~Longer(t, s)
<1>1. Len(s) \in Nat /\ Len(t) \in Nat /\ Len(t) <= Len(s) /\ DOMAIN t = 1..Len(t)
  BY DEF Covers
<1>2. SUFFICES ASSUME /\ Len(s) = Len(t) /\ Len(s) > 0
                      /\ t[Len(s)].type = "text" /\ s[Len(s)].type = "text"
                      /\ Len(t[Len(s)].text) > Len(s[Len(s)].text)
               PROVE  FALSE
  BY <1>1 DEF Longer
<1> DEFINE n == Len(s)
<1>3. n \in 1..Len(t) /\ n \in 1..Len(s)
  BY <1>1, <1>2
<1>4. IsPrefix(t[n].text, s[n].text)
  BY <1>1, <1>2, <1>3 DEF Covers
<1>5. s[n] \in Speech /\ t[n] \in Speech
  BY <1>3
<1>6. s[n].text \in Seq(Words) /\ t[n].text \in Seq(Words)
  <2> HIDE DEF n
  <2> QED BY <1>5 DEF Speech
<1>7. Len(t[n].text) <= Len(s[n].text) /\ Len(t[n].text) \in Nat /\ Len(s[n].text) \in Nat
  <2> HIDE DEF n
  <2> QED BY <1>4, <1>6, IsPrefixIs
<1> QED BY <1>2, <1>7

(* What covers begins alike.                                               *)
LEMMA CoversFirst ==
    ASSUME NEW s \in Seq(Speech), NEW t \in Seq(Speech), Covers(s, t)
    PROVE  /\ s # <<>> /\ t # <<>>
           /\ s[1].type = t[1].type
           /\ t[1].type # "text" => s[1] = t[1]
<1>1. 1 \in 1..Len(t) /\ 1 \in 1..Len(s) /\ DOMAIN t = 1..Len(t)
  BY DEF Covers
<1>2. s[1].type = t[1].type /\ (t[1].type # "text" => s[1].text = t[1].text)
  BY <1>1 DEF Covers
<1>3. s[1] \in Speech /\ t[1] \in Speech
  BY <1>1
<1>4. t[1].type # "text" => s[1] = t[1]
  <2>1. s[1] = [type |-> s[1].type, text |-> s[1].text] /\ t[1] = [type |-> t[1].type, text |-> t[1].text]
    BY <1>3, SpeechIs
  <2> QED BY <1>2, <2>1
<1> QED BY <1>1, <1>2, <1>4

(***************************************************************************)
(* The conversation, and the signatures of its parts.                      *)
(***************************************************************************)
(* What is told is typed, and a text is one piece.                         *)
ToldTyped ==
    /\ told \in Seq(Speech)
    /\ \A n \in 1..Len(told) : told[n].type = "text" => \E w \in Words : told[n].text = <<w>>

(* The conversation begins with its session, and every turn with a prompt. *)
Turns ==
    \A n \in 1..Len(told) :
       /\ told[n].type = "session_initialized" <=> n = 1
       /\ told[n].type = "user_prompt" <=> n = 2 \/ (n > 1 /\ BetweenTurns(n - 1))

(* What the conversation says from a to b.                                 *)
Account(a, b) == Signature(SubSeq(told, a, b))

LEMMA AccountIs ==
    ASSUME ToldTyped, NEW a \in 1..(Len(told) + 1), NEW b \in (a - 1)..Len(told)
    PROVE  /\ Account(a, b) \in Seq(Speech)
           /\ b = a - 1 => Account(a, b) = <<>>
           /\ b >= a => Account(a, b) = Extended(Account(a, b - 1), told[b])
<1>1. told \in Seq(Speech) /\ Says(told)
  BY KeyOfSpeech DEF ToldTyped, Says
<1> QED BY <1>1, SignatureOfPart DEF Account

(* A longer part of the conversation, from the same beginning, covers a    *)
(* shorter one.                                                            *)
LEMMA AccountGrows ==
    ASSUME ToldTyped, NEW a \in 1..(Len(told) + 1), NEW c \in (a - 1)..Len(told),
           NEW b \in (a - 1)..Len(told), c <= b
    PROVE  /\ c >= a => Covers(Account(a, b), Account(a, c))
           /\ c < b => Longer(Account(a, b), Account(a, c))
<1> DEFINE P(m) == /\ c >= a => Covers(Account(a, c + m), Account(a, c))
                   /\ 0 < m => Longer(Account(a, c + m), Account(a, c))
           T == {m \in 0..(b - c) : P(m)}
<1>1. Len(told) \in Nat /\ b - c \in Nat /\ a \in Int /\ c \in Int /\ b \in Int /\ c >= a - 1
  BY DEF ToldTyped
<1>2. Account(a, c) \in Seq(Speech)
  BY AccountIs
<1>3. 0 \in T
  <2>1. CASE c >= a
    <3>1. Account(a, c) = Extended(Account(a, c - 1), told[c])
      BY <2>1, AccountIs
    <3>2. Account(a, c - 1) \in Seq(Speech)
      <4>1. c - 1 \in (a - 1)..Len(told)
        BY <1>1, <2>1
      <4> QED BY <4>1, AccountIs
    <3>3. Key(told[c]) \in Speech
      <4>1. told[c] \in Speech
        BY <1>1, <2>1 DEF ToldTyped
      <4> QED BY <4>1, KeyOfSpeech
    <3>4. Account(a, c) # <<>>
      BY <3>1, <3>2, <3>3, ExtendedType
    <3>5. Covers(Account(a, c), Account(a, c))
      BY <1>2, <3>4, CoversItself
    <3> QED BY <1>1, <3>5
  <2>2. CASE ~(c >= a)
    BY <1>1, <2>2
  <2> QED BY <2>1, <2>2
<1>4. ASSUME NEW m \in 1..(b - c), m - 1 \in T PROVE m \in T
  <2> DEFINE x == Account(a, c + (m - 1))
             y == Account(a, c + m)
  <2>1. x \in Seq(Speech)
    <3>1. c + (m - 1) \in (a - 1)..Len(told)
      BY <1>1
    <3> QED BY <3>1, AccountIs
  <2>2. y = Extended(x, told[c + m]) /\ y \in Seq(Speech)
    <3>1. c + m \in (a - 1)..Len(told) /\ c + m >= a /\ (c + m) - 1 = c + (m - 1)
      BY <1>1
    <3> QED BY <3>1, AccountIs
  <2>3. told[c + m] \in Speech /\ (told[c + m].type = "text" => \E w \in Words : told[c + m].text = <<w>>)
    <3>1. c + m \in 1..Len(told)
      BY <1>1
    <3> QED BY <3>1 DEF ToldTyped
  <2>4. Key(told[c + m]) \in Speech
    BY <2>3, KeyOfSpeech
  <2>5. told[c + m].text # <<>> \/ told[c + m].type # "text"
    <3>1. \A w \in Words : <<w>> # <<>>
      OBVIOUS
    <3> QED BY <2>3, <3>1
  <2>6. Longer(y, x)
    <3> HIDE DEF x, y
    <3> QED BY <2>1, <2>2, <2>4, <2>5, ExtendedIsLonger
  <2>7. P(m - 1)
    BY <1>4
  <2>8. c >= a => Covers(y, Account(a, c))
    <3>1. c >= a => Covers(x, Account(a, c))
      BY <2>7
    <3> HIDE DEF x, y
    <3> QED BY <1>2, <2>1, <2>2, <2>4, <3>1, CoversMore
  <2>9. Longer(y, Account(a, c))
    <3>1. CASE m - 1 = 0
      <4>1. x = Account(a, c)
        BY <1>1, <3>1
      <4> QED BY <2>6, <4>1
    <3>2. CASE m - 1 # 0
      <4>1. Longer(x, Account(a, c))
        BY <2>7, <3>2
      <4> HIDE DEF x, y
      <4> QED BY <1>2, <2>1, <2>2, <2>6, <4>1, LongerIsTransitive
    <3> QED BY <3>1, <3>2
  <2> QED BY <2>8, <2>9
<1>5. b - c \in T
  <2>1. 0..(b - c) \subseteq T
    <3> DEFINE N == b - c
    <3>1. N \in Nat
      BY <1>1
    <3>2. \A m \in 1..N : m - 1 \in T => m \in T
      BY <1>4
    <3>3. 0..N \subseteq T
      <4> HIDE DEF N, T
      <4> QED BY <1>3, <3>1, <3>2, InductionUpTo
    <3> QED BY <3>3
  <2>2. b - c \in 0..(b - c)
    BY <1>1
  <2> HIDE DEF T
  <2> QED BY <2>1, <2>2
<1>6. P(b - c)
  BY <1>5
<1>7. c + (b - c) = b /\ (c < b => 0 < b - c)
  BY <1>1
<1> QED BY <1>6, <1>7

(* What covers is not shorter.                                             *)
LEMMA AccountCovers ==
    ASSUME ToldTyped, NEW a \in 1..(Len(told) + 1), NEW c \in (a - 1)..Len(told),
           NEW b \in (a - 1)..Len(told), Covers(Account(a, b), Account(a, c))
    PROVE  c <= b
<1> SUFFICES ASSUME ~(c <= b) PROVE FALSE
  OBVIOUS
<1>1. b <= c /\ b < c
  BY DEF ToldTyped
<1>2. Longer(Account(a, c), Account(a, b))
  BY <1>1, AccountGrows
<1>3. Account(a, b) \in Seq(Speech) /\ Account(a, c) \in Seq(Speech)
  BY AccountIs
<1> QED BY <1>2, <1>3, CoveredIsNotLonger

LEMMA AccountBegins ==
    ASSUME ToldTyped, NEW a \in 1..Len(told), NEW b \in a..Len(told)
    PROVE  /\ Account(a, b) \in Seq(Speech) /\ Account(a, b) # <<>>
           /\ Account(a, b)[1].type = told[a].type
           /\ told[a].type # "text" => Account(a, b)[1] = told[a]
<1>1. Len(told) \in Nat /\ a \in 1..(Len(told) + 1) /\ a \in (a - 1)..Len(told) /\ b \in (a - 1)..Len(told)
      /\ a - 1 \in (a - 1)..Len(told) /\ a <= b
  BY DEF ToldTyped
<1>2. Account(a, a) = Extended(<<>>, told[a])
  BY <1>1, AccountIs, SMTT(30)
<1>3. told[a] \in Speech /\ Key(told[a]) = told[a]
  BY KeyOfSpeech DEF ToldTyped
<1>4. Account(a, a)[1] = told[a]
  <2> DEFINE s == <<>>
  <2>1. s \in Seq(Speech) /\ Len(s) = 0 /\ ~(s # <<>>)
    OBVIOUS
  <2> HIDE DEF s
  <2>2. Extended(s, told[a])[Len(s) + 1] = Key(told[a])
    BY <1>3, <2>1, ExtendedAdds
  <2>3. Extended(s, told[a])[1] = told[a]
    BY <1>3, <2>1, <2>2
  <2> QED BY <1>2, <2>3 DEF s
<1>5. Covers(Account(a, b), Account(a, a))
  BY <1>1, AccountGrows
<1>6. Account(a, b) \in Seq(Speech) /\ Account(a, a) \in Seq(Speech)
  BY <1>1, AccountIs
<1> QED BY <1>4, <1>5, <1>6, CoversFirst

(* If nothing is repeated, two pieces that say the same are one, unless    *)
(* turns end with them.                                                    *)
LEMMA SamePiece ==
    ASSUME ToldTyped, NothingRepeated, NEW a \in 1..Len(told), NEW b \in 1..Len(told),
           told[a].type = told[b].type, told[a].text = told[b].text, told[a].type # "done"
    PROVE  a = b
<1>1. told[a] \in Speech /\ told[b] \in Speech /\ DOMAIN told = 1..Len(told)
  BY DEF ToldTyped
<1>2. told[a] = told[b]
  <2>1. told[a] = [type |-> told[a].type, text |-> told[a].text]
        /\ told[b] = [type |-> told[b].type, text |-> told[b].text]
    BY <1>1, SpeechIs
  <2> QED BY <2>1
<1> QED BY <1>1, <1>2 DEF NothingRepeated

(***************************************************************************)
(* Events that tell of the conversation.                                   *)
(***************************************************************************)
LEMMA StandsForIs ==
    ASSUME ToldTyped, NEW e \in Events, StandsFor(e)
    PROVE  /\ e.from \in Nat /\ e.to \in Nat /\ 1 <= e.from /\ e.from <= e.to /\ e.to <= Len(told)
           /\ Len(told) \in Nat
           /\ \A n \in e.from..e.to : told[n].type = e.type
           /\ told[e.from].type = e.type /\ told[e.to].type = e.type
           /\ e.type # "text" => e.from = e.to
<1>1. e.from \in 1..e.to /\ e.to <= Len(told) /\ \A n \in e.from..e.to : told[n].type = e.type
  BY DEF StandsFor
<1>2. e.from \in Nat /\ e.to \in Nat /\ Len(told) \in Nat
  BY EventIs DEF ToldTyped
<1>3. e.from \in e.from..e.to /\ e.to \in e.from..e.to
  BY <1>1, <1>2
<1>4. e.type # "text" => e.from = e.to
  BY DEF StandsFor
<1> QED BY <1>1, <1>2, <1>3, <1>4

(* An event that stands for one piece says what it says.                   *)
LEMMA TextOfPiece ==
    ASSUME ToldTyped, NEW e \in Events, StandsFor(e), e.from = e.to
    PROVE  /\ e.to \in 1..Len(told) /\ told[e.to].type = e.type /\ told[e.to].text = e.text
<1>1. /\ e.from \in Nat /\ e.to \in Nat /\ e.to \in 1..Len(told) /\ told[e.to].type = e.type
  <2>1. /\ e.from \in Nat /\ e.to \in Nat /\ 1 <= e.from /\ e.from <= e.to /\ e.to <= Len(told)
        /\ Len(told) \in Nat /\ told[e.to].type = e.type
    BY StandsForIs
  <2> QED BY <2>1
<1>2. CASE e.type # "text"
  <2>1. told[e.to].text = e.text
    BY <1>2 DEF StandsFor
  <2> QED BY <1>1, <2>1
<1>3. CASE e.type = "text"
  <2>1. e.text = [k \in 1..(e.to - e.from + 1) |-> told[e.from + k - 1].text[1]]
    BY <1>3 DEF StandsFor
  <2>2. e.to - e.from + 1 = 1 /\ e.from + 1 - 1 = e.to /\ 1 \in 1..1
    BY <1>1
  <2>3. e.text \in Seq(Words) /\ DOMAIN e.text = 1..1 /\ e.text[1] = told[e.to].text[1]
    <3>1. e.text \in Seq(Words)
      BY EventIs
    <3> QED BY <2>1, <2>2, <3>1
  <2>4. PICK v \in Words : told[e.to].text = <<v>>
    BY <1>1, <1>3 DEF ToldTyped
  <2>5. e.text = <<v>>
    <3> DEFINE L == Len(e.text)
    <3>0. L \in Nat /\ 1..L = 1..1
      <4>1. L \in Nat /\ DOMAIN e.text = 1..L
        <5> DEFINE t == e.text
        <5>1. t \in Seq(Words)
          BY <2>3
        <5> HIDE DEF t
        <5>2. Len(t) \in Nat /\ DOMAIN t = 1..Len(t)
          BY <5>1
        <5> QED BY <5>2 DEF t
      <4> HIDE DEF L
      <4> QED BY <2>3, <4>1
    <3>1. L = 1
      <4>1. 1 \in 1..L
        BY <3>0
      <4>2. L \in 1..L
        <5> HIDE DEF L
        <5> QED BY <3>0, <4>1
      <4> HIDE DEF L
      <4> QED BY <3>0, <4>2
    <3>2. <<v>> \in Seq(Words) /\ Len(<<v>>) = 1 /\ <<v>>[1] = v
      OBVIOUS
    <3>3. \A k \in 1..Len(e.text) : e.text[k] = <<v>>[k]
      BY <2>3, <2>4, <3>1
    <3> QED BY <2>3, <3>1, <3>2, <3>3, SameSequence
  <2> QED BY <1>1, <2>4, <2>5
<1> QED BY <1>2, <1>3

(* Where the events end: at i - 1 before the first, at j after the last,   *)
(* later and later.                                                        *)
Ends(events, i, j, end) ==
    /\ end \in [0..Len(events) -> Nat]
    /\ end[0] = i - 1 /\ end[Len(events)] = j
    /\ \A k \in 1..Len(events) :
          /\ StandsFor(events[k])
          /\ events[k].from = end[k - 1] + 1 /\ events[k].to = end[k]
          /\ end[k - 1] < end[k]

LEMMA TellsEnds ==
    ASSUME NEW events \in Seq(Events), NEW i \in Nat \ {0}, NEW j \in Nat, Tells(events, i, j)
    PROVE  \E end : Ends(events, i, j, end)
<1> DEFINE end == [k \in 0..Len(events) |-> IF k = 0 THEN i - 1 ELSE events[k].to]
<1>1. Len(events) \in Nat /\ DOMAIN events = 1..Len(events)
  OBVIOUS
<1>2. \A k \in 1..Len(events) : events[k].from \in Nat /\ events[k].to \in Nat
  <2> SUFFICES ASSUME NEW k \in 1..Len(events) PROVE events[k].from \in Nat /\ events[k].to \in Nat
    OBVIOUS
  <2>1. events[k] \in Events
    OBVIOUS
  <2> QED BY <2>1, EventIs
<1>3. end \in [0..Len(events) -> Nat]
  BY <1>1, <1>2
<1>4. end[0] = i - 1 /\ end[Len(events)] = j
  BY <1>1 DEF Tells
<1>5. ASSUME NEW k \in 1..Len(events)
      PROVE  /\ StandsFor(events[k])
             /\ events[k].from = end[k - 1] + 1 /\ events[k].to = end[k]
             /\ end[k - 1] < end[k]
  <2>0. ~LiveOnly(events[k])
    BY <1>1, EventIs
  <2>1. StandsFor(events[k]) /\ events[k].from = end[k - 1] + 1 /\ events[k].to = end[k]
    <3>1. StandsFor(events[k]) \/ StandsAside(events[k])
      BY <1>1 DEF Tells
    <3>2. StandsFor(events[k])
      BY <2>0, <3>1 DEF StandsAside
    <3>3. end[k] = events[k].to /\ end[k - 1] = IF k - 1 = 0 THEN i - 1 ELSE events[k - 1].to
      BY <1>1
    <3>4. events[k].from = (IF k - 1 = 0 THEN i - 1 ELSE events[k - 1].to) + 1
      BY <1>1 DEF Tells
    <3> HIDE DEF end
    <3> QED  BY <3>2, <3>3, <3>4
  <2>2. events[k].from \in 1..events[k].to
    BY <2>1 DEF StandsFor
  <2>3. end[k - 1] \in Nat /\ end[k] \in Nat
    BY <1>1, <1>3
  <2> HIDE DEF end
  <2>4. end[k - 1] < end[k]
    BY <1>2, <2>1, <2>2, <2>3
  <2> QED BY <2>1, <2>4
<1> HIDE DEF end
<1> QED BY <1>3, <1>4, <1>5 DEF Ends

LEMMA EndsTell ==
    ASSUME NEW events \in Seq(Events), NEW i \in Nat \ {0}, NEW j \in Nat, NEW end,
           Ends(events, i, j, end)
    PROVE  Tells(events, i, j)
<1>1. Len(events) \in Nat /\ DOMAIN events = 1..Len(events)
  OBVIOUS
<1>2. ASSUME NEW k \in 0..Len(events) PROVE end[k] = IF k = 0 THEN i - 1 ELSE events[k].to
  BY <1>1 DEF Ends
<1>3. ASSUME NEW k \in 1..Len(events)
      PROVE  StandsFor(events[k]) /\ events[k].from = (IF k - 1 = 0 THEN i - 1 ELSE events[k - 1].to) + 1
  <2>1. k - 1 \in 0..Len(events)
    OBVIOUS
  <2> QED BY <1>2, <2>1 DEF Ends
<1>4. (IF Len(events) = 0 THEN i - 1 ELSE events[Len(events)].to) = j
  <2>1. Len(events) \in 0..Len(events)
    BY <1>1
  <2> QED BY <1>2, <2>1 DEF Ends
<1> QED BY <1>1, <1>3, <1>4 DEF Tells

LEMMA EndsGrow ==
    ASSUME NEW events \in Seq(Events), NEW i \in Nat \ {0}, NEW j \in Nat, NEW end,
           Ends(events, i, j, end)
    PROVE  /\ \A k \in 0..Len(events), l \in 0..Len(events) : k < l => end[k] < end[l]
           /\ \A n \in i..j : \E k \in 1..Len(events) : n \in events[k].from..events[k].to
           /\ i - 1 <= j
           /\ j <= Len(told) \/ j = i - 1
<1> DEFINE N == Len(events)
           S == {l \in 0..N : \A k \in 0..N : k < l => end[k] < end[l]}
           U == {l \in 0..N : \A n \in i..end[l] : \E k \in 1..N : n \in events[k].from..events[k].to}
<1>1. N \in Nat
  OBVIOUS
<1>2. /\ \A k \in 0..N : end[k] \in Nat
      /\ \A k \in 1..N : end[k - 1] < end[k]
      /\ \A k \in 1..N : events[k].from = end[k - 1] + 1 /\ events[k].to = end[k]
      /\ end[0] = i - 1 /\ end[N] = j
  BY DEF Ends
<1>3. 0 \in S
  BY <1>1
<1>4. ASSUME NEW l \in 1..N, l - 1 \in S PROVE l \in S
  <2> HIDE DEF N
  <2>1. ASSUME NEW k \in 0..N, k < l PROVE end[k] < end[l]
    <3>1. end[l - 1] < end[l] /\ l - 1 \in 0..N /\ l \in 0..N
      BY <1>1, <1>2
    <3>2. CASE k = l - 1
      BY <3>1, <3>2
    <3>3. CASE k # l - 1
      <4>1. k < l - 1
        BY <1>1, <2>1, <3>3
      <4>2. end[k] < end[l - 1]
        BY <1>4, <4>1
      <4>3. end[k] \in Nat /\ end[l - 1] \in Nat /\ end[l] \in Nat
        BY <1>2, <3>1
      <4> QED BY <3>1, <4>2, <4>3
    <3> QED BY <3>2, <3>3
  <2> QED BY <1>1, <2>1
<1>5. 0..N \subseteq S
  <2> HIDE DEF N, S
  <2> QED BY <1>1, <1>3, <1>4, InductionUpTo
<1>6. 0 \in U
  BY <1>1, <1>2
<1>7. ASSUME NEW l \in 1..N, l - 1 \in U PROVE l \in U
  <2> HIDE DEF N
  <2>1. ASSUME NEW n \in i..end[l] PROVE \E k \in 1..N : n \in events[k].from..events[k].to
    <3>1. l - 1 \in 0..N /\ l \in 0..N /\ end[l - 1] \in Nat /\ end[l] \in Nat
      BY <1>1, <1>2
    <3>2. CASE n <= end[l - 1]
      <4>1. n \in i..end[l - 1]
        BY <3>1, <3>2
      <4> QED BY <1>7, <4>1
    <3>3. CASE ~(n <= end[l - 1])
      <4>1. n \in (end[l - 1] + 1)..end[l]
        BY <3>1, <3>3
      <4>2. n \in events[l].from..events[l].to
        BY <1>2, <4>1
      <4> QED BY <4>2
    <3> QED BY <3>2, <3>3
  <2> QED BY <1>1, <2>1
<1>8. 0..N \subseteq U
  <2> HIDE DEF N, U
  <2> QED BY <1>1, <1>6, <1>7, InductionUpTo
<1>9. N \in 0..N
  BY <1>1
<1>10. \A k \in 0..N, l \in 0..N : k < l => end[k] < end[l]
  BY <1>5
<1>11. \A n \in i..j : \E k \in 1..N : n \in events[k].from..events[k].to
  BY <1>2, <1>8, <1>9
<1>12. i - 1 <= j /\ (j <= Len(told) \/ j = i - 1)
  <2>1. CASE N = 0
    BY <1>2, <2>1
  <2>2. CASE N # 0
    <3>1. 0 < N /\ N \in 1..N /\ 0 \in 0..N
      BY <1>1, <2>2
    <3>2. end[0] < end[N]
      BY <1>9, <1>10, <3>1
    <3>3. StandsFor(events[N]) /\ events[N].to = end[N]
      BY <3>1 DEF Ends
    <3>4. j <= Len(told)
      BY <1>2, <3>3 DEF StandsFor
    <3>5. end[0] \in Nat /\ end[N] \in Nat
      BY <1>2, <1>9, <3>1
    <3> QED BY <1>2, <3>2, <3>4, <3>5
  <2> QED BY <2>1, <2>2
<1> QED BY <1>10, <1>11, <1>12

(* The first of some events tell a part of what they tell, and so do the   *)
(* others.                                                                 *)
LEMMA EndsOfFirst ==
    ASSUME NEW events \in Seq(Events), NEW i \in Nat \ {0}, NEW j \in Nat, NEW end,
           Ends(events, i, j, end), NEW c \in 0..Len(events)
    PROVE  SubSeq(events, 1, c) \in Seq(Events) /\ Tells(SubSeq(events, 1, c), i, end[c])
<1> DEFINE first == SubSeq(events, 1, c)
           e == [k \in 0..c |-> end[k]]
<1>1. first \in Seq(Events) /\ Len(first) = c /\ \A k \in 1..c : first[k] = events[k]
  OBVIOUS
<1>2. Len(events) \in Nat /\ c \in Nat /\ \A k \in 0..c : e[k] = end[k] /\ end[k] \in Nat
  BY DEF Ends
<1>3. e \in [0..c -> Nat]
  BY <1>2
<1> HIDE DEF first, e
<1>4. e[0] = i - 1 /\ e[c] = end[c]
  BY <1>2 DEF Ends
<1>5. ASSUME NEW k \in 1..c
      PROVE  /\ StandsFor(first[k])
             /\ first[k].from = e[k - 1] + 1 /\ first[k].to = e[k]
             /\ e[k - 1] < e[k]
  <2>1. k \in 1..Len(events) /\ k - 1 \in 0..c /\ k \in 0..c
    BY <1>2
  <2> QED BY <1>1, <1>2, <2>1 DEF Ends
<1>6. Ends(first, i, end[c], e)
  BY <1>1, <1>3, <1>4, <1>5 DEF Ends
<1>7. end[c] \in Nat
  BY <1>2
<1>8. Tells(first, i, end[c])
  BY <1>1, <1>6, <1>7, EndsTell
<1> QED BY <1>1, <1>8 DEF first

LEMMA EndsOfRest ==
    ASSUME NEW events \in Seq(Events), NEW i \in Nat \ {0}, NEW j \in Nat, NEW end,
           Ends(events, i, j, end), NEW c \in 0..Len(events)
    PROVE  From(events, c + 1) \in Seq(Events) /\ Tells(From(events, c + 1), end[c] + 1, j)
<1> DEFINE rest == From(events, c + 1)
           n == Len(events) - c
           e == [k \in 0..n |-> end[c + k]]
<1>1. Len(events) \in Nat /\ c \in Nat /\ n \in Nat /\ c + n = Len(events)
  OBVIOUS
<1>2. rest \in Seq(Events) /\ Len(rest) = n /\ \A k \in 1..n : rest[k] = events[c + k]
  <2> DEFINE N == Len(events)
             x == SubSeq(events, c + 1, N)
  <2>1. N \in Nat /\ c \in 0..N /\ rest = x
    BY <1>1 DEF From
  <2>2. x \in Seq(Events) /\ Len(x) = N - c
    BY <2>1
  <2>3. \A k \in 1..(N - c) : x[k] = events[c + k]
    BY <2>1
  <2> QED BY <2>1, <2>2, <2>3
<1> HIDE DEF rest
<1>3. \A k \in 0..n : e[k] = end[c + k] /\ end[c + k] \in Nat
  BY <1>1 DEF Ends
<1>4. e \in [0..n -> Nat]
  BY <1>3
<1> HIDE DEF e
<1>5. e[0] = end[c] /\ e[n] = j /\ end[c] \in Nat
  <2>1. 0 \in 0..n /\ n \in 0..n /\ c + 0 = c
    BY <1>1
  <2> QED BY <1>1, <1>3, <2>1 DEF Ends
<1>6. ASSUME NEW k \in 1..n
      PROVE  /\ StandsFor(rest[k])
             /\ rest[k].from = e[k - 1] + 1 /\ rest[k].to = e[k]
             /\ e[k - 1] < e[k]
  <2>1. c + k \in 1..Len(events) /\ k - 1 \in 0..n /\ k \in 0..n /\ (c + k) - 1 = c + (k - 1)
    BY <1>1
  <2> HIDE DEF n
  <2>2. e[k - 1] = end[(c + k) - 1] /\ e[k] = end[c + k] /\ rest[k] = events[c + k]
    BY <1>2, <1>3, <2>1
  <2> QED BY <2>1, <2>2 DEF Ends
<1>7. Ends(rest, end[c] + 1, j, e)
  <2>1. e[0] = (end[c] + 1) - 1
    BY <1>5
  <2> HIDE DEF n
  <2> QED BY <1>2, <1>4, <1>5, <1>6, <2>1 DEF Ends
<1>8. Tells(rest, end[c] + 1, j)
  BY <1>2, <1>5, <1>7, EndsTell
<1> QED BY <1>2, <1>8 DEF rest

(* Events that tell a part and events that tell the next one tell both     *)
(* together.                                                               *)
LEMMA TellsTogether ==
    ASSUME NEW e \in Seq(Events), NEW f \in Seq(Events), NEW i \in Nat \ {0}, NEW m \in Nat,
           NEW j \in Nat, Tells(e, i, m), Tells(f, m + 1, j)
    PROVE  e \o f \in Seq(Events) /\ Tells(e \o f, i, j)
<1> DEFINE g == e \o f
<1>1. PICK d : Ends(e, i, m, d)
  BY TellsEnds
<1>2. PICK h : Ends(f, m + 1, j, h)
  <2>1. m + 1 \in Nat \ {0}
    OBVIOUS
  <2> QED BY <2>1, TellsEnds
<1> DEFINE a == Len(e)
           b == Len(f)
           x == [k \in 0..(a + b) |-> IF k <= a THEN d[k] ELSE h[k - a]]
<1>3. /\ a \in Nat /\ b \in Nat /\ g \in Seq(Events) /\ Len(g) = a + b
      /\ \A k \in 1..(a + b) : g[k] = IF k <= a THEN e[k] ELSE f[k - a]
  OBVIOUS
<1> HIDE DEF g
<1>4. (\A k \in 0..a : d[k] \in Nat) /\ (\A k \in 0..b : h[k] \in Nat)
  BY <1>1, <1>2 DEF Ends
<1>5. d[0] = i - 1 /\ d[a] = m /\ h[0] = m /\ h[b] = j
  BY <1>1, <1>2 DEF Ends
<1>6. \A k \in 0..(a + b) : x[k] \in Nat
  <2> HIDE DEF a, b
  <2> SUFFICES ASSUME NEW k \in 0..(a + b) PROVE x[k] \in Nat
    OBVIOUS
  <2>1. CASE k <= a
    BY <1>3, <1>4, <2>1
  <2>2. CASE ~(k <= a)
    <3>1. k - a \in 0..b
      BY <1>3, <2>2
    <3> QED BY <1>4, <2>2, <3>1
  <2> QED BY <2>1, <2>2
<1>7. x \in [0..(a + b) -> Nat]
  BY <1>6
<1>8. x[0] = i - 1 /\ x[a + b] = j
  <2> HIDE DEF a, b
  <2>1. 0 \in 0..(a + b) /\ a + b \in 0..(a + b) /\ 0 <= a
    BY <1>3
  <2>2. b = 0 => x[a + b] = d[a]
    BY <1>3, <2>1
  <2>3. b # 0 => x[a + b] = h[b]
    BY <1>3, <2>1
  <2> QED BY <1>3, <1>5, <2>1, <2>2, <2>3
<1>9. ASSUME NEW k \in 1..(a + b)
      PROVE  /\ StandsFor(g[k])
             /\ g[k].from = x[k - 1] + 1 /\ g[k].to = x[k]
             /\ x[k - 1] < x[k]
  <2>0. k - 1 \in 0..(a + b) /\ k \in 0..(a + b)
    BY <1>3
  <2>1. CASE k <= a
    <3>1. k \in 1..a /\ k - 1 <= a
      BY <1>3, <2>1
    <3>2. g[k] = e[k] /\ x[k] = d[k] /\ x[k - 1] = d[k - 1]
      BY <1>3, <2>0, <2>1, <3>1
    <3> HIDE DEF x
    <3> QED BY <1>1, <3>1, <3>2 DEF Ends
  <2>2. CASE ~(k <= a)
    <3>1. k - a \in 1..b /\ (k - a) - 1 = (k - 1) - a
      BY <1>3, <2>2
    <3>2. g[k] = f[k - a] /\ x[k] = h[k - a]
      BY <1>3, <2>0, <2>2
    <3>3. x[k - 1] = h[(k - a) - 1]
      <4>1. CASE k - 1 = a
        BY <1>5, <2>0, <3>1, <4>1
      <4>2. CASE k - 1 # a
        <5>1. ~(k - 1 <= a)
          BY <1>3, <2>2, <4>2
        <5> QED BY <2>0, <3>1, <5>1
      <4> QED BY <4>1, <4>2
    <3> HIDE DEF x
    <3> QED BY <1>2, <3>1, <3>2, <3>3 DEF Ends
  <2> QED BY <2>1, <2>2
<1>10. Ends(g, i, j, x)
  <2> HIDE DEF x, a, b
  <2> QED BY <1>3, <1>7, <1>8, <1>9 DEF Ends
<1>11. Tells(g, i, j)
  BY <1>3, <1>10, EndsTell
<1> QED BY <1>3, <1>11 DEF g

(* Where what is told is cut between two events.                           *)
LEMMA EndsCut ==
    ASSUME NEW events \in Seq(Events), NEW i \in Nat \ {0}, NEW j \in Nat, NEW end,
           Ends(events, i, j, end), NEW m \in Nat, i - 1 <= m, m <= j,
           \A k \in 1..Len(events) : events[k].to <= m \/ events[k].from > m,
           NEW c \in 0..Len(events),
           \A k \in 1..Len(events) : k <= c <=> events[k].to <= m
    PROVE  end[c] = m
<1> DEFINE N == Len(events)
<1>1. N \in Nat /\ c \in Nat /\ c <= N
  OBVIOUS
<1>2. /\ \A k \in 0..N, l \in 0..N : k < l => end[k] < end[l]
      /\ \A n \in i..j : \E k \in 1..N : n \in events[k].from..events[k].to
  BY EndsGrow
<1>3. /\ \A k \in 0..N : end[k] \in Nat
      /\ \A k \in 1..N : events[k].from = end[k - 1] + 1 /\ events[k].to = end[k]
      /\ end[0] = i - 1
  BY DEF Ends
<1> HIDE DEF N
<1>4. CASE m = i - 1
  <2>1. SUFFICES ASSUME c # 0 PROVE FALSE
    BY <1>3, <1>4
  <2>2. c \in 1..N /\ c <= c /\ 0 \in 0..N /\ c \in 0..N /\ 0 < c
    BY <1>1, <2>1
  <2>3. events[c].to <= m
    BY <2>2 DEF N
  <2>4. end[0] < end[c] /\ events[c].to = end[c] /\ end[c] \in Nat
    BY <1>2, <1>3, <2>2
  <2> QED BY <1>3, <1>4, <2>3, <2>4
<1>5. CASE m # i - 1
  <2>1. m \in i..j
    BY <1>5
  <2>2. PICK k \in 1..N : m \in events[k].from..events[k].to
    BY <1>2, <2>1
  <2>3. k \in 0..N /\ k - 1 \in 0..N
    BY <1>1
  <2>4. events[k].to = end[k] /\ events[k].from = end[k - 1] + 1 /\ end[k] \in Nat /\ end[k - 1] \in Nat
    BY <1>3, <2>3
  <2>5. events[k].to = m
    <3>1. events[k].to <= m \/ events[k].from > m
      BY DEF N
    <3> QED BY <2>2, <2>4, <3>1, SMTT(30)
  <2>6. k <= c
    <3>1. events[k].to <= m
      BY <2>5
    <3> QED BY <3>1 DEF N
  <2>7. ~(k < c)
    <3> SUFFICES ASSUME k < c PROVE FALSE
      OBVIOUS
    <3>1. c \in 1..N /\ c \in 0..N
      BY <1>1
    <3>2. end[k] < end[c] /\ events[c].to = end[c] /\ end[c] \in Nat
      BY <1>2, <1>3, <2>3, <3>1
    <3>3. events[c].to <= m
      BY <3>1, <1>1 DEF N
    <3> QED BY <2>4, <2>5, <3>2, <3>3
  <2>8. k = c
    BY <1>1, <2>6, <2>7
  <2> QED BY <2>4, <2>5, <2>8
<1> QED BY <1>4, <1>5

(* Events in a row: one after the other, and together the whole of what    *)
(* they tell.                                                              *)
LEMMA EventsInOrder ==
    ASSUME ToldTyped, NEW events \in Seq(Events), NEW i \in Nat \ {0}, NEW j \in Nat,
           Tells(events, i, j)
    PROVE  /\ Len(events) \in Nat
           /\ i - 1 <= j /\ (events # <<>> => j <= Len(told))
           /\ \A k \in 1..Len(events) :
                 /\ events[k] \in Events /\ StandsFor(events[k])
                 /\ events[k].from \in Nat /\ events[k].to \in Nat
                 /\ i <= events[k].from /\ events[k].from <= events[k].to /\ events[k].to <= j
           /\ \A k, l \in 1..Len(events) : k < l => events[k].to < events[l].from
           /\ events # <<>> => events[1].from = i /\ events[Len(events)].to = j
           /\ \A n \in i..j : \E k \in 1..Len(events) : n \in events[k].from..events[k].to
           /\ events = <<>> <=> j = i - 1
<1> DEFINE N == Len(events)
<1>1. PICK end : Ends(events, i, j, end)
  BY TellsEnds
<1>2. N \in Nat
  OBVIOUS
<1>3. /\ \A k \in 0..N, l \in 0..N : k < l => end[k] < end[l]
      /\ \A n \in i..j : \E k \in 1..N : n \in events[k].from..events[k].to
      /\ i - 1 <= j /\ (j <= Len(told) \/ j = i - 1)
  BY <1>1, EndsGrow
<1>4. /\ \A k \in 0..N : end[k] \in Nat
      /\ \A k \in 1..N : events[k].from = end[k - 1] + 1 /\ events[k].to = end[k] /\ StandsFor(events[k])
      /\ end[0] = i - 1 /\ end[N] = j
  BY <1>1 DEF Ends
<1>5. \A k \in 1..N : events[k] \in Events
  OBVIOUS
<1>6. (events # <<>> => N \in 1..N /\ 1 \in 1..N) /\ (events = <<>> => N = 0)
  OBVIOUS
<1> HIDE DEF N
<1>7. \A k \in 0..N, l \in 0..N : k <= l => end[k] <= end[l]
  <2> SUFFICES ASSUME NEW k \in 0..N, NEW l \in 0..N, k <= l PROVE end[k] <= end[l]
    OBVIOUS
  <2>1. k = l \/ k < l
    BY <1>2
  <2>2. end[k] \in Nat /\ end[l] \in Nat
    BY <1>4
  <2> QED BY <1>3, <2>1, <2>2
<1>8. ASSUME NEW k \in 1..N
      PROVE /\ events[k] \in Events /\ StandsFor(events[k])
            /\ events[k].from \in Nat /\ events[k].to \in Nat
            /\ i <= events[k].from /\ events[k].from <= events[k].to /\ events[k].to <= j
  <2>1. k - 1 \in 0..N /\ k \in 0..N /\ 0 \in 0..N /\ N \in 0..N /\ 0 <= k - 1 /\ k <= N
    BY <1>2
  <2>2. end[0] <= end[k - 1] /\ end[k] <= end[N]
    BY <1>7, <2>1
  <2>3. events[k].from = end[k - 1] + 1 /\ events[k].to = end[k] /\ StandsFor(events[k])
    BY <1>4
  <2>4. end[k - 1] \in Nat /\ end[k] \in Nat
    BY <1>4, <2>1
  <2>5. events[k].from <= events[k].to
    BY <1>5, <2>3, StandsForIs
  <2> QED BY <1>4, <1>5, <2>2, <2>3, <2>4, <2>5
<1>9. \A k, l \in 1..N : k < l => events[k].to < events[l].from
  <2> SUFFICES ASSUME NEW k \in 1..N, NEW l \in 1..N, k < l PROVE events[k].to < events[l].from
    OBVIOUS
  <2>1. k \in 0..N /\ l - 1 \in 0..N /\ k <= l - 1
    BY <1>2
  <2>2. end[k] <= end[l - 1]
    BY <1>7, <2>1
  <2>3. events[k].to = end[k] /\ events[l].from = end[l - 1] + 1 /\ end[k] \in Nat /\ end[l - 1] \in Nat
    BY <1>4, <2>1
  <2> QED BY <2>2, <2>3
<1>10. events # <<>> => events[1].from = i /\ events[N].to = j
  <2> SUFFICES ASSUME events # <<>> PROVE events[1].from = i /\ events[N].to = j
    OBVIOUS
  <2>1. events[1].from = end[1 - 1] + 1 /\ events[N].to = end[N]
    BY <1>4, <1>6
  <2>2. 1 - 1 = 0
    OBVIOUS
  <2> QED BY <1>4, <2>1, <2>2
<1>11. events = <<>> <=> j = i - 1
  <2>1. events = <<>> => j = i - 1
    BY <1>4, <1>6
  <2>2. events # <<>> => j # i - 1
    <3> SUFFICES ASSUME events # <<>> PROVE j # i - 1
      OBVIOUS
    <3>1. events[1].from = i /\ i <= events[1].from /\ events[1].from <= events[1].to /\ events[1].to <= j
          /\ events[1].from \in Nat /\ events[1].to \in Nat
      BY <1>6, <1>8, <1>10
    <3> QED BY <3>1
  <2> QED BY <2>1, <2>2
<1>12. events # <<>> => j <= Len(told)
  BY <1>3, <1>11
<1> QED BY <1>2, <1>3, <1>8, <1>9, <1>10, <1>11, <1>12 DEF N

LEMMA OneTells ==
    ASSUME ToldTyped, NEW e \in Events, StandsFor(e)
    PROVE  <<e>> \in Seq(Events) /\ Tells(<<e>>, e.from, e.to)
<1> DEFINE s == <<e>>
<1>1. s \in Seq(Events) /\ Len(s) = 1 /\ DOMAIN s = 1..1 /\ s[1] = e
  OBVIOUS
<1>2. e.from \in Nat /\ e.to \in Nat
  BY EventIs
<1> HIDE DEF s
<1>3. ASSUME NEW k \in DOMAIN s
      PROVE  StandsFor(s[k]) /\ s[k].from = (IF k - 1 = 0 THEN e.from - 1 ELSE s[k - 1].to) + 1
  <2>1. k = 1
    BY <1>1
  <2>2. e.from = (e.from - 1) + 1
    BY <1>2
  <2> QED BY <1>1, <2>1, <2>2
<1>4. (IF Len(s) = 0 THEN e.from - 1 ELSE s[Len(s)].to) = e.to
  BY <1>1
<1>5. Tells(s, e.from, e.to)
  BY <1>3, <1>4 DEF Tells
<1> QED BY <1>1, <1>5 DEF s

LEMMA NoneTell ==
    ASSUME NEW i \in Nat \ {0}
    PROVE  <<>> \in Seq(Events) /\ Tells(<<>>, i, i - 1)
<1> DEFINE s == <<>>
<1>1. s \in Seq(Events) /\ Len(s) = 0 /\ DOMAIN s = {}
  OBVIOUS
<1> HIDE DEF s
<1>2. Tells(s, i, i - 1)
  BY <1>1 DEF Tells
<1> QED BY <1>1, <1>2 DEF s

(* A piece that is not a text has an event of its own.                     *)
LEMMA EventOfPiece ==
    ASSUME ToldTyped, NEW events \in Seq(Events), NEW i \in Nat \ {0}, NEW j \in Nat,
           Tells(events, i, j), NEW n \in i..j, told[n].type # "text"
    PROVE  \E k \in 1..Len(events) : events[k].from = n /\ events[k].to = n /\ events[k].type = told[n].type
<1>1. PICK k \in 1..Len(events) : n \in events[k].from..events[k].to
  BY EventsInOrder
<1>2. events[k] \in Events /\ StandsFor(events[k])
  BY EventsInOrder
<1>3. told[n].type = events[k].type
  BY <1>1, <1>2, StandsForIs
<1>4. events[k].from = events[k].to /\ events[k].from \in Nat
  BY <1>2, <1>3, StandsForIs
<1>5. n = events[k].from
  BY <1>1, <1>4
<1> QED BY <1>3, <1>4, <1>5

(* Events can be parted where one of them ends.                            *)
LEMMA CutAt ==
    ASSUME NEW events \in Seq(Events), NEW i \in Nat \ {0}, NEW j \in Nat, Tells(events, i, j),
           NEW m \in Nat, i - 1 <= m, m <= j,
           \A k \in 1..Len(events) : events[k].to <= m \/ events[k].from > m,
           NEW c \in 0..Len(events),
           \A k \in 1..Len(events) : k <= c <=> events[k].to <= m
    PROVE  /\ SubSeq(events, 1, c) \in Seq(Events) /\ Tells(SubSeq(events, 1, c), i, m)
           /\ From(events, c + 1) \in Seq(Events) /\ Tells(From(events, c + 1), m + 1, j)
<1>1. PICK end : Ends(events, i, j, end)
  BY TellsEnds
<1>2. end[c] = m
  BY <1>1, EndsCut, SMTT(30)
<1>3. SubSeq(events, 1, c) \in Seq(Events) /\ Tells(SubSeq(events, 1, c), i, end[c])
  BY <1>1, EndsOfFirst
<1>4. From(events, c + 1) \in Seq(Events) /\ Tells(From(events, c + 1), end[c] + 1, j)
  BY <1>1, EndsOfRest
<1> QED BY <1>2, <1>3, <1>4

(* A message adds what its pieces add.                                     *)
LEMMA MessageExtends ==
    ASSUME ToldTyped, NEW e \in Events, StandsFor(e), NEW a \in 1..e.from
    PROVE  Extended(Account(a, e.from - 1), e) = Account(a, e.to)
<1>0. /\ Len(told) \in Nat /\ e.from \in Nat /\ e.to \in Nat /\ 1 <= e.from /\ e.from <= e.to
      /\ e.to <= Len(told)
      /\ \A n \in e.from..e.to : told[n].type = e.type
  BY EventIs DEF StandsFor, ToldTyped
<1>00. Key(e) \in Speech /\ e.text \in Seq(Words)
  BY EventIs
<1> DEFINE s == Account(a, e.from - 1)
<1>1. s \in Seq(Speech)
  <2>1. a \in 1..(Len(told) + 1) /\ e.from - 1 \in (a - 1)..Len(told)
    BY <1>0
  <2> QED BY <2>1, AccountIs
<1>2. \A n \in e.from..e.to : Account(a, n) = Extended(Account(a, n - 1), told[n])
  <2> SUFFICES ASSUME NEW n \in e.from..e.to
               PROVE  Account(a, n) = Extended(Account(a, n - 1), told[n])
    OBVIOUS
  <2>1. a \in 1..(Len(told) + 1) /\ n \in (a - 1)..Len(told) /\ n >= a
    BY <1>0
  <2> QED BY <2>1, AccountIs
<1>3. \A n \in e.from..e.to : told[n] \in Speech /\ Key(told[n]) \in Speech
  <2> SUFFICES ASSUME NEW n \in e.from..e.to PROVE told[n] \in Speech /\ Key(told[n]) \in Speech
    OBVIOUS
  <2>1. told[n] \in Speech
    BY <1>0 DEF ToldTyped
  <2> QED BY <2>1, KeyOfSpeech
<1>4. CASE e.type # "text"
  <2>1. e.from = e.to /\ e.text = told[e.from].text
    BY <1>4 DEF StandsFor
  <2>2. e.from \in e.from..e.to
    BY <1>0
  <2>3. Key(e) = Key(told[e.from])
    BY <1>0, <2>1, <2>2 DEF Key
  <2>4. Extended(s, e) = Extended(s, told[e.from])
    BY <2>3, ExtendedSame
  <2> QED BY <1>2, <2>1, <2>2, <2>4
<1>5. CASE e.type = "text"
  <2> DEFINE N == e.to - e.from
             word(n) == told[n].text[1]
             piece(m) == [type |-> "text", text |-> [k \in 1..(m + 1) |-> word(e.from + k - 1)]]
             T == {m \in 0..N : Extended(s, piece(m)) = Account(a, e.from + m)}
  <2>1. N \in Nat
    BY <1>0
  <2>2. \A m \in 0..N : told[e.from + m].type = "text" /\ word(e.from + m) \in Words
                        /\ told[e.from + m].text = <<word(e.from + m)>>
    <3> SUFFICES ASSUME NEW m \in 0..N
                 PROVE  told[e.from + m].type = "text" /\ word(e.from + m) \in Words
                        /\ told[e.from + m].text = <<word(e.from + m)>>
      OBVIOUS
    <3>1. e.from + m \in e.from..e.to /\ e.from + m \in 1..Len(told)
      BY <1>0
    <3>2. told[e.from + m].type = "text"
      BY <1>0, <1>5, <3>1
    <3>3. PICK w \in Words : told[e.from + m].text = <<w>>
      BY <3>1, <3>2 DEF ToldTyped
    <3>4. told[e.from + m].text[1] = w
      BY <3>3
    <3> QED BY <3>2, <3>3, <3>4
  <2> HIDE DEF word
  <2>3. \A m \in 0..N : piece(m) \in Speech /\ Key(piece(m)) \in Speech
    <3> SUFFICES ASSUME NEW m \in 0..N PROVE piece(m) \in Speech /\ Key(piece(m)) \in Speech
      OBVIOUS
    <3> DEFINE x == [k \in 1..(m + 1) |-> word(e.from + k - 1)]
    <3>1. \A k \in 1..(m + 1) : word(e.from + k - 1) \in Words
      <4> SUFFICES ASSUME NEW k \in 1..(m + 1) PROVE word(e.from + k - 1) \in Words
        OBVIOUS
      <4>1. k - 1 \in 0..N /\ e.from + (k - 1) = e.from + k - 1
        BY <1>0, <2>1
      <4> HIDE DEF N
      <4> QED BY <2>2, <4>1
    <3>2. x \in [1..(m + 1) -> Words]
      BY <3>1
    <3>3. m + 1 \in Nat
      BY <2>1
    <3>4. x \in Seq(Words)
      <4> HIDE DEF x
      <4> QED BY <3>2, <3>3
    <3>5. piece(m) \in Speech
      <4> HIDE DEF x
      <4>1. [type |-> "text", text |-> x] \in Speech
        BY <3>4 DEF Speech, Types
      <4> QED BY <4>1 DEF x
    <3> HIDE DEF piece
    <3> QED BY <3>5, KeyOfSpeech
  <2>4. 0 \in T
    <3>1. told[e.from].type = "text" /\ told[e.from].text = <<word(e.from)>>
      <4>1. 0 \in 0..N /\ e.from + 0 = e.from
        BY <1>0, <2>1
      <4> HIDE DEF N
      <4> QED BY <2>2, <4>1
    <3>2. [k \in 1..(0 + 1) |-> word(e.from + k - 1)] = <<word(e.from)>>
      <4> DEFINE x == [k \in 1..(0 + 1) |-> word(e.from + k - 1)]
                 y == <<word(e.from)>>
      <4>1. 0 + 1 = 1 /\ e.from + 1 - 1 = e.from
        BY <1>0
      <4>2. x \in [1..1 -> {word(e.from)}]
        <5>1. \A k \in 1..1 : e.from + k - 1 = e.from
          BY <1>0
        <5> QED BY <4>1, <5>1
      <4> QED BY <4>1, <4>2
    <3>3. Key(piece(0)) = Key(told[e.from])
      BY <3>1, <3>2 DEF Key
    <3>4. Extended(s, piece(0)) = Extended(s, told[e.from])
      BY <3>3, ExtendedSame
    <3>5. Account(a, e.from) = Extended(s, told[e.from]) /\ e.from + 0 = e.from
      BY <1>0, <1>2
    <3> HIDE DEF s, piece
    <3> QED BY <2>1, <3>4, <3>5
  <2>5. ASSUME NEW m \in 1..N, m - 1 \in T PROVE m \in T
    <3>1. m \in 0..N /\ m - 1 \in 0..N /\ e.from + m \in e.from..e.to
          /\ (e.from + m) - 1 = e.from + (m - 1)
      <4>1. m \in Nat /\ 1 <= m /\ m <= e.to - e.from
        BY <2>1
      <4>2. m \in 0..N /\ m - 1 \in 0..N
        BY <2>1
      <4>3. e.from + m \in e.from..e.to /\ (e.from + m) - 1 = e.from + (m - 1)
        BY <1>0, <4>1
      <4> QED BY <4>2, <4>3
    <3> HIDE DEF N
    <3>2. Extended(s, piece(m - 1)) = Account(a, e.from + (m - 1))
      BY <2>5
    <3>3. Account(a, e.from + m) = Extended(Extended(s, piece(m - 1)), told[e.from + m])
      BY <1>2, <3>1, <3>2
    <3>4. piece(m).text = piece(m - 1).text \o told[e.from + m].text
      <4> DEFINE x == [k \in 1..m |-> word(e.from + k - 1)]
                 y == <<word(e.from + m)>>
                 z == [k \in 1..(m + 1) |-> word(e.from + k - 1)]
      <4>1. (m - 1) + 1 = m /\ m \in Nat /\ m + 1 \in Nat
        BY <2>1, <3>1 DEF N
      <4>2. piece(m).text = z /\ piece(m - 1).text = x /\ told[e.from + m].text = y
        BY <2>2, <3>1, <4>1
      <4>3. \A k \in 1..(m + 1) : word(e.from + k - 1) \in Words
        <5> SUFFICES ASSUME NEW k \in 1..(m + 1) PROVE word(e.from + k - 1) \in Words
          OBVIOUS
        <5>1. k - 1 \in 0..N /\ e.from + (k - 1) = e.from + k - 1
          <6>1. k \in 1..(m + 1) /\ m \in 0..N
            BY <3>1
          <6>2. k - 1 \in 0..N
            BY <2>1, <6>1
          <6> QED BY <1>0, <6>1, <6>2
        <5> QED BY <2>2, <5>1
      <4>4. word(e.from + m) \in Words
        BY <2>2, <3>1
      <4>5. x \in Seq(Words) /\ Len(x) = m /\ \A k \in 1..m : x[k] = word(e.from + k - 1)
        <5>1. x \in [1..m -> Words]
          BY <4>1, <4>3
        <5> QED BY <4>1, <5>1
      <4>6. z \in Seq(Words) /\ Len(z) = m + 1 /\ \A k \in 1..(m + 1) : z[k] = word(e.from + k - 1)
        <5>1. z \in [1..(m + 1) -> Words]
          BY <4>3
        <5> QED BY <4>1, <5>1
      <4>7. y \in Seq(Words) /\ Len(y) = 1 /\ y[1] = word(e.from + m)
        BY <4>4
      <4> HIDE DEF x, y, z
      <4>8. x \o y \in Seq(Words) /\ Len(x \o y) = m + 1
        <5>0. x \in Seq(Words) /\ y \in Seq(Words)
          BY <4>5, <4>7
        <5>1. x \o y \in Seq(Words) /\ Len(x \o y) = Len(x) + Len(y)
          BY <5>0
        <5> QED BY <4>5, <4>7, <5>1
      <4>9. ASSUME NEW k \in 1..(m + 1) PROVE (x \o y)[k] = z[k]
        <5>1. CASE k = m + 1
          <6>1. (x \o y)[k] = y[1]
            <7>1. k = Len(x) + 1 /\ Len(x) \in Nat
              BY <4>1, <4>5, <5>1
            <7>0. x \in Seq(Words) /\ y \in Seq(Words) /\ Len(y) = 1
              BY <4>5, <4>7
            <7>2. \A i \in 1..Len(y) : (x \o y)[Len(x) + i] = y[i]
              BY <7>0
            <7>3. 1 \in 1..Len(y)
              BY <7>0
            <7> QED BY <7>1, <7>2, <7>3
          <6>2. e.from + k - 1 = e.from + m
            BY <1>0, <4>1, <5>1
          <6> QED BY <4>6, <4>7, <6>1, <6>2
        <5>2. CASE k # m + 1
          <6>1. k \in 1..m
            BY <4>1, <5>2
          <6>2. (x \o y)[k] = x[k]
            BY <4>5, <4>7, <6>1
          <6> QED BY <4>5, <4>6, <6>1, <6>2
        <5> QED BY <5>1, <5>2
      <4>10. x \o y = z
        <5> DEFINE v == x \o y
        <5>1. v \in Seq(Words) /\ z \in Seq(Words) /\ Len(v) = m + 1 /\ Len(z) = m + 1
          BY <4>6, <4>8
        <5>2. \A k \in 1..(m + 1) : v[k] = z[k]
          BY <4>9
        <5> HIDE DEF v
        <5>3. v = z
          BY <5>1, <5>2, SameSequence
        <5> QED BY <5>3 DEF v
      <4> QED BY <4>2, <4>10
    <3>5. piece(m - 1).type = "text" /\ piece(m).type = "text" /\ told[e.from + m].type = "text"
      BY <2>2, <3>1
    <3>6. Key(piece(m - 1)) \in Speech /\ Key(piece(m)) \in Speech /\ Key(told[e.from + m]) \in Speech
      BY <1>3, <2>3, <3>1
    <3>7. Extended(Extended(s, piece(m - 1)), told[e.from + m]) = Extended(s, piece(m))
      <4> DEFINE x == piece(m - 1)
                 y == told[e.from + m]
                 z == piece(m)
      <4>1. s \in Seq(Speech)
        BY <1>1
      <4>2. x.type = "text" /\ y.type = "text" /\ z.type = "text" /\ z.text = x.text \o y.text
        BY <3>4, <3>5
      <4>3. Key(x) \in Speech /\ Key(y) \in Speech /\ Key(z) \in Speech
        BY <3>6
      <4> HIDE DEF s, x, y, z
      <4>4. Joins(x, y, z)
        BY <4>2, <4>3 DEF Joins
      <4>5. Extended(Extended(s, x), y) = Extended(s, z)
        BY <4>1, <4>4, ExtendedTwice
      <4> QED BY <4>5 DEF x, y, z
    <3> QED BY <3>1, <3>3, <3>7
  <2>6. N \in T
    <3>1. 0..N \subseteq T
      <4> HIDE DEF N, T
      <4> QED BY <2>1, <2>4, <2>5, InductionUpTo
    <3>2. N \in 0..N
      BY <2>1
    <3> HIDE DEF N, T
    <3> QED BY <3>1, <3>2
  <2>7. Extended(s, piece(N)) = Account(a, e.to)
    <3>1. e.from + N = e.to
      BY <1>0
    <3> QED BY <2>6, <3>1
  <2>8. Key(piece(N)) = Key(e)
    <3>1. e.text = [k \in 1..(N + 1) |-> word(e.from + k - 1)]
      BY <1>5 DEF StandsFor, word
    <3> QED BY <1>5, <3>1 DEF Key
  <2>9. Extended(s, piece(N)) = Extended(s, e)
    BY <2>8, ExtendedSame
  <2> QED BY <2>7, <2>9
<1> QED BY <1>4, <1>5

(* The signature of events is that of what they tell.                      *)
LEMMA EventsAccount ==
    ASSUME ToldTyped, NEW events \in Seq(Events), NEW i \in Nat \ {0}, NEW j \in Nat,
           Tells(events, i, j), NEW h \in 1..Len(events), NEW n \in h..Len(events)
    PROVE  Signature(SubSeq(events, h, n)) = Account(events[h].from, events[n].to)
<1> DEFINE N == n - h
           T == {m \in 0..N : Signature(SubSeq(events, h, h + m))
                                = Account(events[h].from, events[h + m].to)}
<1>1. PICK end : Ends(events, i, j, end)
  BY TellsEnds
<1>2. Len(events) \in Nat /\ N \in Nat /\ h \in Nat /\ n \in Nat /\ h + N = n
  OBVIOUS
<1>3. \A k \in 1..Len(events) : events[k] \in Events /\ StandsFor(events[k])
  BY <1>1 DEF Ends
<1>4. Says(events)
  BY <1>3, EventIs DEF Says
<1>5. \A k \in h..Len(events) : /\ Signature(SubSeq(events, h, k)) = Extended(Signature(SubSeq(events, h, k - 1)), events[k])
                                /\ k = h => Signature(SubSeq(events, h, k - 1)) = <<>>
  <2> SUFFICES ASSUME NEW k \in h..Len(events)
               PROVE /\ Signature(SubSeq(events, h, k)) = Extended(Signature(SubSeq(events, h, k - 1)), events[k])
                     /\ k = h => Signature(SubSeq(events, h, k - 1)) = <<>>
    OBVIOUS
  <2>1. h \in 1..(Len(events) + 1) /\ k \in (h - 1)..Len(events) /\ k - 1 \in (h - 1)..Len(events) /\ k >= h
    BY <1>2
  <2> QED BY <1>4, <2>1, SignatureOfPart
<1>6. events[h].from \in Nat /\ events[h].to \in Nat /\ 1 <= events[h].from /\ events[h].from <= events[h].to
      /\ events[h].to <= Len(told) /\ Len(told) \in Nat
  <2>1. events[h] \in Events /\ StandsFor(events[h])
    BY <1>3
  <2>2. events[h].from \in 1..events[h].to /\ events[h].to <= Len(told)
    BY <2>1 DEF StandsFor
  <2>3. events[h].from \in Nat /\ events[h].to \in Nat
    BY <2>1, EventIs
  <2>4. Len(told) \in Nat
    BY DEF ToldTyped
  <2> QED BY <2>2, <2>3, <2>4
<1>7. 0 \in T
  <2>1. Account(events[h].from, events[h].from - 1) = <<>>
    <3>1. events[h].from \in 1..(Len(told) + 1) /\ events[h].from - 1 \in (events[h].from - 1)..Len(told)
      BY <1>6
    <3> QED BY <3>1, AccountIs
  <2>2. events[h].from \in 1..events[h].from
    BY <1>6
  <2>3. Extended(<<>>, events[h]) = Account(events[h].from, events[h].to)
    BY <1>3, <2>1, <2>2, MessageExtends
  <2>4. h \in h..Len(events) /\ h + 0 = h
    BY <1>2
  <2> QED BY <1>2, <1>5, <2>3, <2>4
<1>8. ASSUME NEW m \in 1..N, m - 1 \in T PROVE m \in T
  <2>1. h + m \in h..Len(events) /\ h + m \in 1..Len(events) /\ h + (m - 1) \in 1..Len(events)
        /\ (h + m) - 1 = h + (m - 1) /\ m \in 0..N /\ h + (m - 1) \in 0..Len(events) /\ h \in 0..Len(events)
        /\ h - 1 \in 0..Len(events) /\ h + m \in 0..Len(events)
    BY <1>2
  <2> DEFINE e == events[h + m]
             p == events[h + (m - 1)]
  <2>2. Signature(SubSeq(events, h, h + m)) = Extended(Account(events[h].from, p.to), e)
    BY <1>5, <1>8, <2>1
  <2>3. e.from = p.to + 1 /\ p.to \in Nat
    <3>1. e.from = end[(h + m) - 1] + 1 /\ p.to = end[h + (m - 1)]
      BY <1>1, <2>1 DEF Ends
    <3>2. end[h + (m - 1)] \in Nat
      BY <1>1, <2>1 DEF Ends
    <3> QED BY <2>1, <3>1, <3>2
  <2>4. events[h].from <= e.from
    <3>1. events[h].from = end[h - 1] + 1 /\ e.from = end[h + (m - 1)] + 1
      BY <1>1, <2>1 DEF Ends
    <3>2. h - 1 < h + (m - 1)
      BY <1>2
    <3>3. end[h - 1] < end[h + (m - 1)]
      BY <1>1, <2>1, <3>2, EndsGrow
    <3>4. end[h - 1] \in Nat /\ end[h + (m - 1)] \in Nat
      BY <1>1, <2>1 DEF Ends
    <3> QED BY <3>1, <3>3, <3>4, SMTT(30)
  <2>5. e \in Events /\ StandsFor(e)
    BY <1>3, <2>1
  <2> HIDE DEF e, p
  <2>6. events[h].from \in 1..e.from /\ e.from - 1 = p.to
    BY <1>6, <2>3, <2>4, SMTT(30)
  <2>7. Extended(Account(events[h].from, p.to), e) = Account(events[h].from, e.to)
    BY <2>5, <2>6, MessageExtends
  <2> QED BY <2>1, <2>2, <2>7 DEF e
<1>9. N \in T
  <2>1. 0..N \subseteq T
    <3> HIDE DEF N, T
    <3> QED BY <1>2, <1>7, <1>8, InductionUpTo
  <2>2. N \in 0..N
    BY <1>2
  <2> HIDE DEF N, T
  <2> QED BY <2>1, <2>2
<1> QED BY <1>2, <1>9

LEMMA FromAccount ==
    ASSUME ToldTyped, NEW events \in Seq(Events), NEW i \in Nat \ {0}, NEW j \in Nat,
           Tells(events, i, j), NEW h \in 1..Len(events)
    PROVE  /\ Signature(From(events, h)) = Account(events[h].from, j)
           /\ events[h].from \in 1..Len(told) /\ j \in events[h].from..Len(told)
<1>1. /\ Len(events) \in Nat /\ events # <<>>
      /\ events[Len(events)].to = j /\ j <= Len(told)
      /\ events[h].from \in Nat /\ events[h].to \in Nat /\ i <= events[h].from
      /\ events[h].from <= events[h].to /\ events[h].to <= j
  <2>1. events # <<>>
    OBVIOUS
  <2> QED BY <2>1, EventsInOrder
<1>2. Len(events) \in h..Len(events) /\ Len(told) \in Nat
  BY <1>1 DEF ToldTyped
<1>3. Signature(SubSeq(events, h, Len(events))) = Account(events[h].from, events[Len(events)].to)
  BY <1>2, EventsAccount
<1> QED BY <1>1, <1>2, <1>3 DEF From

(* Parts of the conversation that begin alike, with anything but a text or *)
(* the end of a turn, begin at the same piece.                             *)
LEMMA AlikeIsSame ==
    ASSUME ToldTyped, NothingRepeated,
           NEW a \in 1..Len(told), NEW b \in a..Len(told),
           NEW c \in 1..Len(told), NEW d \in c..Len(told),
           told[c].type \notin {"text", "done"},
           Covers(Account(a, b), Account(c, d))
    PROVE  a = c /\ d <= b
<1>1. /\ Account(a, b) \in Seq(Speech) /\ Account(c, d) \in Seq(Speech)
      /\ Account(a, b)[1].type = told[a].type /\ Account(c, d)[1].type = told[c].type
      /\ Account(c, d)[1] = told[c]
      /\ told[a].type # "text" => Account(a, b)[1] = told[a]
  BY AccountBegins
<1>2. /\ Account(a, b)[1].type = Account(c, d)[1].type
      /\ Account(c, d)[1].type # "text" => Account(a, b)[1] = Account(c, d)[1]
  BY <1>1, CoversFirst
<1>3. told[a] = told[c] /\ told[a].type # "done"
  BY <1>1, <1>2
<1>4. DOMAIN told = 1..Len(told) /\ Len(told) \in Nat
  BY DEF ToldTyped
<1>5. a = c
  BY <1>3, <1>4 DEF NothingRepeated
<1>6. d <= b
  <2>1. a \in 1..(Len(told) + 1) /\ d \in (a - 1)..Len(told) /\ b \in (a - 1)..Len(told)
    BY <1>4, <1>5
  <2> QED BY <1>5, <2>1, AccountCovers
<1> QED BY <1>5, <1>6

(***************************************************************************)
(* How much of the live events the history covers: those that end by where *)
(* it ends.                                                                *)
(***************************************************************************)
(* If the history tells the conversation up to M, the live events that are *)
(* covered are those up to M: texts, tools and prompts are recognized      *)
(* although the history may have one text where the live events have       *)
(* several, and the other way round.                                       *)
LEMMA PrefixCoveredIs ==
    ASSUME ToldTyped, Turns, NothingRepeated,
           NEW history \in Seq(Events), NEW i \in {1, 2}, NEW M \in Nat, M >= 2,
           Tells(history, i, M),
           NEW live \in Seq(Events), NEW a \in Nat \ {0}, NEW d \in Nat, Tells(live, a, d),
           live # <<>> => told[a].type \in {"session_initialized", "user_prompt"}
    PROVE  /\ PrefixCovered(history, live) \in 0..Len(live)
           /\ \A k \in 1..Len(live) : k <= PrefixCovered(history, live) <=> live[k].to <= M
<1> DEFINE H == Len(history)
           L == Len(live)
<1>1. CASE live = <<>>
  <2>1. L = 0 /\ PrefixCovered(history, live) = 0
    BY <1>1 DEF PrefixCovered
  <2> QED BY <2>1
<1>2. CASE live # <<>>
  <2>1. i \in Nat \ {0} /\ H \in Nat /\ L \in Nat /\ L >= 1 /\ DOMAIN history = 1..H
    BY <1>2
  <2>2. history # <<>> /\ H >= 1
    <3>1. M # i - 1
      OBVIOUS
    <3>2. history # <<>>
      BY <2>1, <3>1, EventsInOrder
    <3> QED BY <3>2
  <2>3. /\ history[1].from = i /\ history[H].to = M /\ M <= Len(told)
        /\ \A k \in 1..H : /\ history[k] \in Events /\ StandsFor(history[k])
                           /\ history[k].from \in Nat /\ history[k].to \in Nat
                           /\ i <= history[k].from /\ history[k].from <= history[k].to /\ history[k].to <= M
    BY <2>1, <2>2, EventsInOrder
  <2>4. /\ live[1].from = a /\ live[L].to = d /\ d <= Len(told)
        /\ \A k \in 1..L : /\ live[k] \in Events /\ StandsFor(live[k])
                           /\ live[k].from \in Nat /\ live[k].to \in Nat
                           /\ a <= live[k].from /\ live[k].from <= live[k].to /\ live[k].to <= d
        /\ \A k, l \in 1..L : k < l => live[k].to < live[l].from
    BY <1>2, EventsInOrder
  <2>5. Len(told) \in Nat /\ 1 \in 1..Len(told) /\ 2 \in 1..Len(told)
    BY <2>3 DEF ToldTyped
  <2>6. told[1].type = "session_initialized" /\ told[2].type = "user_prompt"
    BY <2>5 DEF Turns
  <2>7. live[1].type = told[a].type /\ live[1].to = a /\ a \in 1..Len(told)
    <3>1. 1 \in 1..L
      BY <2>1
    <3>2. live[1].type = told[a].type
      BY <2>4, <3>1, StandsForIs
    <3>3. live[1].type # "text"
      BY <1>2, <3>2
    <3>4. live[1].to = a
      BY <2>4, <3>1, <3>3, StandsForIs
    <3>5. a <= d
      BY <2>4, <3>1, <3>4
    <3> QED BY <2>4, <2>5, <3>2, <3>4, <3>5
  <2>8. history[1].type = told[i].type
    <3>1. 1 \in 1..H
      BY <2>2
    <3> QED BY <2>3, <3>1, StandsForIs
  <2> DEFINE lead == IF /\ Head(live).type = "session_initialized"
                        /\ Head(history).type # "session_initialized"
                     THEN 1 ELSE 0
             parts == {Signature(From(history, h)) : h \in DOMAIN history}
             ends == {n \in (lead + 1)..L : LET start == Signature(SubSeq(live, lead + 1, n))
                                            IN  \E part \in parts : Covers(part, start)}
             P == Max({IF lead = L THEN lead ELSE 0} \cup ends)
  <2>9. PrefixCovered(history, live) = P
    BY <1>2, <2>2 DEF PrefixCovered
  <2>10. /\ lead \in {0, 1} /\ (lead = 1 => a = 1)
         /\ live[1].type = "session_initialized" /\ lead = 0 => history[1].type = "session_initialized"
    <3>1. Head(live) = live[1] /\ Head(history) = history[1]
      BY <1>2, <2>2
    <3>2. a = 1 <=> live[1].type = "session_initialized"
      BY <2>7 DEF Turns
    <3> QED BY <3>1, <3>2
  <2> HIDE DEF lead
  <2>11. CASE lead = L
    <3>1. ends = {}
      <4>1. (lead + 1)..L = {}
        BY <2>1, <2>11
      <4> QED BY <4>1
    <3>2. P = 1 /\ L = 1
      <4>1. lead = 1
        BY <2>1, <2>10, <2>11
      <4>2. {IF lead = L THEN lead ELSE 0} \cup ends = {1}
        BY <2>11, <3>1, <4>1
      <4>3. {1} \subseteq 0..1 /\ {1} # {}
        OBVIOUS
      <4>4. Max({1}) \in {1}
        BY <4>3, MaxOf
      <4> QED BY <2>11, <4>1, <4>2, <4>4
    <3>3. a = 1
      BY <2>10, <2>11, <3>2
    <3>4. live[1].to <= M
      BY <2>7, <3>3
    <3>5. \A k \in 1..L : k <= P <=> live[k].to <= M
      BY <3>2, <3>4
    <3> QED BY <2>9, <3>2, <3>5
  <2>12. CASE lead # L
    <3> DEFINE b == lead + 1
               q == live[b].from
    <3>1. b \in 1..L /\ b - 1 = lead
      BY <2>1, <2>10, <2>12
    <3>2. /\ q \in 1..Len(told) /\ i <= q /\ live[b].to = q
          /\ told[q].type \in {"session_initialized", "user_prompt"}
          /\ (lead = 1 => q = 2 /\ b = 2)
      <4>1. CASE lead = 0
        <5>1. q = a
          BY <2>4, <4>1
        <5>2. a # 1 => i <= a
          OBVIOUS
        <5>3. a = 1 => i = 1
          <6>1. a = 1 => told[i].type = "session_initialized"
            BY <2>6, <2>7, <2>8, <2>10, <4>1
          <6>2. i \in 1..Len(told)
            BY <2>5
          <6> QED BY <6>1, <6>2 DEF Turns
        <5> QED BY <1>2, <2>7, <4>1, <5>1, <5>2, <5>3
      <4>2. CASE lead = 1
        <5>1. 1 \in 1..L /\ 2 \in 1..L /\ b = 2
          BY <2>1, <3>1, <4>2
        <5>2. 1 < 2 /\ live[1].to = 1 /\ live[1].to < live[2].from /\ live[2].from \in Nat /\ live[2].to <= d
              /\ live[2].from <= live[2].to /\ live[2].to \in Nat
          BY <2>4, <2>7, <2>10, <4>2, <5>1
        <5>3. 2 \in a..d
          BY <2>10, <4>2, <5>2
        <5>4. PICK k \in 1..L : live[k].from = 2 /\ live[k].to = 2
          <6>1. told[2].type # "text"
            BY <2>6
          <6> QED BY <5>3, <6>1, EventOfPiece
        <5>5. k = 2
          <6>1. ~(k > 2)
            <7> SUFFICES ASSUME k > 2 PROVE FALSE
              OBVIOUS
            <7>1. live[2].to < live[k].from
              BY <2>4, <5>1
            <7> QED BY <5>2, <5>4, <7>1
          <6>2. k # 1
            BY <5>2, <5>4
          <6> QED BY <6>1, <6>2
        <5> QED BY <2>5, <2>6, <4>2, <5>1, <5>4, <5>5
      <4> QED BY <2>10, <4>1, <4>2
    <3>3. ASSUME NEW n \in b..L
          PROVE  /\ Signature(SubSeq(live, b, n)) = Account(q, live[n].to)
                 /\ live[n].to \in q..Len(told)
      <4>1. n \in 1..L /\ n \in b..L
        BY <3>1
      <4>2. Signature(SubSeq(live, b, n)) = Account(q, live[n].to)
        BY <3>1, <4>1, EventsAccount
      <4>3. q <= live[n].to
        <5>1. CASE n = b
          BY <2>4, <3>1, <5>1
        <5>2. CASE n # b
          <6>1. b < n
            BY <3>1, <5>2
          <6>2. live[b].to < live[n].from
            BY <2>4, <3>1, <4>1, <6>1
          <6>3. live[b].to \in Nat /\ live[n].from \in Nat /\ live[n].to \in Nat
                /\ live[b].to = q /\ live[n].from <= live[n].to
            BY <2>4, <3>1, <3>2, <4>1
          <6> HIDE DEF b, q
          <6> QED BY <6>2, <6>3
        <5> QED BY <5>1, <5>2
      <4>4. live[n].to <= Len(told) /\ live[n].to \in Nat /\ q \in Nat
        BY <2>4, <2>5, <3>1, <4>1, SMTT(30)
      <4> QED BY <4>2, <4>3, <4>4
    <3>4. ASSUME NEW h \in 1..H
          PROVE  /\ Signature(From(history, h)) = Account(history[h].from, M)
                 /\ history[h].from \in 1..Len(told) /\ M \in history[h].from..Len(told)
      <4>1. H \in h..H
        BY <2>1
      <4>2. Signature(SubSeq(history, h, H)) = Account(history[h].from, M)
        BY <2>1, <2>3, <4>1, EventsAccount
      <4>3. history[h].from \in Nat /\ history[h].to \in Nat
            /\ i <= history[h].from /\ history[h].from <= history[h].to /\ history[h].to <= M
        BY <2>3
      <4>4. history[h].from \in 1..Len(told) /\ M \in history[h].from..Len(told)
        BY <2>3, <2>5, <4>3, SMTT(30)
      <4> QED BY <4>2, <4>4 DEF From
    <3>5. ASSUME NEW n \in b..L
          PROVE  n \in ends <=> live[n].to <= M
      <4>1. n \in ends => live[n].to <= M
        <5> SUFFICES ASSUME n \in ends PROVE live[n].to <= M
          OBVIOUS
        <5>1. PICK h \in 1..H : Covers(Signature(From(history, h)), Signature(SubSeq(live, b, n)))
          BY <2>1
        <5>2. Covers(Account(history[h].from, M), Account(q, live[n].to))
          BY <3>3, <3>4, <5>1
        <5>3. told[q].type \notin {"text", "done"}
          BY <3>2
        <5> HIDE DEF q
        <5> QED BY <3>2, <3>3, <3>4, <5>2, <5>3, AlikeIsSame
      <4>2. live[n].to <= M => n \in ends
        <5> SUFFICES ASSUME live[n].to <= M PROVE n \in ends
          OBVIOUS
        <5>1. q \in i..M
          BY <2>4, <2>5, <3>1, <3>2, <3>3, SMTT(30)
        <5>2. told[q].type # "text"
          BY <3>2
        <5>3. PICK h \in 1..H : history[h].from = q
          BY <2>1, <5>1, <5>2, EventOfPiece, SMTT(30)
        <5>4. Covers(Account(q, M), Account(q, live[n].to))
          <6>1. q \in 1..(Len(told) + 1) /\ live[n].to \in (q - 1)..Len(told) /\ M \in (q - 1)..Len(told)
                /\ live[n].to >= q
            <7>1. live[n].to \in q..Len(told) /\ q \in 1..Len(told)
              BY <3>2, <3>3
            <7> HIDE DEF b, q
            <7> QED BY <2>3, <2>5, <5>1, <7>1, SMTT(30)
          <6> QED BY <6>1, AccountGrows
        <5>5. Covers(Signature(From(history, h)), Signature(SubSeq(live, b, n)))
          BY <3>3, <3>4, <5>3, <5>4
        <5>6. Signature(From(history, h)) \in parts
          BY <2>1
        <5> QED BY <5>5, <5>6
      <4> QED BY <4>1, <4>2
    <3> DEFINE E == {0} \cup ends
    <3>6. P = Max(E)
      BY <2>12
    <3>7. E \subseteq 0..L /\ E # {} /\ \A n \in ends : n \in b..L
      BY <2>1, <3>1
    <3> HIDE DEF ends, b, q, P
    <3>8. P \in E /\ \A y \in E : y <= P
      <4> HIDE DEF E
      <4> QED BY <2>1, <3>6, <3>7, MaxOf
    <3>9. ASSUME NEW k \in 1..L PROVE k <= P <=> live[k].to <= M
      <4>1. k <= P => live[k].to <= M
        <5> SUFFICES ASSUME k <= P PROVE live[k].to <= M
          OBVIOUS
        <5>1. P \in ends /\ P \in b..L /\ P \in 1..L
          BY <2>1, <3>1, <3>7, <3>8
        <5>2. live[P].to <= M
          BY <3>5, <5>1
        <5>3. CASE k = P
          BY <5>2, <5>3
        <5>4. CASE k # P
          <6>1. k < P
            BY <5>1, <5>4
          <6>2. live[k].to < live[P].from
            BY <2>4, <5>1, <6>1
          <6> QED BY <2>4, <5>1, <5>2, <6>2
        <5> QED BY <5>3, <5>4
      <4>2. live[k].to <= M => k <= P
        <5> SUFFICES ASSUME live[k].to <= M PROVE k <= P
          OBVIOUS
        <5>1. CASE k \in b..L
          BY <3>5, <3>8, <5>1
        <5>2. CASE k \notin b..L
          <6>1. lead = 1 /\ k = 1
            BY <2>1, <2>10, <3>1, <5>2 DEF b
          <6>2. b = 2 /\ live[b].to = 2 /\ b \in b..L
            BY <2>1, <3>1, <3>2, <6>1 DEF q
          <6>3. b \in ends
            BY <3>5, <6>2
          <6>4. b <= P
            BY <3>8, <6>3
          <6> QED BY <3>7, <3>8, <6>1, <6>2, <6>4
        <5> QED BY <5>1, <5>2
      <4> QED BY <4>1, <4>2
    <3> QED BY <2>9, <3>7, <3>8, <3>9
  <2> QED BY <2>11, <2>12
<1> QED BY <1>1, <1>2

(***************************************************************************)
(* The rows and the snapshot tell of the conversation.                     *)
(***************************************************************************)
LEMMA EventTells ==
    ASSUME ToldTyped, NEW n \in 1..Len(told), NEW source \in {"hub", "transcript"}
    PROVE  /\ Event(n, source) \in Events /\ StandsFor(Event(n, source))
           /\ Event(n, source).from = n /\ Event(n, source).to = n /\ Event(n, source).source = source
<1> DEFINE e == Event(n, source)
<1>1. told[n] \in Speech /\ n \in Nat /\ Len(told) \in Nat
  BY DEF ToldTyped
<1>2. told[n].type \in Types /\ told[n].text \in Seq(Words)
  BY <1>1, SpeechIs
<1>3. e = [type |-> told[n].type, text |-> told[n].text, from |-> n, to |-> n, source |-> source]
  BY DEF Event, Numbered
<1>4. e \in Events
  BY <1>1, <1>2, <1>3 DEF Events
<1>5. e.from = n /\ e.to = n /\ e.source = source /\ e.type = told[n].type /\ e.text = told[n].text
  BY <1>3
<1> HIDE DEF e
<1>6. e.from \in 1..e.to /\ e.to <= Len(told) /\ \A m \in e.from..e.to : told[m].type = e.type
  BY <1>1, <1>5
<1>7. e.type = "text" => e.text = [k \in 1..(e.to - e.from + 1) |-> told[e.from + k - 1].text[1]]
  <2> SUFFICES ASSUME e.type = "text"
               PROVE  e.text = [k \in 1..(e.to - e.from + 1) |-> told[e.from + k - 1].text[1]]
    OBVIOUS
  <2>1. PICK w \in Words : told[n].text = <<w>>
    BY <1>5 DEF ToldTyped
  <2>2. e.to - e.from + 1 = 1 /\ \A k \in 1..1 : e.from + k - 1 = n
    BY <1>1, <1>5
  <2>3. told[n].text[1] = w
    BY <2>1
  <2>4. e.text = <<w>>
    BY <1>5, <2>1
  <2>5. [k \in 1..1 |-> told[e.from + k - 1].text[1]] = [k \in 1..1 |-> w]
    BY <2>2, <2>3
  <2>6. [k \in 1..1 |-> w] = <<w>>
    OBVIOUS
  <2> QED BY <2>2, <2>4, <2>5, <2>6
<1>8. StandsFor(e)
  BY <1>5, <1>6, <1>7 DEF StandsFor
<1> QED BY <1>4, <1>5, <1>8 DEF e

FromTranscript(rows) == \A k \in 1..Len(rows) : rows[k].source = "transcript"

(* A row for the next piece, or a text that goes on with it.               *)
LEMMA RowTells ==
    ASSUME ToldTyped, Turns, NEW n \in 2..Len(told), NEW rows \in Seq(Events),
           Tells(rows, 2, n - 1), FromTranscript(rows)
    PROVE  /\ WithRow(rows, n) \in Seq(Events)
           /\ Tells(WithRow(rows, n), 2, n)
           /\ FromTranscript(WithRow(rows, n))
<1>0. n \in Nat /\ n >= 2 /\ n \in 1..Len(told) /\ Len(told) \in Nat /\ n - 1 \in Nat /\ 2 \in Nat \ {0}
  BY DEF ToldTyped
<1>1. told[n].type # "session_initialized"
  BY <1>0 DEF Turns
<1> DEFINE L == Len(rows)
           r == rows[L]
           e == Event(n, "transcript")
<1>2. CASE told[n].type = "text" /\ r.type = "text"
  <2>1. rows # <<>>
    <3>1. n # 2
      BY <1>0, <1>2 DEF Turns
    <3>2. n - 1 # 2 - 1
      BY <1>0, <3>1
    <3> QED BY <1>0, <3>2, EventsInOrder
  <2>2. L \in Nat /\ L >= 1 /\ L \in 1..L /\ L - 1 \in 0..L
    BY <2>1
  <2>3. r \in Events /\ StandsFor(r) /\ r.to = n - 1 /\ r.source = "transcript"
    BY <1>0, <2>1, <2>2, EventsInOrder DEF FromTranscript
  <2>4. /\ r.from \in Nat /\ 1 <= r.from /\ r.from <= n - 1
        /\ \A m \in r.from..(n - 1) : told[m].type = "text"
        /\ r.text \in Seq(Words)
        /\ r = [type |-> "text", text |-> r.text, from |-> r.from, to |-> r.to, source |-> r.source]
    BY <1>2, <2>3, StandsForIs, EventIs
  <2>5. PICK w \in Words : told[n].text = <<w>>
    BY <1>0, <1>2 DEF ToldTyped
  <2> DEFINE t == r.text \o told[n].text
             q == [type |-> "text", text |-> t, from |-> r.from, to |-> n, source |-> "transcript"]
             x == WithRow(rows, n)
             first == SubSeq(rows, 1, L - 1)
  <2>6. /\ t \in Seq(Words)
        /\ t = [k \in 1..(n - r.from + 1) |-> told[r.from + k - 1].text[1]]
    <3> DEFINE y == r.text
               z == told[n].text
               N == n - r.from
    <3>1. y = [k \in 1..(r.to - r.from + 1) |-> told[r.from + k - 1].text[1]]
      BY <1>2, <2>3 DEF StandsFor
    <3>2. r.to - r.from + 1 = N /\ N \in Nat /\ n - r.from + 1 = N + 1
      BY <1>0, <2>3, <2>4
    <3>3. y \in Seq(Words) /\ Len(y) = N /\ \A k \in 1..N : y[k] = told[r.from + k - 1].text[1]
      <4>1. y = [k \in 1..N |-> told[r.from + k - 1].text[1]]
        BY <3>1, <3>2
      <4> HIDE DEF N
      <4> QED BY <2>4, <3>2, <4>1
    <3>4. z \in Seq(Words) /\ Len(z) = 1 /\ z[1] = told[n].text[1]
      BY <2>5
    <3> HIDE DEF y, z
    <3>5. y \o z \in Seq(Words) /\ Len(y \o z) = Len(y) + Len(z)
          /\ (\A k \in 1..Len(y) : (y \o z)[k] = y[k])
          /\ \A k \in 1..Len(z) : (y \o z)[Len(y) + k] = z[k]
      <4>1. y \in Seq(Words) /\ z \in Seq(Words)
        BY <3>3, <3>4
      <4> QED BY <4>1
    <3>6. Len(y \o z) = N + 1
      <4> HIDE DEF N
      <4> QED BY <3>2, <3>3, <3>4, <3>5
    <3>7. ASSUME NEW k \in 1..(N + 1) PROVE (y \o z)[k] = told[r.from + k - 1].text[1]
      <4>1. CASE k = N + 1
        <5>1. r.from + k - 1 = n
          BY <1>0, <2>4, <4>1, SMTT(30)
        <5>2. (y \o z)[N + 1] = z[1]
          <6>1. 1 \in 1..Len(z)
            BY <3>4
          <6> HIDE DEF N
          <6> QED BY <3>3, <3>5, <6>1
        <5> QED BY <3>4, <4>1, <5>1, <5>2
      <4>2. CASE k # N + 1
        <5>1. k \in 1..N
          <6> HIDE DEF N
          <6> QED BY <3>2, <4>2
        <5> HIDE DEF N
        <5> QED BY <3>3, <3>5, <5>1
      <4> QED BY <4>1, <4>2
    <3>8. y \o z = [k \in 1..(N + 1) |-> told[r.from + k - 1].text[1]]
      <4> DEFINE c == y \o z
                 d == [k \in 1..(N + 1) |-> told[r.from + k - 1].text[1]]
      <4>1. c \in Seq(Words) /\ Len(c) = N + 1 /\ N + 1 \in Nat
        BY <3>2, <3>5, <3>6
      <4>2. \A k \in 1..(N + 1) : c[k] \in Words
        <5> HIDE DEF c, N
        <5> QED BY <4>1
      <4>3. \A k \in 1..(N + 1) : c[k] = told[r.from + k - 1].text[1]
        BY <3>7
      <4>4. d \in [1..(N + 1) -> Words]
        <5> HIDE DEF c, N
        <5> QED BY <4>2, <4>3
      <4>5. d \in Seq(Words) /\ Len(d) = N + 1 /\ \A k \in 1..(N + 1) : d[k] = c[k]
        <5>1. \A k \in 1..(N + 1) : d[k] = c[k]
          BY <4>3
        <5> HIDE DEF c, d, N
        <5> QED BY <4>1, <4>4, <5>1
      <4> HIDE DEF c, d, N
      <4>6. c = d
        BY <4>1, <4>5, SameSequence
      <4> QED BY <4>6 DEF c, d
    <3> QED BY <3>2, <3>5, <3>8 DEF y, z
  <2>7. q \in Events
    BY <1>0, <2>4, <2>6 DEF Events, Types
  <2>8. q.from = r.from /\ q.to = n /\ q.type = "text" /\ q.text = t /\ q.source = "transcript"
    <3> HIDE DEF t
    <3> QED OBVIOUS
  <2>9. StandsFor(q)
    <3> HIDE DEF q, t
    <3>1. r.from \in 1..n /\ n <= Len(told)
      BY <1>0, <2>4
    <3>2. ASSUME NEW m \in r.from..n PROVE told[m].type = "text"
      <4>1. m = n \/ m \in r.from..(n - 1)
        BY <1>0, <2>4
      <4> QED BY <1>2, <2>4, <4>1
    <3> QED BY <2>6, <2>8, <3>1, <3>2 DEF StandsFor
  <2>10. first \in Seq(Events) /\ Tells(first, 2, r.from - 1)
    <3>1. PICK end : Ends(rows, 2, n - 1, end)
      BY <1>0, TellsEnds
    <3>2. r.from = end[L - 1] + 1 /\ end[L - 1] \in Nat
      BY <2>2, <3>1 DEF Ends
    <3>3. end[L - 1] = r.from - 1
      BY <2>4, <3>2
    <3>4. first \in Seq(Events) /\ Tells(first, 2, end[L - 1])
      BY <1>0, <2>2, <3>1, EndsOfFirst
    <3> QED BY <3>3, <3>4
  <2>11. <<q>> \in Seq(Events) /\ Tells(<<q>>, r.from, n)
    <3> HIDE DEF q
    <3> QED BY <2>7, <2>8, <2>9, OneTells
  <2>12. x = first \o <<q>>
    <3>1. x = [rows EXCEPT ![L].text = @ \o told[n].text, ![L].to = n]
      BY <1>1, <1>2 DEF WithRow, Last
    <3>2. x = [k \in 1..L |-> IF k = L THEN [[r EXCEPT !.text = r.text \o told[n].text] EXCEPT !.to = n] ELSE rows[k]]
      <4> DEFINE x1 == [rows EXCEPT ![L].text = @ \o told[n].text]
                 r1 == [r EXCEPT !.text = r.text \o told[n].text]
      <4>1. x = [x1 EXCEPT ![L].to = n]
        BY <3>1
      <4>2. DOMAIN rows = 1..L
        OBVIOUS
      <4>3. x1 = [k \in 1..L |-> IF k = L THEN r1 ELSE rows[k]]
        <5>1. x1 = [k \in DOMAIN rows |-> IF k = L THEN r1 ELSE rows[k]]
          OBVIOUS
        <5> HIDE DEF x1, r1, L
        <5> QED BY <4>2, <5>1
      <4>4. x1[L] = r1 /\ DOMAIN x1 = 1..L
        <5> HIDE DEF x1, r1, L
        <5> QED BY <2>2, <4>3
      <4>5. x = [k \in 1..L |-> IF k = L THEN [r1 EXCEPT !.to = n] ELSE x1[k]]
        <5> HIDE DEF x1, r1, L, x
        <5>1. x = [k \in DOMAIN x1 |-> IF k = L THEN [x1[L] EXCEPT !.to = n] ELSE x1[k]]
          BY <4>1
        <5> QED BY <4>4, <5>1
      <4>6. \A k \in 1..L : k # L => x1[k] = rows[k]
        <5> HIDE DEF x1, r1, L
        <5> QED BY <4>3
      <4> HIDE DEF x1, r1, L, x
      <4>7. x = [k \in 1..L |-> IF k = L THEN [r1 EXCEPT !.to = n] ELSE rows[k]]
        BY <4>5, <4>6
      <4> QED BY <4>7 DEF r1, L
    <3>3. [[r EXCEPT !.text = r.text \o told[n].text] EXCEPT !.to = n] = q
      <4> DEFINE a == r.text
                 b == r.from
                 c == r.to
                 d == r.source
      <4>1. r = [type |-> "text", text |-> a, from |-> b, to |-> c, source |-> d] /\ d = "transcript"
        BY <2>3, <2>4
      <4> HIDE DEF r, a, b, c, d, t
      <4>2. [[r EXCEPT !.text = t] EXCEPT !.to = n] = [type |-> "text", text |-> t, from |-> b, to |-> n, source |-> d]
        <5> DEFINE y == [r EXCEPT !.text = t]
        <5>1. y = [type |-> "text", text |-> t, from |-> b, to |-> c, source |-> d]
          BY <4>1
        <5> HIDE DEF y
        <5>2. [y EXCEPT !.to = n] = [type |-> "text", text |-> t, from |-> b, to |-> n, source |-> d]
          BY <5>1
        <5> QED BY <5>2 DEF y
      <4>3. [type |-> "text", text |-> t, from |-> b, to |-> n, source |-> d] = q
        BY <4>1 DEF b
      <4>4. [[r EXCEPT !.text = t] EXCEPT !.to = n] = q
        <5> HIDE DEF q
        <5> QED BY <4>2, <4>3
      <4> QED BY <4>4 DEF t
    <3>4. first \in Seq(Events) /\ Len(first) = L - 1 /\ \A k \in 1..(L - 1) : first[k] = rows[k]
      <4> HIDE DEF L
      <4> QED BY <2>2, FirstIs DEF L
    <3> HIDE DEF first, x, q, r, L
    <3> DEFINE y == <<q>>
    <3>5. y \in Seq(Events) /\ Len(y) = 1 /\ y[1] = q
      BY <2>7
    <3> HIDE DEF y
    <3>6. first \o y \in Seq(Events) /\ Len(first \o y) = Len(first) + Len(y)
          /\ (\A k \in 1..Len(first) : (first \o y)[k] = first[k])
          /\ \A k \in 1..Len(y) : (first \o y)[Len(first) + k] = y[k]
      <4>1. first \in Seq(Events) /\ y \in Seq(Events)
        BY <3>4, <3>5
      <4> QED BY <4>1
    <3>7. Len(first \o y) = L
      BY <2>2, <3>4, <3>5, <3>6
    <3>8. ASSUME NEW k \in 1..L PROVE (first \o y)[k] = x[k]
      <4>1. CASE k = L
        <5>1. 1 \in 1..Len(y) /\ Len(first) + 1 = L
          BY <2>2, <3>4, <3>5
        <5>2. (first \o y)[L] = q
          BY <3>5, <3>6, <5>1
        <5> QED BY <3>2, <3>3, <4>1, <5>2
      <4>2. CASE k # L
        <5>1. k \in 1..(L - 1)
          BY <2>2, <4>2
        <5> QED BY <3>2, <3>4, <3>6, <4>2, <5>1
      <4> QED BY <4>1, <4>2
    <3>9. x = first \o y
      <4>1. \A k \in 1..L : rows[k] \in Events
        BY DEF L
      <4>2. x \in [1..L -> Events]
        BY <2>7, <3>2, <3>3, <4>1
      <4>3. x \in Seq(Events) /\ Len(x) = L
        BY <2>2, <4>2
      <4> QED BY <3>6, <3>7, <3>8, <4>3, SameSequence
    <3> QED BY <3>9 DEF y
  <2>13. Tells(first \o <<q>>, 2, n) /\ first \o <<q>> \in Seq(Events)
    <3>1. r.from - 1 \in Nat /\ (r.from - 1) + 1 = r.from
      BY <2>4
    <3> HIDE DEF first, q
    <3> QED BY <1>0, <2>10, <2>11, <3>1, TellsTogether
  <2>14. FromTranscript(x)
    <3>1. \A k \in 1..(L - 1) : first[k] = rows[k] /\ rows[k].source = "transcript"
      BY <2>2 DEF FromTranscript
    <3>2. Len(first) = L - 1
      BY <2>2, FirstIs
    <3> HIDE DEF first, x, q, r, L
    <3> DEFINE y == <<q>>
    <3>3. y \in Seq(Events) /\ Len(y) = 1 /\ y[1] = q
      BY <2>7
    <3> HIDE DEF y
    <3>4. first \o y \in Seq(Events) /\ Len(first \o y) = Len(first) + Len(y)
          /\ (\A k \in 1..Len(first) : (first \o y)[k] = first[k])
          /\ \A k \in 1..Len(y) : (first \o y)[Len(first) + k] = y[k]
      <4>1. first \in Seq(Events) /\ y \in Seq(Events)
        BY <2>10, <3>3
      <4> QED BY <4>1
    <3>5. ASSUME NEW k \in 1..L PROVE (first \o y)[k].source = "transcript"
      <4>1. CASE k = L
        <5>1. 1 \in 1..Len(y) /\ Len(first) + 1 = L
          BY <2>2, <3>2, <3>3
        <5> QED BY <2>8, <3>3, <3>4, <4>1, <5>1
      <4>2. CASE k # L
        <5>1. k \in 1..(L - 1)
          BY <2>2, <4>2
        <5> QED BY <3>1, <3>2, <3>4, <5>1
      <4> QED BY <4>1, <4>2
    <3>6. Len(first \o y) = L
      BY <2>2, <3>2, <3>3, <3>4
    <3> QED BY <2>12, <3>5, <3>6 DEF FromTranscript, y
  <2> QED BY <2>12, <2>13, <2>14
<1>3. CASE ~(told[n].type = "text" /\ r.type = "text")
  <2>1. WithRow(rows, n) = Append(rows, e)
    BY <1>1, <1>3 DEF WithRow, Last
  <2>2. e \in Events /\ StandsFor(e) /\ e.from = n /\ e.to = n /\ e.source = "transcript"
    BY <1>0, EventTells
  <2> HIDE DEF e
  <2>3. <<e>> \in Seq(Events) /\ Tells(<<e>>, n, n)
    BY <2>2, OneTells
  <2>4. Append(rows, e) = rows \o <<e>>
    BY <2>2
  <2>5. Tells(rows \o <<e>>, 2, n) /\ rows \o <<e>> \in Seq(Events)
    <3>1. (n - 1) + 1 = n
      BY <1>0
    <3> QED BY <1>0, <2>3, <3>1, TellsTogether
  <2>6. FromTranscript(Append(rows, e))
    BY <2>2 DEF FromTranscript
  <2> QED BY <2>1, <2>4, <2>5, <2>6
<1> QED BY <1>2, <1>3

(* The rows tell what has been written, but for the beginning of the       *)
(* session.                                                                *)
LEMMA RowsTell ==
    ASSUME ToldTyped, Turns, written \in Nat, written <= Len(told), written # 1
    PROVE  /\ Rows \in Seq(Events) /\ FromTranscript(Rows)
           /\ written = 0 => Rows = <<>>
           /\ written # 0 => Tells(Rows, 2, written)
<1> DEFINE N == written
           S == Seq(Events)
           Body(f) == [n \in 0..N |-> IF n = 0 THEN <<>> ELSE WithRow(f[n - 1], n)]
           Good(s, n) == /\ s \in S /\ FromTranscript(s)
                         /\ n = 0 => s = <<>>
                         /\ n >= 1 => Tells(s, 2, n)
<1>0. N \in Nat /\ Len(told) \in Nat
  BY DEF ToldTyped
<1>1. Good(<<>>, 0)
  BY DEF FromTranscript
<1>2. ASSUME NEW n \in 1..N, NEW s, Good(s, n - 1) PROVE Good(WithRow(s, n), n)
  <2>1. CASE n = 1
    <3>1. told[1].type = "session_initialized"
      <4>1. 1 \in 1..Len(told)
        BY <1>0, <2>1
      <4> QED BY <4>1 DEF Turns
    <3>2. WithRow(s, n) = s
      BY <2>1, <3>1 DEF WithRow
    <3>3. s = <<>>
      BY <1>2, <2>1
    <3>4. Tells(<<>>, 2, 1)
      <4>1. Tells(<<>>, 2, 2 - 1)
        BY NoneTell
      <4>2. 2 - 1 = 1
        OBVIOUS
      <4> QED BY <4>1, <4>2
    <3> QED BY <1>2, <2>1, <3>2, <3>3, <3>4
  <2>2. CASE n # 1
    <3>1. n \in 2..Len(told) /\ n - 1 >= 1
      BY <1>0, <2>2
    <3>2. s \in Seq(Events) /\ Tells(s, 2, n - 1) /\ FromTranscript(s)
      BY <1>2, <3>1
    <3>3. WithRow(s, n) \in Seq(Events) /\ Tells(WithRow(s, n), 2, n) /\ FromTranscript(WithRow(s, n))
      BY <3>1, <3>2, RowTells
    <3>4. n # 0
      BY <3>1
    <3> QED BY <3>3, <3>4
  <2> QED BY <2>1, <2>2
<1>3. PICK step \in [(1..N) \X S -> S] :
         \A n \in 1..N, s \in S : WithRow(s, n) \in S => step[<<n, s>>] = WithRow(s, n)
  <2> DEFINE st == [x \in (1..N) \X S |-> IF WithRow(x[2], x[1]) \in S THEN WithRow(x[2], x[1]) ELSE x[2]]
  <2>1. st \in [(1..N) \X S -> S]
    OBVIOUS
  <2>2. \A n \in 1..N, s \in S : WithRow(s, n) \in S => st[<<n, s>>] = WithRow(s, n)
    OBVIOUS
  <2> HIDE DEF st
  <2> QED BY <2>1, <2>2
<1>4. PICK f \in [0..N -> S] : f[0] = <<>> /\ \A n \in 1..N : f[n] = step[<<n, f[n - 1]>>]
  <2>1. Iterates(N, S, <<>>, step) # {}
    <3>1. <<>> \in S
      OBVIOUS
    <3> HIDE DEF N, S
    <3> QED BY <1>0, <3>1, Recursion
  <2> QED BY <2>1 DEF Iterates
<1> HIDE DEF Good
<1>5. \A s, n : Good(s, n) => s \in S
  BY DEF Good
<1> DEFINE T == {n \in 0..N : Good(f[n], n) /\ (n # 0 => f[n] = WithRow(f[n - 1], n))}
<1>6. 0 \in T
  BY <1>0, <1>1, <1>4
<1>7. ASSUME NEW n \in 1..N, n - 1 \in T PROVE n \in T
  <2>1. Good(f[n - 1], n - 1) /\ f[n - 1] \in S
    BY <1>5, <1>7
  <2>2. Good(WithRow(f[n - 1], n), n)
    BY <1>2, <2>1
  <2>3. WithRow(f[n - 1], n) \in S
    BY <1>5, <2>2
  <2>4. f[n] = WithRow(f[n - 1], n)
    BY <1>3, <1>4, <2>1, <2>3
  <2> QED BY <2>2, <2>4
<1>8. 0..N \subseteq T
  <2> HIDE DEF N, T
  <2> QED BY <1>0, <1>6, <1>7, InductionUpTo
<1>9. f = Body(f)
  <2>1. \A n \in 0..N : f[n] = IF n = 0 THEN <<>> ELSE WithRow(f[n - 1], n)
    BY <1>4, <1>8
  <2> QED BY <2>1
<1> DEFINE rows == CHOOSE g : g = Body(g)
<1>10. rows = Body(rows)
  <2> HIDE DEF Body
  <2> QED BY <1>9
<1>11. Rows = rows[N]
  BY DEF Rows
<1> DEFINE U == {n \in 0..N : rows[n] = f[n]}
<1>12. 0..N \subseteq U
  <2> HIDE DEF rows
  <2>1. rows[0] = <<>> /\ \A n \in 1..N : rows[n] = WithRow(rows[n - 1], n)
    BY <1>0, <1>10
  <2>2. f[0] = <<>> /\ \A n \in 1..N : f[n] = WithRow(f[n - 1], n)
    BY <1>0, <1>9
  <2>3. 0 \in U
    BY <1>0, <2>1, <2>2
  <2>4. \A n \in 1..N : n - 1 \in U => n \in U
    BY <2>1, <2>2
  <2> HIDE DEF N, U
  <2> QED BY <1>0, <2>3, <2>4, InductionUpTo
<1>13. N \in 0..N
  BY <1>0
<1>14. Good(f[N], N) /\ Rows = f[N]
  BY <1>8, <1>11, <1>12, <1>13
<1>15. N # 0 => N >= 1
  BY <1>0
<1> QED BY <1>14, <1>15 DEF Good

FromHub(events) == \A k \in 1..Len(events) : events[k].source = "hub" /\ events[k].from = events[k].to

(* Events of the hub that tell of the conversation tell of one piece each. *)
LEMMA HubPieces ==
    ASSUME NEW live \in Seq(Events), NEW i \in Nat \ {0}, NEW j \in Nat, Tells(live, i, j), FromHub(live)
    PROVE  /\ Len(live) = j - (i - 1) /\ Len(live) \in Nat
           /\ \A k \in 1..Len(live) : live[k].from = (i - 1) + k /\ live[k].to = (i - 1) + k
<1> DEFINE N == Len(live)
<1>1. PICK end : Ends(live, i, j, end)
  BY TellsEnds
<1>2. N \in Nat
  OBVIOUS
<1>3. /\ \A k \in 1..N : live[k].from = end[k - 1] + 1 /\ live[k].to = end[k] /\ live[k].from = live[k].to
      /\ \A k \in 0..N : end[k] \in Nat
      /\ end[0] = i - 1 /\ end[N] = j
  BY <1>1 DEF Ends, FromHub
<1> HIDE DEF N
<1> DEFINE T == {k \in 0..N : end[k] = (i - 1) + k}
<1>4. 0 \in T
  BY <1>2, <1>3
<1>5. ASSUME NEW k \in 1..N, k - 1 \in T PROVE k \in T
  <2>1. end[k - 1] = (i - 1) + (k - 1) /\ k \in 0..N
    BY <1>2, <1>5
  <2>2. end[k] = end[k - 1] + 1
    BY <1>3
  <2> QED BY <2>1, <2>2
<1>6. 0..N \subseteq T
  <2> HIDE DEF T
  <2> QED BY <1>2, <1>4, <1>5, InductionUpTo
<1>7. \A k \in 0..N : end[k] = (i - 1) + k
  BY <1>6
<1>8. \A k \in 1..N : live[k].from = (i - 1) + k /\ live[k].to = (i - 1) + k
  <2> SUFFICES ASSUME NEW k \in 1..N PROVE live[k].from = (i - 1) + k /\ live[k].to = (i - 1) + k
    OBVIOUS
  <2>1. k \in 0..N
    BY <1>2
  <2> QED BY <1>3, <1>7, <2>1
<1>9. N = j - (i - 1)
  <2>1. N \in 0..N
    BY <1>2
  <2> QED BY <1>2, <1>3, <1>7, <2>1
<1> QED BY <1>2, <1>8, <1>9 DEF N

(***************************************************************************)
(* How much of the history the snapshot covers.                            *)
(***************************************************************************)
Starts(history, live) ==
    {h \in PromptsIn(history) :
        LET rest == Signature(From(history, h))
        IN  \E signature \in {Signature(From(live, l)) : l \in PromptsIn(live)} : Covers(signature, rest)}

Lengths(history, live) ==
    {n \in 1..Len(history) : \E l \in DOMAIN live :
        IsPrefix(Keys(From(history, Len(history) - n + 1)), Keys(From(live, l)))}

LEMMA SuffixCoveredBy ==
    ASSUME NEW history, NEW live
    PROVE  SuffixCovered(history, live) =
             IF Starts(history, live) # {} THEN Len(history) - Min(Starts(history, live)) + 1
             ELSE Max({0} \cup Lengths(history, live))
BY DEF SuffixCovered, Starts, Lengths

(* A row of a prompt is a start iff the snapshot has the prompt and does   *)
(* not end before the transcript does.                                     *)
LEMMA StartsAre ==
    ASSUME ToldTyped, NothingRepeated,
           NEW history \in Seq(Events), NEW w \in Nat, Tells(history, 2, w),
           NEW live \in Seq(Events), NEW s \in Nat, NEW u \in Nat, Tells(live, s + 1, u)
    PROVE  /\ \A h \in Starts(history, live) :
                 /\ h \in 1..Len(history) /\ s < history[h].from /\ w <= u /\ s < w
           /\ \A h \in 1..Len(history), l \in 1..Len(live) :
                 history[h].type = "user_prompt" /\ live[l].from = history[h].from /\ w <= u
                    => h \in Starts(history, live)
<1>0. 2 \in Nat \ {0} /\ s + 1 \in Nat \ {0} /\ DOMAIN history = 1..Len(history) /\ DOMAIN live = 1..Len(live)
  OBVIOUS
<1>1. \A h \in 1..Len(history) :
         /\ history[h] \in Events /\ StandsFor(history[h])
         /\ Signature(From(history, h)) = Account(history[h].from, w)
         /\ history[h].from \in 1..Len(told) /\ w \in history[h].from..Len(told)
  BY <1>0, EventsInOrder, FromAccount
<1>2. \A l \in 1..Len(live) :
         /\ live[l] \in Events /\ StandsFor(live[l])
         /\ Signature(From(live, l)) = Account(live[l].from, u) /\ s + 1 <= live[l].from
         /\ live[l].from \in 1..Len(told) /\ u \in live[l].from..Len(told)
  BY <1>0, EventsInOrder, FromAccount
<1>3. ASSUME NEW h \in Starts(history, live)
      PROVE  h \in 1..Len(history) /\ s < history[h].from /\ w <= u /\ s < w
  <2>1. h \in 1..Len(history) /\ history[h].type = "user_prompt"
    BY <1>0 DEF Starts, PromptsIn
  <2>2. PICK l \in 1..Len(live) : Covers(Signature(From(live, l)), Signature(From(history, h)))
    BY <1>0 DEF Starts, PromptsIn
  <2>3. Covers(Account(live[l].from, u), Account(history[h].from, w))
    BY <1>1, <1>2, <2>1, <2>2
  <2>4. told[history[h].from].type = "user_prompt"
    BY <1>1, <2>1, StandsForIs
  <2>5. told[history[h].from].type \notin {"text", "done"}
    BY <2>4
  <2>6. live[l].from = history[h].from /\ w <= u
    BY <1>1, <1>2, <2>1, <2>3, <2>5, AlikeIsSame
  <2>7. s + 1 <= history[h].from /\ history[h].from <= w
    BY <1>1, <1>2, <2>1, <2>6
  <2> QED BY <1>1, <2>1, <2>6, <2>7
<1>4. ASSUME NEW h \in 1..Len(history), NEW l \in 1..Len(live),
             history[h].type = "user_prompt", live[l].from = history[h].from, w <= u
      PROVE  h \in Starts(history, live)
  <2>1. Covers(Account(live[l].from, u), Account(history[h].from, w))
    <3> DEFINE a == history[h].from
    <3>1. a \in 1..Len(told) /\ w \in a..Len(told) /\ u \in a..Len(told) /\ Len(told) \in Nat
      BY <1>1, <1>2, <1>4 DEF ToldTyped
    <3>2. a \in 1..(Len(told) + 1) /\ w \in (a - 1)..Len(told) /\ u \in (a - 1)..Len(told) /\ w >= a
      <4> HIDE DEF a
      <4> QED BY <3>1
    <3>3. Covers(Account(a, u), Account(a, w))
      <4> HIDE DEF a
      <4> QED BY <1>4, <3>2, AccountGrows
    <3> QED BY <1>4, <3>3
  <2>2. Covers(Signature(From(live, l)), Signature(From(history, h)))
    BY <1>1, <1>2, <2>1
  <2>3. live[l].type = "user_prompt"
    <3>1. told[history[h].from].type = history[h].type /\ told[live[l].from].type = live[l].type
      BY <1>1, <1>2, StandsForIs
    <3> QED BY <1>4, <3>1
  <2>4. h \in PromptsIn(history) /\ l \in PromptsIn(live)
    BY <1>0, <1>4, <2>3 DEF PromptsIn
  <2> QED BY <2>2, <2>4 DEF Starts
<1> QED BY <1>3, <1>4

(* When the transcript is not ahead of the snapshot and has something of   *)
(* it, what is covered is all it tells of this daemon's turns.             *)
LEMMA SuffixOfTurns ==
    ASSUME ToldTyped, Turns, NothingRepeated,
           NEW history \in Seq(Events), NEW w \in Nat, Tells(history, 2, w), w >= 2,
           NEW live \in Seq(Events), NEW s \in Nat, NEW u \in Nat, Tells(live, s + 1, u),
           BetweenTurns(s), s < w, w <= u
    PROVE  /\ SuffixCovered(history, live) \in 1..Len(history)
           /\ \A k \in 1..Len(history) :
                 k <= Len(history) - SuffixCovered(history, live) <=> history[k].to <= s
<1> DEFINE q == IF s = 0 THEN 2 ELSE s + 1
           H == Len(history)
<1>0. 2 \in Nat \ {0} /\ s + 1 \in Nat \ {0} /\ H \in Nat
  OBVIOUS
<1>1. /\ \A k \in 1..H : /\ history[k] \in Events /\ StandsFor(history[k])
                         /\ history[k].from \in Nat /\ history[k].to \in Nat
                         /\ 2 <= history[k].from /\ history[k].from <= history[k].to /\ history[k].to <= w
      /\ \A k, l \in 1..H : k < l => history[k].to < history[l].from
      /\ history # <<>> /\ w <= Len(told)
  <2>1. history # <<>>
    <3>1. w # 2 - 1
      OBVIOUS
    <3> QED BY <1>0, <3>1, EventsInOrder
  <2> QED BY <1>0, <2>1, EventsInOrder
<1>2. Len(told) \in Nat /\ u <= Len(told)
  <2>1. live # <<>>
    <3>1. u # (s + 1) - 1
      OBVIOUS
    <3> QED BY <1>0, <3>1, EventsInOrder
  <2> QED BY <1>0, <2>1, EventsInOrder DEF ToldTyped
<1>3. q \in 2..w /\ q \in (s + 1)..u /\ told[q].type = "user_prompt"
  <2>1. q \in 2..w /\ q \in (s + 1)..u
    OBVIOUS
  <2>2. q \in 1..Len(told) /\ (q = 2 \/ (q > 1 /\ q - 1 = s))
    BY <1>1, <2>1
  <2>3. told[q].type = "user_prompt" <=> q = 2 \/ (q > 1 /\ BetweenTurns(q - 1))
    <3> HIDE DEF q
    <3> QED BY <2>2 DEF Turns
  <2> QED BY <2>1, <2>2, <2>3
<1>4. PICK h \in 1..H : history[h].from = q /\ history[h].to = q /\ history[h].type = told[q].type
  <2>1. told[q].type # "text"
    BY <1>3
  <2> HIDE DEF q
  <2> QED BY <1>0, <1>3, <2>1, EventOfPiece, SMTT(30)
<1>5. PICK l \in 1..Len(live) : live[l].from = q /\ live[l].to = q /\ live[l].type = told[q].type
  <2>1. told[q].type # "text"
    BY <1>3
  <2>2. s + 1 \in Nat \ {0} /\ Tells(live, s + 1, u) /\ q \in (s + 1)..u
    BY <1>0, <1>3
  <2> HIDE DEF q
  <2> QED BY <2>1, <2>2, EventOfPiece
<1> DEFINE S == Starts(history, live)
<1>6. h \in S
  BY <1>3, <1>4, <1>5, StartsAre
<1>7. \A x \in S : x \in 1..H /\ s < history[x].from
  BY StartsAre
<1> HIDE DEF S
<1>8. Min(S) \in S /\ \A x \in S : Min(S) <= x
  <2>1. S \subseteq Nat /\ S # {}
    BY <1>6, <1>7
  <2> QED BY <2>1, MinOf
<1>9. Min(S) = h
  <2>1. Min(S) \in 1..H /\ s < history[Min(S)].from /\ Min(S) <= h
    BY <1>6, <1>7, <1>8
  <2>2. ~(Min(S) < h)
    <3> SUFFICES ASSUME Min(S) < h PROVE FALSE
      OBVIOUS
    <3>1. history[Min(S)].to < q /\ 2 <= history[Min(S)].from /\ history[Min(S)].from <= history[Min(S)].to
          /\ history[Min(S)].to \in Nat /\ history[Min(S)].from \in Nat
      BY <1>1, <1>4, <2>1
    <3> QED BY <2>1, <3>1, SMTT(30)
  <2> QED BY <2>1, <2>2
<1>10. SuffixCovered(history, live) = H - h + 1
  <2>1. S # {}
    BY <1>6
  <2> QED BY <1>9, <2>1, SuffixCoveredBy DEF S
<1>11. H - (H - h + 1) = h - 1 /\ H - h + 1 \in 1..H
  BY <1>0
<1>12. ASSUME NEW k \in 1..H PROVE k <= h - 1 <=> history[k].to <= s
  <2>1. history[k].from \in Nat /\ history[k].to \in Nat /\ 2 <= history[k].from /\ history[k].from <= history[k].to
    BY <1>1
  <2>2. k < h => history[k].to <= s
    <3> SUFFICES ASSUME k < h PROVE history[k].to <= s
      OBVIOUS
    <3>1. history[k].to < q
      BY <1>1, <1>4
    <3> QED BY <2>1, <3>1
  <2>3. ~(k < h) => ~(history[k].to <= s)
    <3> SUFFICES ASSUME ~(k < h) PROVE ~(history[k].to <= s)
      OBVIOUS
    <3>1. CASE k = h
      BY <1>4, <3>1
    <3>2. CASE k # h
      <4>1. h < k
        BY <3>2
      <4>2. history[h].to < history[k].from
        BY <1>1, <4>1
      <4> HIDE DEF q
      <4>3. q < history[k].from /\ q \in Nat
        BY <1>3, <1>4, <4>2
      <4>4. s + 1 <= q
        BY <1>3
      <4> QED BY <2>1, <4>3, <4>4
    <3> QED BY <3>1, <3>2
  <2> QED BY <2>2, <2>3
<1> HIDE DEF H
<1>13. \A k \in 1..H : k <= H - SuffixCovered(history, live) <=> history[k].to <= s
  BY <1>10, <1>11, <1>12
<1> QED BY <1>10, <1>11, <1>13 DEF H

(* When it is ahead or has nothing, nothing is covered, unless it ends     *)
(* with the end of a turn and the snapshot has the end of another.         *)
LEMMA SuffixOfNothing ==
    ASSUME ToldTyped, NothingRepeated,
           NEW history \in Seq(Events), NEW w \in Nat, Tells(history, 2, w), w >= 2,
           NEW live \in Seq(Events), NEW s \in Nat, NEW u \in Nat, Tells(live, s + 1, u),
           FromHub(live), w <= s \/ u < w,
           told[w].type = "done" => \A n \in (s + 1)..u : told[n].type # "done"
    PROVE  SuffixCovered(history, live) = 0
<1> DEFINE H == Len(history)
<1>0. 2 \in Nat \ {0} /\ s + 1 \in Nat \ {0} /\ H \in Nat /\ DOMAIN live = 1..Len(live) /\ Len(live) \in Nat
  OBVIOUS
<1>1. Starts(history, live) = {}
  <2> SUFFICES ASSUME NEW h \in Starts(history, live) PROVE FALSE
    OBVIOUS
  <2>1. w <= u /\ s < w
    BY StartsAre
  <2> QED BY <2>1
<1>2. /\ history # <<>> /\ H \in 1..H
      /\ history[H] \in Events /\ StandsFor(history[H]) /\ history[H].to = w
  <2>1. w # 2 - 1
    OBVIOUS
  <2>2. history # <<>>
    BY <1>0, <2>1, EventsInOrder
  <2>3. H \in 1..H
    BY <2>2
  <2> QED BY <1>0, <2>2, <2>3, EventsInOrder
<1>3. Lengths(history, live) = {}
  <2> SUFFICES ASSUME NEW n \in 1..H, NEW l \in 1..Len(live),
                      IsPrefix(Keys(From(history, H - n + 1)), Keys(From(live, l)))
               PROVE  FALSE
    BY <1>0 DEF Lengths
  <2> DEFINE x == From(history, H - n + 1)
             y == From(live, l)
  <2>1. /\ x \in Seq(Events) /\ Len(x) = n /\ x[n] = history[H]
    <3>1. x = SubSeq(history, H - n + 1, H)
      BY DEF From
    <3> DEFINE a == H - n + 1
    <3>a. a \in 1..H /\ H - a + 1 = n
      BY <1>0
    <3>b. SubSeq(history, a, H) \in Seq(Events) /\ Len(SubSeq(history, a, H)) = H - a + 1
          /\ \A k \in 1..(H - a + 1) : SubSeq(history, a, H)[k] = history[a + k - 1]
      <4>1. a \in 1..H
        BY <3>a
      <4> HIDE DEF a
      <4> QED BY <4>1, SMTT(30)
    <3>2. x \in Seq(Events) /\ Len(x) = n
      BY <3>1, <3>a, <3>b
    <3>3. x[n] = history[(H - n + 1) + n - 1]
      <4>1. n \in 1..(H - a + 1)
        BY <3>a
      <4> QED BY <3>1, <3>b, <4>1
    <3>4. (H - n + 1) + n - 1 = H
      BY <1>0
    <3> HIDE DEF x, H
    <3> QED BY <3>2, <3>3, <3>4
  <2>2. /\ y \in Seq(Events) /\ Len(y) = Len(live) - l + 1
        /\ \A k \in 1..(Len(live) - l + 1) : y[k] = live[l + k - 1]
    <3>1. y = SubSeq(live, l, Len(live))
      BY DEF From
    <3> QED BY <1>0, <3>1
  <2> HIDE DEF x, y
  <2>3. Keys(x) \in Seq(Speech) /\ Len(Keys(x)) = n /\ Keys(x)[n] = Key(history[H])
    BY <2>1, KeysAre
  <2>4. Keys(y) \in Seq(Speech) /\ Len(Keys(y)) = Len(y) /\ \A k \in 1..Len(y) : Keys(y)[k] = Key(y[k])
    BY <2>2, KeysAre
  <2>5. Len(Keys(x)) <= Len(Keys(y)) /\ \A k \in 1..Len(Keys(x)) : Keys(x)[k] = Keys(y)[k]
    <3>1. IsPrefix(Keys(x), Keys(y))
      BY DEF x, y
    <3> QED BY <2>3, <2>4, <3>1, IsPrefixIs, ZenonT(40)
  <2> DEFINE m == l + n - 1
  <2>6. n \in 1..Len(y) /\ m \in 1..Len(live) /\ n \in 1..(Len(live) - l + 1)
    <3>1. n <= Len(y)
      <4>1. Len(Keys(x)) = n /\ Len(Keys(y)) = Len(y)
        BY <2>3, <2>4
      <4> QED BY <2>5, <4>1
    <3>2. Len(y) = Len(live) - l + 1
      BY <2>2
    <3>3. n \in Nat /\ 1 <= n /\ l \in Nat /\ 1 <= l /\ Len(live) \in Nat
      <4>1. H \in Nat
        BY <1>0
      <4> HIDE DEF H
      <4> QED BY <4>1
    <3> HIDE DEF H
    <3> QED BY <3>1, <3>2, <3>3, SMTT(30)
  <2>7. Key(history[H]) = Key(live[m])
    <3>1. Keys(x)[n] = Keys(y)[n]
      BY <2>3, <2>5, SMTT(30)
    <3>2. Keys(y)[n] = Key(live[l + n - 1])
      BY <2>2, <2>4, <2>6
    <3> QED BY <2>3, <3>1, <3>2
  <2> DEFINE e == history[H]
             f == live[m]
  <2>8. e.type = f.type /\ e.text = f.text
    <3>1. Key(e).type = e.type /\ Key(e).text = e.text /\ Key(f).type = f.type /\ Key(f).text = f.text
      BY DEF Key
    <3> QED BY <2>7, <3>1
  <2>9. /\ f \in Events /\ StandsFor(f) /\ f.from = f.to /\ f.from \in (s + 1)..u
    <3>1. /\ f \in Events /\ StandsFor(f) /\ f.from \in Nat /\ f.to \in Nat
          /\ s + 1 <= f.from /\ f.from <= f.to /\ f.to <= u
      <4>1. \A k \in 1..Len(live) :
               /\ live[k] \in Events /\ StandsFor(live[k])
               /\ live[k].from \in Nat /\ live[k].to \in Nat
               /\ s + 1 <= live[k].from /\ live[k].from <= live[k].to /\ live[k].to <= u
        BY <1>0, EventsInOrder
      <4>2. m \in 1..Len(live)
        BY <2>6
      <4> HIDE DEF m
      <4> QED BY <4>1, <4>2
    <3>2. f.from = f.to
      BY <2>6 DEF FromHub
    <3> HIDE DEF f
    <3> QED BY <3>1, <3>2
  <2>10. e \in Events /\ StandsFor(e) /\ e.to = w
    BY <1>2
  <2> HIDE DEF e, f
  <2>11. /\ told[e.to].type = e.type /\ told[f.from].type = f.type /\ (e.type # "text" => e.from = e.to)
         /\ e.from \in Nat /\ e.to \in Nat /\ e.from <= e.to /\ f.from \in Nat /\ f.to \in Nat
         /\ 1 <= f.from /\ f.from <= Len(told) /\ 1 <= e.to /\ e.to <= Len(told)
    BY <2>9, <2>10, StandsForIs, SMTT(30)
  <2>12. CASE e.type = "done"
    BY <2>8, <2>9, <2>10, <2>11, <2>12
  <2>13. CASE e.type = "text"
    <3>1. /\ e.text = [k \in 1..(e.to - e.from + 1) |-> told[e.from + k - 1].text[1]]
          /\ f.text = [k \in 1..(f.to - f.from + 1) |-> told[f.from + k - 1].text[1]]
      BY <2>8, <2>9, <2>10, <2>13 DEF StandsFor
    <3>2. f.to - f.from + 1 = 1
      BY <2>9, <2>11
    <3>3. e.to - e.from + 1 = 1
      <4>1. DOMAIN e.text = 1..(e.to - e.from + 1) /\ DOMAIN f.text = 1..1
        BY <3>1, <3>2
      <4>2. 1..(e.to - e.from + 1) = 1..1
        BY <2>8, <4>1
      <4>3. e.to - e.from + 1 \in 1..(e.to - e.from + 1)
        <5>1. e.from \in Nat /\ e.to \in Nat /\ e.from <= e.to
          BY <2>11
        <5> QED BY <5>1, SMTT(30)
      <4> QED BY <4>2, <4>3
    <3>4. e.from = e.to /\ e.from + 1 - 1 = e.to /\ f.from + 1 - 1 = f.from
      <4>1. e.from \in Nat /\ e.to \in Nat /\ f.from \in Nat
        BY <2>11
      <4> QED BY <3>3, <4>1, SMTT(30)
    <3>5. 1 \in 1..1
      OBVIOUS
    <3>6. told[e.to].text[1] = told[f.from].text[1]
      <4>1. e.text[1] = told[e.from + 1 - 1].text[1]
        BY <3>1, <3>3, <3>5
      <4>2. f.text[1] = told[f.from + 1 - 1].text[1]
        BY <3>1, <3>2, <3>5
      <4> QED BY <2>8, <3>4, <4>1, <4>2
    <3>7. /\ told[e.to].type = "text" /\ told[f.from].type = "text"
          /\ e.to \in 1..Len(told) /\ f.from \in 1..Len(told)
      BY <2>8, <2>11, <2>13 DEF ToldTyped
    <3>8. told[e.to].text = told[f.from].text
      <4>1. PICK v \in Words : told[e.to].text = <<v>>
        BY <3>7 DEF ToldTyped
      <4>2. PICK z \in Words : told[f.from].text = <<z>>
        BY <3>7 DEF ToldTyped
      <4>3. v = z
        BY <3>6, <4>1, <4>2
      <4> QED BY <4>1, <4>2, <4>3
    <3>9. told[e.to].type # "done" /\ told[e.to].type = told[f.from].type
      BY <3>7
    <3>10. e.to = f.from
      BY <3>7, <3>8, <3>9, SamePiece
    <3> QED BY <2>9, <2>10, <3>10
  <2>14. CASE e.type \notin {"done", "text"}
    <3>1. told[e.to].text = e.text /\ told[f.from].text = f.text
      BY <2>8, <2>9, <2>10, <2>11, <2>14 DEF StandsFor
    <3>2. e.to \in 1..Len(told) /\ f.from \in 1..Len(told)
      <4>1. Len(told) \in Nat
        BY DEF ToldTyped
      <4> QED BY <2>11, <4>1
    <3>3. told[e.to].type # "done" /\ told[e.to].type = told[f.from].type /\ told[e.to].text = told[f.from].text
      BY <2>8, <2>11, <2>14, <3>1
    <3>4. e.to = f.from
      BY <3>2, <3>3, SamePiece
    <3> QED BY <2>9, <2>10, <3>4
  <2> QED BY <2>12, <2>13, <2>14
<1>4. Max({0} \cup Lengths(history, live)) = 0
  <2>1. {0} \subseteq 0..0 /\ {0} # {} /\ 0 \in Nat
    OBVIOUS
  <2>2. Max({0}) \in {0}
    BY <2>1, MaxOf
  <2> QED BY <1>3, <2>2
<1> QED BY <1>1, <1>4, SuffixCoveredBy

LEMMA SuffixOfEmpty ==
    ASSUME NEW live \in Seq(Events) PROVE SuffixCovered(<<>>, live) = 0
<1> DEFINE s == <<>>
<1>1. s \in Seq(Events) /\ Len(s) = 0 /\ DOMAIN s = {}
  OBVIOUS
<1> HIDE DEF s
<1>2. Starts(s, live) = {}
  BY <1>1 DEF Starts, PromptsIn
<1>3. Lengths(s, live) = {}
  BY <1>1 DEF Lengths
<1>4. Max({0} \cup Lengths(s, live)) = 0
  <2>1. {0} \subseteq 0..0 /\ {0} # {} /\ 0 \in Nat
    OBVIOUS
  <2>2. Max({0}) \in {0}
    BY <2>1, MaxOf
  <2> QED BY <1>3, <2>2
<1>5. SuffixCovered(s, live) = 0
  BY <1>2, <1>4, SuffixCoveredBy
<1> QED BY <1>5 DEF s

(***************************************************************************)
(* What the history and the snapshot make together.                        *)
(***************************************************************************)
Larger(m, n) == IF m >= n THEN m ELSE n

(* What the hub has sent is one piece for each event, and rows do not go   *)
(* beyond n.                                                               *)
Parted(events, n) ==
    \A k \in 1..Len(events) :
       IF events[k].source = "hub" THEN events[k].from = events[k].to ELSE events[k].to <= n

LEMMA PartedParts ==
    ASSUME NEW events \in Seq(Events), NEW n, Parted(events, n), NEW c \in 0..Len(events)
    PROVE  Parted(SubSeq(events, 1, c), n) /\ Parted(From(events, c + 1), n)
<1>1. Parted(SubSeq(events, 1, c), n)
  <2> DEFINE x == SubSeq(events, 1, c)
  <2>1. Len(x) = c /\ \A k \in 1..c : x[k] = events[k] /\ k \in 1..Len(events)
    BY FirstIs
  <2> HIDE DEF x
  <2>2. Parted(x, n)
    BY <2>1 DEF Parted
  <2> QED BY <2>2 DEF x
<1>2. Parted(From(events, c + 1), n)
  <2> DEFINE x == From(events, c + 1)
  <2>1. /\ Len(x) = Len(events) - c
        /\ \A k \in 1..(Len(events) - c) : x[k] = events[c + k] /\ c + k \in 1..Len(events)
    BY RestIs
  <2> HIDE DEF x
  <2>2. Parted(x, n)
    BY <2>1 DEF Parted
  <2> QED BY <2>2 DEF x
<1> QED BY <1>1, <1>2

LEMMA PartedTogether ==
    ASSUME NEW e \in Seq(Events), NEW f \in Seq(Events), NEW n, Parted(e, n), Parted(f, n)
    PROVE  Parted(e \o f, n)
<1> DEFINE x == e \o f
<1>1. /\ \A k \in 1..Len(e) : x[k] = e[k]
      /\ \A k \in 1..Len(f) : x[Len(e) + k] = f[k]
      /\ \A k \in 1..Len(x) : k \in 1..Len(e) \/ (k - Len(e) \in 1..Len(f) /\ Len(e) + (k - Len(e)) = k)
  BY TogetherIs
<1> HIDE DEF x
<1>2. ASSUME NEW k \in 1..Len(x)
      PROVE  IF x[k].source = "hub" THEN x[k].from = x[k].to ELSE x[k].to <= n
  <2>1. CASE k \in 1..Len(e)
    BY <1>1, <2>1 DEF Parted
  <2>2. CASE k - Len(e) \in 1..Len(f) /\ Len(e) + (k - Len(e)) = k
    <3>1. x[k] = f[k - Len(e)]
      BY <1>1, <2>2
    <3> QED BY <2>2, <3>1 DEF Parted
  <2> QED BY <1>1, <2>1, <2>2
<1>3. Parted(x, n)
  BY <1>2 DEF Parted
<1> QED BY <1>3 DEF x

(* A snapshot does not settle the latest turn if that turn goes on.        *)
LEMMA NotSettled ==
    ASSUME ToldTyped, Turns, since \in Nat, NEW u \in Nat, since <= u, u <= Len(told), 1 <= u,
           told[u].type # "done",
           NEW s \in Seq(Events), Tells(s, since + 1, u), FromHub(s)
    PROVE  ~SettlesLatestTurn(s)
<1> DEFINE N == u - since
           dones == {i \in 1..N : s[i].type = "done"}
<1>1. /\ s \in Seq(Events) /\ Tells(s, since + 1, u) /\ Len(s) = N /\ N \in Nat
      /\ \A k \in 1..N : s[k].from = since + k
  <2>1. since + 1 \in Nat \ {0} /\ (since + 1) - 1 = since /\ N \in Nat
    OBVIOUS
  <2> QED BY <2>1, HubPieces
<1>2. \A k \in 1..N : s[k].type = told[since + k].type
  <2>1. \A k \in 1..N : StandsFor(s[k]) /\ s[k] \in Events
    <3>1. since + 1 \in Nat \ {0}
      OBVIOUS
    <3> HIDE DEF N
    <3> QED BY <1>1, <3>1, EventsInOrder
  <2> HIDE DEF N
  <2> QED BY <1>1, <2>1, StandsForIs
<1> SUFFICES ASSUME SettlesLatestTurn(s) PROVE FALSE
  OBVIOUS
<1>3. DOMAIN s = 1..N
  BY <1>1
<1>4. dones # {} /\ \A i \in PromptsIn(s) : \E j \in dones : i < j
  <2> HIDE DEF N
  <2> QED BY <1>3 DEF SettlesLatestTurn
<1>5. PICK p \in dones : \A j \in dones : j <= p
  <2>1. dones \subseteq 0..N
    BY <1>1
  <2> HIDE DEF dones, N
  <2> QED BY <1>1, <1>4, <2>1, Greatest
<1>6. p \in 1..N /\ told[since + p].type = "done"
  BY <1>2, <1>5
<1>7. p # N /\ p + 1 \in 1..N
  <2>1. since + N = u
    BY <1>1
  <2> HIDE DEF N
  <2>2. p # N
    BY <1>6, <2>1
  <2> QED BY <1>1, <1>6, <2>2
<1>8. told[since + (p + 1)].type = "user_prompt"
  <2> DEFINE n == since + (p + 1)
  <2>1. n \in 1..Len(told) /\ n > 1 /\ n - 1 = since + p
    <3>1. N \in Nat /\ since + N = u /\ Len(told) \in Nat /\ p \in Nat
      BY <1>1, <1>6 DEF ToldTyped
    <3> HIDE DEF N
    <3> QED BY <1>6, <1>7, <3>1
  <2>2. BetweenTurns(n - 1)
    BY <1>6, <2>1 DEF BetweenTurns
  <2> HIDE DEF n
  <2>3. told[n].type = "user_prompt"
    BY <2>1, <2>2 DEF Turns
  <2> QED BY <2>3 DEF n
<1>9. p + 1 \in PromptsIn(s)
  <2> HIDE DEF N
  <2> QED BY <1>2, <1>3, <1>7, <1>8 DEF PromptsIn
<1>10. PICK j \in dones : p + 1 < j
  BY <1>4, <1>9
<1>11. j <= p /\ j \in 1..N
  BY <1>5
<1> QED BY <1>6, <1>10, <1>11

(* The answer tells all that the transcript or the snapshot has, each      *)
(* piece once: the transcript may be behind the snapshot, ahead of it, or  *)
(* about other turns; only if it ends with a turn whose end is taken for   *)
(* another's may it be otherwise.                                          *)
LEMMA MergedTells ==
    ASSUME ToldTyped, Turns, NothingRepeated, written \in Nat, since \in Nat, NEW u \in Nat,
           since <= written, written <= Len(told), written # 1,
           since <= u, 2 <= u, u <= Len(told), BetweenTurns(since),
           ~(/\ written # 0 /\ told[written].type = "done"
             /\ \E n \in (since + 1)..u : told[n].type = "done"
             /\ written = since \/ (u < written /\ told[u].type = "done")),
           NEW S \in Seq(Events), Tells(S, since + 1, u), FromHub(S)
    PROVE  /\ MergedHistory(Rows, S) \in Seq(Events)
           /\ \E i \in {1, 2} : Tells(MergedHistory(Rows, S), i, Larger(written, u))
           /\ Parted(MergedHistory(Rows, S), written)
<1> DEFINE w == written
           s == since
           R == Rows
           suffix == SuffixCovered(R, S)
           prefix == PrefixCovered(R, S)
           older == SubSeq(R, 1, Len(R) - suffix)
           m == MergedHistory(R, S)
           Right(x) == /\ x \in Seq(Events) /\ Parted(x, w)
                       /\ \E i \in {1, 2} : Tells(x, i, Larger(w, u))
<1>1. /\ R \in Seq(Events) /\ FromTranscript(R)
      /\ w = 0 => R = <<>>
      /\ w # 0 => Tells(R, 2, w)
  BY RowsTell
<1>2. /\ S \in Seq(Events) /\ Tells(S, s + 1, u) /\ FromHub(S) /\ Len(S) = u - s
      /\ \A k \in 1..(u - s) : S[k].from = s + k
  <2>1. since + 1 \in Nat \ {0} /\ (since + 1) - 1 = since /\ u - since \in Nat
    OBVIOUS
  <2> DEFINE i == since + 1
  <2>2. i \in Nat \ {0} /\ Tells(S, i, u) /\ i - 1 = since
    BY <2>1
  <2> HIDE DEF i
  <2>3. Len(S) = u - (i - 1) /\ \A k \in 1..Len(S) : S[k].from = (i - 1) + k
    BY <2>2, HubPieces
  <2> QED BY <2>2, <2>3
<1>3. m = IF S = <<>> THEN R
          ELSE IF SettlesLatestTurn(S) /\ (R = <<>> \/ suffix > 0) THEN older \o S
          ELSE IF prefix > 0 THEN R \o From(S, prefix + 1)
          ELSE older \o S
  BY DEF MergedHistory
<1> HIDE DEF R, m
<1>4. /\ s + 1 \in Nat \ {0} /\ 2 \in Nat \ {0} /\ Len(told) \in Nat /\ Len(R) \in Nat /\ Len(S) \in Nat
      /\ w \in Nat /\ s \in Nat /\ u - s \in Nat
  BY <1>1, <1>2 DEF ToldTyped
<1>5. Parted(S, w)
  BY <1>2 DEF FromHub, Parted
<1>6. w # 0 => R # <<>> /\ w >= 2 /\ Parted(R, w)
  <2> SUFFICES ASSUME w # 0 PROVE R # <<>> /\ w >= 2 /\ Parted(R, w)
    OBVIOUS
  <2>1. w >= 2 /\ w # 2 - 1
    BY <1>4
  <2>2. R # <<>> /\ \A k \in 1..Len(R) : R[k].to <= w
    BY <1>1, <1>4, <2>1, EventsInOrder
  <2>3. \A k \in 1..Len(R) : R[k].source # "hub"
    BY <1>1 DEF FromTranscript
  <2> QED BY <2>1, <2>2, <2>3 DEF Parted
<1>7. S # <<>> => s < u /\ told[s + 1].type \in {"session_initialized", "user_prompt"}
  <2> SUFFICES ASSUME S # <<>> PROVE s < u /\ told[s + 1].type \in {"session_initialized", "user_prompt"}
    OBVIOUS
  <2>1. s < u
    BY <1>2, <1>4
  <2>2. s + 1 \in 1..Len(told)
    BY <1>4, <2>1
  <2>3. s = 0 \/ told[s].type = "done"
    BY DEF BetweenTurns
  <2>4. CASE s = 0
    BY <2>2, <2>4 DEF Turns
  <2>5. CASE s # 0 /\ told[s].type = "done"
    <3>1. s + 1 > 1 /\ (s + 1) - 1 = s
      BY <1>4, <2>5
    <3>2. BetweenTurns((s + 1) - 1)
      BY <2>5, <3>1 DEF BetweenTurns
    <3> DEFINE n == s + 1
    <3>3. n \in 1..Len(told) /\ n > 1 /\ BetweenTurns(n - 1)
      BY <2>2, <3>1, <3>2
    <3> HIDE DEF n
    <3>4. told[n].type = "user_prompt"
      BY <3>3 DEF Turns
    <3> QED BY <2>1, <3>4 DEF n
  <2> QED BY <2>1, <2>3, <2>4, <2>5
<1>8. /\ \A k \in 1..Len(S) : /\ S[k].from \in Nat /\ S[k].to \in Nat /\ S[k].from = S[k].to
                              /\ s + 1 <= S[k].from /\ S[k].to <= u
  <2>1. \A k \in 1..Len(S) : S[k].from = S[k].to
    BY <1>2 DEF FromHub
  <2>2. \A k \in 1..Len(S) : S[k].from \in Nat /\ S[k].to \in Nat /\ s + 1 <= S[k].from /\ S[k].to <= u
    BY <1>2, <1>4, EventsInOrder
  <2> QED BY <2>1, <2>2
<1>9. w # 0 => /\ prefix \in 0..Len(S)
               /\ \A k \in 1..Len(S) : k <= prefix <=> S[k].to <= w
  <2> SUFFICES ASSUME w # 0
               PROVE  /\ prefix \in 0..Len(S)
                      /\ \A k \in 1..Len(S) : k <= prefix <=> S[k].to <= w
    OBVIOUS
  <2>1. Tells(R, 2, w) /\ w >= 2 /\ 2 \in {1, 2}
    BY <1>1, <1>6
  <2> HIDE DEF w, s
  <2> QED BY <1>1, <1>2, <1>4, <1>7, <2>1, PrefixCoveredIs
<1>10. CASE S = <<>>
  <2>1. u = s
    BY <1>2, <1>4, <1>10
  <2>2. w # 0 /\ Larger(w, u) = w
    BY <1>4, <2>1 DEF Larger
  <2>3. m = R
    BY <1>3, <1>10
  <2>4. Right(R)
    BY <1>1, <1>6, <2>2
  <2> QED BY <2>3, <2>4 DEF R, m
<1>11. CASE S # <<>> /\ w = 0
  <2>1. s = 0 /\ Larger(w, u) = u
    BY <1>4, <1>11 DEF Larger
  <2>2. R = <<>> /\ suffix = 0 /\ prefix = 0
    <3>1. R = <<>>
      BY <1>1, <1>11
    <3> QED BY <1>2, <3>1, SuffixOfEmpty DEF PrefixCovered
  <2>3. older = <<>>
    <3>1. Len(R) - suffix = 0
      BY <2>2
    <3> QED BY <2>2, <3>1
  <2>4. older \o S = S
    <3>1. <<>> \o S = S
      BY <1>2
    <3> HIDE DEF older
    <3> QED BY <2>3, <3>1
  <2>5. m = S
    BY <1>3, <1>11, <2>2, <2>4
  <2>6. Right(S)
    <3>1. Tells(S, 1, u)
      BY <1>2, <2>1
    <3> QED BY <1>2, <1>5, <2>1, <3>1
  <2> QED BY <2>5, <2>6 DEF R, m
<1>12. ASSUME w # 0, S # <<>>, s < w, w <= u PROVE Right(m)
  <2>1. Larger(w, u) = u
    BY <1>4, <1>12 DEF Larger
  <2>2. Tells(R, 2, w) /\ w >= 2 /\ R # <<>> /\ Parted(R, w) /\ prefix \in 0..Len(S)
        /\ (\A k \in 1..Len(S) : k <= prefix <=> S[k].to <= w)
    BY <1>1, <1>6, <1>9, <1>12
  <2>3. /\ suffix \in 1..Len(R)
        /\ \A k \in 1..Len(R) : k <= Len(R) - suffix <=> R[k].to <= s
    <3> HIDE DEF w, s
    <3>1. BetweenTurns(s)
      BY DEF s
    <3> QED BY <1>1, <1>2, <1>4, <1>12, <2>2, <3>1, SuffixOfTurns
  <2>4. prefix > 0
    <3>1. 1 \in 1..Len(S) /\ S[1].from = s + 1
      BY <1>2, <1>4, <1>7, <1>12
    <3>2. S[1].to <= w
      BY <1>4, <1>8, <1>12, <3>1
    <3>3. 1 <= prefix
      BY <2>2, <3>1, <3>2
    <3> QED BY <2>2, <3>3
  <2>5. Right(older \o S)
    <3>1. older \in Seq(Events) /\ Parted(older, w) /\ (s # 0 => Tells(older, 2, s)) /\ (s = 0 => older = <<>>)
      <4> DEFINE c == Len(R) - suffix
      <4>1. c \in 0..Len(R)
        BY <1>4, <2>3
      <4>2. older \in Seq(Events) /\ Parted(older, w)
        <5> HIDE DEF c
        <5> SUFFICES SubSeq(R, 1, c) \in Seq(Events) /\ Parted(SubSeq(R, 1, c), w)
          BY DEF c
        <5> QED BY <1>1, <2>2, <4>1, FirstIs, PartedParts
      <4>3. \A k \in 1..Len(R) : R[k].to \in Nat /\ R[k].from \in Nat /\ 2 <= R[k].from /\ R[k].from <= R[k].to
                                 /\ StandsFor(R[k]) /\ R[k] \in Events
        BY <1>1, <1>4, <2>2, EventsInOrder
      <4>4. CASE s = 0
        <5>1. \A k \in 1..Len(R) : ~(k <= c)
          BY <2>3, <4>3, <4>4, SMTT(30)
        <5>2. c = 0
          <6>1. c # 0 => c \in 1..Len(R) /\ c <= c
            BY <4>1
          <6> HIDE DEF c
          <6> QED BY <5>1, <6>1
        <5>3. SubSeq(R, 1, 0) = <<>>
          BY <1>1
        <5> QED BY <4>2, <4>4, <5>2, <5>3
      <4>5. CASE s # 0
        <5>1. told[s].type = "done"
          BY <4>5 DEF BetweenTurns
        <5>2. ASSUME NEW k \in 1..Len(R) PROVE R[k].to <= s \/ R[k].from > s
          <6> SUFFICES ASSUME R[k].from <= s, s < R[k].to PROVE FALSE
            BY <1>4, <4>3
          <6>1. s \in R[k].from..R[k].to
            BY <1>4, <4>3
          <6>2. told[s].type = R[k].type /\ (R[k].type # "text" => R[k].from = R[k].to)
            BY <4>3, <6>1, StandsForIs
          <6>3. R[k].from = R[k].to
            BY <5>1, <6>2
          <6> QED BY <4>3, <6>3
        <5>3. s >= 2
          <6>1. s # 1
            <7>1. s = 1 => told[s].type = "session_initialized"
              <8>1. 1 \in 1..Len(told)
                BY <1>4, <1>7, <1>12
              <8> QED BY <8>1 DEF Turns
            <7> QED BY <5>1, <7>1
          <6> QED BY <1>4, <4>5, <6>1
        <5>4. Tells(SubSeq(R, 1, c), 2, s)
          <6>1. 2 - 1 <= s /\ s <= w
            BY <1>4, <1>12, <5>3
          <6>2. \A k \in 1..Len(R) : k <= c <=> R[k].to <= s
            BY <2>3
          <6> HIDE DEF c, s, w
          <6> QED BY <1>1, <1>4, <2>2, <4>1, <5>2, <6>1, <6>2, CutAt
        <5> QED BY <4>2, <4>5, <5>4
      <4> QED BY <4>4, <4>5
    <3>2. older \o S \in Seq(Events) /\ Parted(older \o S, w)
      <4> HIDE DEF older
      <4> QED BY <1>2, <1>5, <3>1, PartedTogether, TogetherIs
    <3>3. \E i \in {1, 2} : Tells(older \o S, i, u)
      <4>1. CASE s = 0
        <5>1. older \o S = S
          <6>1. <<>> \o S = S
            BY <1>2
          <6>2. older = <<>>
            BY <3>1, <4>1
          <6> HIDE DEF older
          <6> QED BY <6>1, <6>2
        <5>2. Tells(S, 1, u)
          BY <1>2, <4>1
        <5> QED BY <5>1, <5>2
      <4>2. CASE s # 0
        <5> HIDE DEF older, s, w
        <5>1. Tells(older \o S, 2, u)
          BY <1>2, <1>4, <3>1, <4>2, TellsTogether
        <5> QED BY <5>1
      <4> QED BY <4>1, <4>2
    <3> QED BY <2>1, <3>2, <3>3
  <2>6. Right(R \o From(S, prefix + 1))
    <3>1. From(S, prefix + 1) \in Seq(Events) /\ Tells(From(S, prefix + 1), w + 1, u)
      <4>1. (s + 1) - 1 <= w /\ w <= u
        BY <1>4, <1>12
      <4>2. \A k \in 1..Len(S) : S[k].to <= w \/ S[k].from > w
        BY <1>4, <1>8, SMTT(30)
      <4> HIDE DEF prefix, s, w
      <4> QED BY <1>2, <1>4, <2>2, <4>1, <4>2, CutAt
    <3>2. Parted(From(S, prefix + 1), w)
      <4> HIDE DEF prefix
      <4> QED BY <1>2, <1>5, <2>2, PartedParts
    <3> DEFINE x == From(S, prefix + 1)
    <3> HIDE DEF x
    <3>3. R \o x \in Seq(Events) /\ Tells(R \o x, 2, u) /\ Parted(R \o x, w)
      <4>1. x \in Seq(Events) /\ Tells(x, w + 1, u) /\ Parted(x, w)
        BY <3>1, <3>2 DEF x
      <4> HIDE DEF w, s
      <4> QED BY <1>1, <1>4, <2>2, <4>1, TellsTogether, PartedTogether
    <3> QED BY <2>1, <3>3 DEF x
  <2>7. m = older \o S \/ m = R \o From(S, prefix + 1)
    BY <1>3, <1>12, <2>4
  <2> HIDE DEF Right, older, prefix
  <2> QED BY <2>5, <2>6, <2>7
<1>13. ASSUME w # 0, S # <<>>, w = s PROVE Right(m)
  <2>1. Tells(R, 2, w) /\ w >= 2 /\ R # <<>> /\ Parted(R, w) /\ prefix \in 0..Len(S)
        /\ (\A k \in 1..Len(S) : k <= prefix <=> S[k].to <= w)
    BY <1>1, <1>6, <1>9, <1>13
  <2>2. Larger(w, u) = u
    BY <1>4, <1>7, <1>13 DEF Larger
  <2>3. suffix = 0
    <3>1. told[w].type = "done" => \A n \in (s + 1)..u : told[n].type # "done"
      BY <1>13
    <3>2. w <= s \/ u < w
      BY <1>4, <1>13
    <3> HIDE DEF w, s
    <3> QED BY <1>1, <1>2, <1>4, <2>1, <3>1, <3>2, SuffixOfNothing
  <2>4. prefix = 0
    <3> SUFFICES ASSUME prefix # 0 PROVE FALSE
      OBVIOUS
    <3>1. 1 \in 1..Len(S) /\ 1 <= prefix
      BY <1>4, <2>1
    <3>2. S[1].to <= w
      BY <2>1, <3>1
    <3> QED BY <1>4, <1>8, <1>13, <3>1, <3>2, SMTT(30)
  <2>5. older = R
    <3>1. Len(R) - suffix = Len(R)
      BY <1>4, <2>3
    <3>2. SubSeq(R, 1, Len(R)) = R
      BY <1>1
    <3> QED BY <3>1, <3>2
  <2>6. m = R \o S
    <3>1. ~(suffix > 0) /\ ~(prefix > 0) /\ R # <<>> /\ S # <<>>
      BY <1>13, <2>1, <2>3, <2>4
    <3> HIDE DEF older, suffix, prefix
    <3>2. m = older \o S
      BY <1>3, <3>1
    <3> QED BY <2>5, <3>2
  <2>7. R \o S \in Seq(Events) /\ Tells(R \o S, 2, u) /\ Parted(R \o S, w)
    <3>1. Tells(S, w + 1, u)
      BY <1>2, <1>13
    <3> HIDE DEF w, s
    <3> QED BY <1>1, <1>2, <1>4, <1>5, <2>1, <3>1, TellsTogether, PartedTogether
  <2> QED BY <2>2, <2>6, <2>7
<1>14. ASSUME w # 0, S # <<>>, u < w PROVE Right(m)
  <2>1. Tells(R, 2, w) /\ w >= 2 /\ R # <<>> /\ Parted(R, w) /\ prefix \in 0..Len(S)
        /\ (\A k \in 1..Len(S) : k <= prefix <=> S[k].to <= w)
    BY <1>1, <1>6, <1>9, <1>14
  <2>2. Larger(w, u) = w
    BY <1>4, <1>14 DEF Larger
  <2>3. prefix = Len(S) /\ prefix > 0
    <3>1. Len(S) \in 1..Len(S)
      BY <1>2, <1>4, <1>14
    <3>2. S[Len(S)].to <= w
      BY <1>4, <1>8, <1>14, <3>1
    <3>3. Len(S) <= prefix
      BY <2>1, <3>1, <3>2
    <3> QED BY <1>4, <2>1, <3>1, <3>3
  <2>4. R \o From(S, prefix + 1) = R
    <3>1. From(S, Len(S) + 1) = <<>>
      BY <1>2 DEF From
    <3>2. R \o <<>> = R
      BY <1>1
    <3> QED BY <2>3, <3>1, <3>2
  <2>5. ~(SettlesLatestTurn(S) /\ (R = <<>> \/ suffix > 0))
    <3>1. CASE told[w].type = "done" => \A n \in (s + 1)..u : told[n].type # "done"
      <4>1. w <= s \/ u < w
        BY <1>14
      <4>2. suffix = 0
        <5> HIDE DEF w, s
        <5> QED BY <1>1, <1>2, <1>4, <2>1, <3>1, <4>1, SuffixOfNothing
      <4> QED BY <2>1, <4>2
    <3>2. CASE ~(told[w].type = "done" => \A n \in (s + 1)..u : told[n].type # "done")
      <4>1. told[u].type # "done"
        BY <1>14, <3>2
      <4>2. ~SettlesLatestTurn(S)
        BY <4>1, NotSettled
      <4> QED BY <4>2
    <3> QED BY <3>1, <3>2
  <2>6. m = R
    BY <1>3, <1>14, <2>3, <2>4, <2>5
  <2>7. Right(R)
    BY <1>1, <2>1, <2>2
  <2> QED BY <2>6, <2>7
<1>15. Right(m)
  <2>1. CASE w # 0 /\ S # <<>>
    <3>1. (s < w /\ w <= u) \/ w = s \/ u < w
      BY <1>4
    <3> HIDE DEF Right, w, s
    <3> QED BY <1>12, <1>13, <1>14, <2>1, <3>1
  <2>2. CASE S = <<>>
    <3> QED BY <1>10, <2>2 DEF m, R
  <2>3. CASE S # <<>> /\ w = 0
    BY <1>11, <2>3 DEF m, R
  <2> QED BY <2>1, <2>2, <2>3
<1> QED BY <1>15 DEF m, R

(***************************************************************************)
(* What the answer and the cache make together.                            *)
(***************************************************************************)
LEMMA JsonIs ==
    ASSUME NEW e \in Events
    PROVE  /\ Json(e).type = e.type /\ Json(e).text = e.text /\ Json(e).source = e.source
           /\ e.type = "done" => Json(e) = e
BY EventIs DEF Json, Events

(* An event of the hub is told apart from one that stands for something    *)
(* else by its JSON: two ends of turns by the duration, anything else by   *)
(* the text.                                                               *)
LEMMA JsonDiffers ==
    ASSUME ToldTyped, NothingRepeated, NEW x \in Events, StandsFor(x), NEW r \in Events, StandsFor(r),
           r.source = "hub", r.from = r.to, x.source = "hub" => x.from = x.to, x.to # r.to
    PROVE  Json(x) # Json(r)
<1> SUFFICES ASSUME Json(x) = Json(r) PROVE FALSE
  OBVIOUS
<1>1. x.type = r.type /\ x.text = r.text /\ x.source = r.source
  <2>1. /\ Json(x).type = x.type /\ Json(x).text = x.text /\ Json(x).source = x.source
        /\ Json(r).type = r.type /\ Json(r).text = r.text /\ Json(r).source = r.source
    BY JsonIs
  <2> QED BY <2>1
<1>2. CASE r.type = "done"
  <2>1. Json(x) = x /\ Json(r) = r
    BY <1>1, <1>2, JsonIs
  <2> QED BY <2>1
<1>3. CASE r.type # "done"
  <2>1. x.from = x.to
    BY <1>1
  <2>2. x.to \in 1..Len(told) /\ told[x.to].type = x.type /\ told[x.to].text = x.text
    BY <2>1, TextOfPiece
  <2>3. r.to \in 1..Len(told) /\ told[r.to].type = r.type /\ told[r.to].text = r.text
    BY TextOfPiece
  <2>4. /\ told[x.to].type = told[r.to].type /\ told[x.to].text = told[r.to].text
        /\ told[x.to].type # "done"
    BY <1>1, <1>3, <2>2, <2>3
  <2>5. x.to = r.to
    BY <2>2, <2>3, <2>4, SamePiece
  <2> QED BY <2>5
<1> QED BY <1>2, <1>3

(* Of an answer of comparable events all are kept.                         *)
Joined(kept, current) ==
    LET rest == From(current, PrefixCovered(kept, current) + 1)
        merged[n \in 0..Len(rest)] ==
            IF n = 0 THEN kept ELSE WithEvent(merged[n - 1], rest[n])
    IN  merged[Len(rest)]

LEMMA KeptIs ==
    ASSUME NEW events \in Seq(AllEvents)
    PROVE  /\ Kept(events) \in Seq(AllEvents)
           /\ Comparable(events) => Kept(events) = events
<1> DEFINE N == Len(events)
           S == Seq(AllEvents)
           Next1(s, n) == IF Omitted(events[n]) THEN s ELSE Append(s, events[n])
           Body(f) == [n \in 0..N |-> IF n = 0 THEN <<>>
                                     ELSE IF Omitted(events[n]) THEN f[n - 1] ELSE Append(f[n - 1], events[n])]
<1>1. N \in Nat /\ DOMAIN events = 1..N /\ <<>> \in S /\ \A n \in 1..N : events[n] \in AllEvents
  OBVIOUS
<1>2. \A s \in S, n \in 1..N : Next1(s, n) \in S
  <2> SUFFICES ASSUME NEW s \in S, NEW n \in 1..N PROVE Next1(s, n) \in S
    OBVIOUS
  <2>1. Append(s, events[n]) \in S
    BY <1>1
  <2> HIDE DEF S
  <2> QED BY <2>1
<1> DEFINE step == [x \in (1..N) \X S |-> Next1(x[2], x[1])]
<1>3. step \in [(1..N) \X S -> S]
  <2> HIDE DEF S, N, Next1
  <2> QED BY <1>2
<1>4. \A n \in 1..N, s \in S : step[<<n, s>>] = Next1(s, n)
  <2> HIDE DEF S, N, Next1
  <2> QED OBVIOUS
<1> HIDE DEF step
<1>5. PICK f \in [0..N -> S] : f[0] = <<>> /\ \A n \in 1..N : f[n] = step[<<n, f[n - 1]>>]
  <2>1. Iterates(N, S, <<>>, step) # {}
    <3> HIDE DEF S, N
    <3> QED BY <1>1, <1>3, Recursion
  <2> QED BY <2>1 DEF Iterates
<1>6. \A n \in 1..N : f[n] = Next1(f[n - 1], n)
  <2> SUFFICES ASSUME NEW n \in 1..N PROVE f[n] = Next1(f[n - 1], n)
    OBVIOUS
  <2> HIDE DEF S, N, Next1
  <2>1. n - 1 \in 0..N
    BY <1>1
  <2>2. f[n - 1] \in S
    BY <2>1
  <2> QED BY <1>4, <1>5, <2>2
<1>7. f = Body(f)
  <2>1. \A n \in 0..N : f[n] = IF n = 0 THEN <<>>
                               ELSE IF Omitted(events[n]) THEN f[n - 1] ELSE Append(f[n - 1], events[n])
    <3> HIDE DEF S, N
    <3>1. N \in Nat /\ f[0] = <<>>
      BY <1>1, <1>5
    <3>2. \A n \in 0..N : n = 0 \/ n \in 1..N
      BY <3>1
    <3>3. \A n \in 1..N : n # 0
      BY <3>1
    <3> QED BY <1>6, <3>1, <3>2, <3>3, Zenon
  <2> HIDE DEF S, N
  <2> QED BY <2>1
<1> DEFINE kept == CHOOSE g : g = Body(g)
<1>8. kept = Body(kept)
  <2> HIDE DEF Body
  <2> QED BY <1>7
<1>9. Kept(events) = kept[N]
  BY DEF Kept
<1> HIDE DEF kept
<1>10. kept[0] = <<>> /\ \A n \in 1..N : kept[n] = Next1(kept[n - 1], n)
  <2>1. \A n \in 0..N : kept[n] = IF n = 0 THEN <<>>
                                  ELSE IF Omitted(events[n]) THEN kept[n - 1] ELSE Append(kept[n - 1], events[n])
    <3> HIDE DEF S, N
    <3> QED BY <1>8
  <2> HIDE DEF S, N
  <2>2. 0 \in 0..N /\ \A n \in 1..N : n \in 0..N /\ n # 0
    BY <1>1
  <2> QED BY <2>1, <2>2
<1> DEFINE T == {n \in 0..N : kept[n] \in S /\ (Comparable(events) => kept[n] = SubSeq(events, 1, n))}
<1>11. 0 \in T
  <2>1. SubSeq(events, 1, 0) = <<>>
    OBVIOUS
  <2>2. 0 \in 0..N /\ <<>> \in S /\ kept[0] = <<>>
    BY <1>1, <1>10
  <2> HIDE DEF S, N
  <2> QED BY <2>1, <2>2, Zenon
<1>12. ASSUME NEW n \in 1..N, n - 1 \in T PROVE n \in T
  <2>1. kept[n] = Next1(kept[n - 1], n) /\ n \in 0..N
    BY <1>1, <1>10
  <2>2. kept[n] \in S
    <3>1. kept[n - 1] \in S
      BY <1>12
    <3> HIDE DEF S, N, Next1, T
    <3> QED BY <1>2, <2>1, <3>1
  <2>3. ASSUME Comparable(events) PROVE kept[n] = SubSeq(events, 1, n)
    <3>1. ~Omitted(events[n])
      BY <1>1, <2>3 DEF Comparable, LiveOnly, Omitted
    <3>2. kept[n] = Append(SubSeq(events, 1, n - 1), events[n])
      <4>1. kept[n - 1] = SubSeq(events, 1, n - 1)
        BY <1>12, <2>3
      <4> HIDE DEF S, N, T
      <4> QED BY <2>1, <3>1, <4>1
    <3>3. Append(SubSeq(events, 1, n - 1), events[n]) = SubSeq(events, 1, n)
      <4>1. Append(<<>> \o SubSeq(events, 1, n - 1), events[n]) = <<>> \o SubSeq(events, 1, n)
        BY <1>1, OneMore
      <4>2. SubSeq(events, 1, n - 1) \in S /\ SubSeq(events, 1, n) \in S
        <5>1. n - 1 \in 0..Len(events) /\ n \in 0..Len(events)
          BY <1>1
        <5> QED BY <5>1, FirstIs
      <4>3. \A x \in S : <<>> \o x = x
        OBVIOUS
      <4> HIDE DEF S
      <4> QED BY <4>1, <4>2, <4>3
    <3> HIDE DEF N
    <3> QED BY <3>2, <3>3
  <2> HIDE DEF S, N
  <2> QED BY <2>1, <2>2, <2>3
<1>13. N \in T
  <2>1. 0..N \subseteq T
    <3> HIDE DEF T, N
    <3> QED BY <1>1, <1>11, <1>12, InductionUpTo
  <2>2. N \in 0..N
    BY <1>1
  <2> HIDE DEF T
  <2> QED BY <2>1, <2>2
<1>14. SubSeq(events, 1, N) = events
  OBVIOUS
<1> HIDE DEF N
<1> QED BY <1>9, <1>13, <1>14

LEMMA HydratedIs ==
    ASSUME NEW events, NEW current
    PROVE  Hydrated(events, current) = Joined(Kept(events), current)
BY DEF Hydrated, Joined

(* If the answer tells up to M, and what the cache tells begins by there   *)
(* and goes on, they tell together what the cache does: what the answer    *)
(* covers is left out, and nothing of the rest is taken for something      *)
(* already there.                                                          *)
LEMMA HydratedTells ==
    ASSUME ToldTyped, Turns, NothingRepeated,
           NEW events \in Seq(Events), NEW i \in {1, 2}, NEW M \in Nat, M >= 2, Tells(events, i, M),
           NEW n1 \in Nat, Parted(events, n1),
           NEW current \in Seq(Events), NEW a \in Nat \ {0}, NEW d \in Nat, Tells(current, a, d),
           NEW n2 \in Nat, Parted(current, n2), n2 <= M, a - 1 <= M, M <= d,
           current # <<>> => told[a].type \in {"session_initialized", "user_prompt"}
    PROVE  /\ Hydrated(events, current) \in Seq(Events)
           /\ Tells(Hydrated(events, current), i, d)
           /\ Parted(Hydrated(events, current), n1)
<1> DEFINE c == PrefixCovered(events, current)
           rest == From(current, c + 1)
           N == Len(rest)
           H == Len(events)
<1>1. /\ c \in 0..Len(current)
      /\ \A k \in 1..Len(current) : k <= c <=> current[k].to <= M
  BY PrefixCoveredIs
<1> HIDE DEF c
<1>2. /\ rest \in Seq(Events) /\ N = Len(current) - c
      /\ \A k \in 1..(Len(current) - c) : rest[k] = current[c + k] /\ c + k \in 1..Len(current)
  BY <1>1, RestIs
<1>3. \A k \in 1..Len(current) : /\ current[k] \in Events /\ current[k].from \in Nat /\ current[k].to \in Nat
  BY EventsInOrder
<1>4. \A k \in 1..Len(current) : current[k].to > M => current[k].source = "hub" /\ current[k].from = current[k].to
  BY <1>3 DEF Parted
<1>5. Tells(rest, M + 1, d)
  <2>1. \A k \in 1..Len(current) : current[k].to <= M \/ current[k].from > M
    BY <1>3, <1>4
  <2> QED BY <1>1, <2>1, CutAt
<1>6. \A k \in 1..N : /\ rest[k] \in Events /\ StandsFor(rest[k]) /\ rest[k].from \in Nat /\ rest[k].to \in Nat
                      /\ M + 1 <= rest[k].from /\ rest[k].from <= rest[k].to
  <2>1. M + 1 \in Nat \ {0}
    OBVIOUS
  <2> HIDE DEF rest
  <2> QED BY <1>2, <1>5, <2>1, EventsInOrder
<1>7. \A k, l \in 1..N : k < l => rest[k].to < rest[l].from
  <2>1. M + 1 \in Nat \ {0}
    OBVIOUS
  <2> HIDE DEF rest
  <2> QED BY <1>2, <1>5, <2>1, EventsInOrder
<1>8. \A k \in 1..N : rest[k].source = "hub" /\ rest[k].from = rest[k].to
  <2> SUFFICES ASSUME NEW k \in 1..N PROVE rest[k].source = "hub" /\ rest[k].from = rest[k].to
    OBVIOUS
  <2>1. rest[k] = current[c + k] /\ c + k \in 1..Len(current)
    BY <1>2
  <2> HIDE DEF rest, N
  <2>2. rest[k].to > M
    BY <1>6, SMTT(30)
  <2> QED BY <1>4, <2>1, <2>2
<1>9. H \in Nat /\ N \in Nat
  BY <1>2
<1>10. \A k \in 1..H : events[k] \in Events /\ StandsFor(events[k]) /\ events[k].to \in Nat /\ events[k].to <= M
                       /\ (events[k].source = "hub" => events[k].from = events[k].to)
  <2>1. i \in Nat \ {0}
    OBVIOUS
  <2>2. \A k \in 1..H : events[k] \in Events /\ StandsFor(events[k]) /\ events[k].to \in Nat /\ events[k].to <= M
    BY <2>1, EventsInOrder
  <2> QED BY <2>2 DEF Parted
<1> HIDE DEF rest, N, H
<1> DEFINE f == [n \in 0..N |-> events \o SubSeq(rest, 1, n)]
           Body(g) == [n \in 0..N |-> IF n = 0 THEN events ELSE WithEvent(g[n - 1], rest[n])]
<1>11. f[0] = events
  <2>1. SubSeq(rest, 1, 0) = <<>>
    BY <1>2
  <2>2. events \o <<>> = events
    OBVIOUS
  <2>3. 0 \in 0..N
    BY <1>9
  <2> QED BY <2>1, <2>2, <2>3
<1>12. ASSUME NEW n \in 1..N PROVE f[n] = WithEvent(f[n - 1], rest[n])
  <2> DEFINE first == SubSeq(rest, 1, n - 1)
             x == events \o first
  <2>1. f[n] = events \o SubSeq(rest, 1, n) /\ f[n - 1] = x
    <3>1. \A m \in 0..N : f[m] = events \o SubSeq(rest, 1, m)
      OBVIOUS
    <3>2. n \in 0..N /\ n - 1 \in 0..N
      BY <1>9
    <3> HIDE DEF f
    <3> QED BY <3>1, <3>2
  <2>2. /\ first \in Seq(Events) /\ Len(first) = n - 1 /\ \A k \in 1..(n - 1) : first[k] = rest[k]
    <3>1. n - 1 \in 0..Len(rest)
      BY <1>9 DEF N
    <3> QED BY <1>2, <3>1, FirstIs
  <2> HIDE DEF first
  <2>3. /\ x \in Seq(Events)
        /\ Len(x) = H + (n - 1)
        /\ \A k \in 1..H : x[k] = events[k]
        /\ \A k \in 1..(n - 1) : x[H + k] = first[k]
        /\ \A k \in 1..Len(x) : k \in 1..H \/ (k - H \in 1..(n - 1) /\ H + (k - H) = k)
    <3>1. /\ x \in Seq(Events) /\ Len(x) = Len(events) + Len(first)
          /\ \A k \in 1..Len(events) : x[k] = events[k]
          /\ \A k \in 1..Len(first) : x[Len(events) + k] = first[k]
          /\ \A k \in 1..Len(x) : \/ k \in 1..Len(events)
                                 \/ (k - Len(events) \in 1..Len(first) /\ Len(events) + (k - Len(events)) = k)
      <4>1. events \in Seq(Events) /\ first \in Seq(Events)
        BY <2>2
      <4> HIDE DEF N, H
      <4> QED BY <4>1, TogetherIs
    <3> HIDE DEF x
    <3> QED BY <2>2, <3>1 DEF H
  <2> HIDE DEF x
  <2>4. ASSUME NEW k \in 1..Len(x) PROVE Json(x[k]) # Json(rest[n])
    <3>1. CASE k \in 1..H
      <4>1. x[k] = events[k]
        BY <2>3, <3>1
      <4>2. events[k] \in Events /\ StandsFor(events[k]) /\ events[k].to \in Nat /\ events[k].to <= M
            /\ (events[k].source = "hub" => events[k].from = events[k].to)
        BY <1>10, <3>1
      <4>3. rest[n] \in Events /\ StandsFor(rest[n]) /\ rest[n].source = "hub" /\ rest[n].from = rest[n].to
            /\ rest[n].from \in Nat /\ M + 1 <= rest[n].from
        BY <1>6, <1>8
      <4>4. events[k].to # rest[n].to
        BY <4>2, <4>3, SMTT(30)
      <4> QED BY <4>1, <4>2, <4>3, <4>4, JsonDiffers
    <3>2. CASE k - H \in 1..(n - 1) /\ H + (k - H) = k
      <4> DEFINE l == k - H
      <4>1. l \in 1..(n - 1) /\ l \in 1..N /\ l < n
        BY <1>9, <3>2, SMTT(30)
      <4>2. x[k] = rest[l]
        <5>1. x[H + l] = first[l]
          BY <2>3, <4>1
        <5>2. H + l = k
          BY <3>2
        <5> HIDE DEF l
        <5> QED BY <2>2, <4>1, <5>1, <5>2
      <4> HIDE DEF l
      <4>3. rest[n] \in Events /\ StandsFor(rest[n]) /\ rest[n].source = "hub" /\ rest[n].from = rest[n].to
            /\ rest[n].from \in Nat
        BY <1>6, <1>8
      <4>4. rest[l] \in Events /\ StandsFor(rest[l]) /\ rest[l].source = "hub" /\ rest[l].from = rest[l].to
            /\ rest[l].to \in Nat
        BY <1>6, <1>8, <4>1
      <4>5. rest[l].to # rest[n].to
        <5>1. rest[l].to < rest[n].from
          BY <1>7, <4>1
        <5> QED BY <4>3, <4>4, <5>1
      <4> QED BY <4>2, <4>3, <4>4, <4>5, JsonDiffers
    <3> QED BY <2>3, <3>1, <3>2
  <2>5. WithEvent(x, rest[n]) = Append(x, rest[n])
    <3>1. DOMAIN x = 1..Len(x)
      BY <2>3
    <3> QED BY <2>4, <3>1 DEF WithEvent
  <2>6. Append(x, rest[n]) = events \o SubSeq(rest, 1, n)
    <3>1. Append(events \o SubSeq(rest, 1, n - 1), rest[n]) = events \o SubSeq(rest, 1, n)
      BY <1>2, OneMore DEF N
    <3> QED BY <3>1 DEF x, first
  <2> HIDE DEF f
  <2> QED BY <2>1, <2>5, <2>6
<1>13. f = Body(f)
  <2>1. \A n \in 0..N : f[n] = IF n = 0 THEN events ELSE WithEvent(f[n - 1], rest[n])
    <3> HIDE DEF f
    <3> QED BY <1>9, <1>11, <1>12
  <2>2. f = [n \in 0..N |-> f[n]]
    OBVIOUS
  <2> HIDE DEF f
  <2> QED BY <2>1, <2>2
<1> DEFINE merged == CHOOSE g : g = Body(g)
<1>14. merged = Body(merged)
  <2> HIDE DEF Body, f
  <2> QED BY <1>13
<1>15. Hydrated(events, current) = merged[N]
  <2>1. Kept(events) = events
    BY AllComparable, KeptIs
  <2>2. Hydrated(events, current) = Joined(events, current)
    BY <2>1, HydratedIs
  <2>3. Joined(events, current) = merged[N]
    BY DEF Joined, N, rest, c
  <2> QED BY <2>2, <2>3
<1> HIDE DEF f
<1> DEFINE U == {n \in 0..N : merged[n] = f[n]}
<1>16. 0..N \subseteq U
  <2> HIDE DEF merged
  <2>1. merged[0] = events /\ \A n \in 1..N : merged[n] = WithEvent(merged[n - 1], rest[n])
    BY <1>9, <1>14, SMTT(30)
  <2>2. 0 \in U
    BY <1>9, <1>11, <2>1
  <2>3. \A n \in 1..N : n - 1 \in U => n \in U
    BY <1>12, <2>1
  <2> HIDE DEF U
  <2> QED BY <1>9, <2>2, <2>3, InductionUpTo
<1>17. Hydrated(events, current) = events \o rest
  <2>1. N \in 0..N
    BY <1>9
  <2>2. Hydrated(events, current) = f[N]
    <3> HIDE DEF merged
    <3> QED BY <1>15, <1>16, <2>1
  <2>3. SubSeq(rest, 1, N) = rest
    BY <1>2 DEF N
  <2> QED BY <2>1, <2>2, <2>3 DEF f
<1>18. events \o rest \in Seq(Events) /\ Tells(events \o rest, i, d)
  <2>1. i \in Nat \ {0}
    OBVIOUS
  <2> QED BY <1>2, <1>5, <2>1, TellsTogether
<1>19. Parted(events \o rest, n1)
  <2>1. Parted(rest, n1)
    BY <1>8 DEF Parted, N
  <2> QED BY <1>2, <2>1, PartedTogether
<1> QED BY <1>17, <1>18, <1>19

(***************************************************************************)
(* Whatever is merged, the result is a sequence of events.                 *)
(***************************************************************************)
LEMMA PrefixRange ==
    ASSUME NEW X, NEW history \in Seq(X), NEW live \in Seq(X)
    PROVE  PrefixCovered(history, live) \in 0..Len(live)
<1>1. CASE history = <<>> \/ live = <<>>
  BY <1>1 DEF PrefixCovered
<1>2. CASE ~(history = <<>> \/ live = <<>>)
  <2> DEFINE L == Len(live)
             lead == IF /\ Head(live).type = "session_initialized"
                        /\ Head(history).type # "session_initialized"
                     THEN 1 ELSE 0
             parts == {Signature(From(history, h)) : h \in DOMAIN history}
             ends == {n \in (lead + 1)..L :
                         LET start == Signature(SubSeq(live, lead + 1, n))
                         IN  \E part \in parts : Covers(part, start)}
             T == {IF lead = L THEN lead ELSE 0} \cup ends
  <2>1. PrefixCovered(history, live) = Max(T)
    BY <1>2 DEF PrefixCovered
  <2>2. lead \in {0, 1} /\ L \in Nat /\ L >= 1
    BY <1>2
  <2> HIDE DEF lead, parts, L
  <2>3. T \subseteq 0..L /\ T # {}
    BY <2>2
  <2> HIDE DEF T
  <2>4. Max(T) \in T
    BY <2>2, <2>3, MaxOf
  <2> QED BY <2>1, <2>3, <2>4 DEF L
<1> QED BY <1>1, <1>2

LEMMA SuffixRange ==
    ASSUME NEW X, NEW history \in Seq(X), NEW live \in Seq(X)
    PROVE  SuffixCovered(history, live) \in 0..Len(history)
<1> DEFINE H == Len(history)
<1>0. H \in Nat /\ DOMAIN history = 1..H
  OBVIOUS
<1>1. CASE Starts(history, live) # {}
  <2> DEFINE T == Starts(history, live)
  <2>1. T \subseteq 1..H
    BY <1>0 DEF Starts, PromptsIn
  <2>2. T \subseteq Nat /\ T # {}
    BY <1>1, <2>1
  <2> HIDE DEF T
  <2>3. Min(T) \in T
    BY <2>2, MinOf
  <2>4. H - Min(T) + 1 \in 0..H
    <3> DEFINE x == Min(T)
    <3>1. x \in 1..H
      BY <2>1, <2>3
    <3> HIDE DEF x, H
    <3>2. H - x + 1 \in 0..H
      BY <1>0, <3>1
    <3> QED BY <3>2 DEF x
  <2> QED BY <1>1, <2>4, SuffixCoveredBy DEF T
<1>2. CASE Starts(history, live) = {}
  <2> DEFINE T == {0} \cup Lengths(history, live)
  <2>1. T \subseteq 0..H /\ T # {}
    BY <1>0 DEF Lengths
  <2> HIDE DEF T
  <2>2. Max(T) \in T
    BY <1>0, <2>1, MaxOf
  <2> QED BY <1>2, <2>1, <2>2, SuffixCoveredBy DEF T
<1> QED BY <1>1, <1>2

LEMMA MergedType ==
    ASSUME NEW X, NEW history \in Seq(X), NEW snapshot \in Seq(X)
    PROVE  MergedHistory(history, snapshot) \in Seq(X)
<1> DEFINE suffix == SuffixCovered(history, snapshot)
           prefix == PrefixCovered(history, snapshot)
           c == Len(history) - suffix
           older == SubSeq(history, 1, c)
           newer == From(snapshot, prefix + 1)
<1>1. older \in Seq(X)
  <2>1. suffix \in 0..Len(history) /\ Len(history) \in Nat
    BY SuffixRange
  <2> HIDE DEF suffix
  <2>2. c \in 0..Len(history)
    BY <2>1
  <2> HIDE DEF c
  <2> QED BY <2>2, FirstIs
<1>2. newer \in Seq(X)
  <2>1. prefix \in 0..Len(snapshot)
    BY PrefixRange
  <2> HIDE DEF prefix
  <2> QED BY <2>1, RestIs
<1>3. /\ older \o snapshot \in Seq(X)
      /\ history \o newer \in Seq(X)
  <2> HIDE DEF older, newer
  <2> QED BY <1>1, <1>2
<1>4. \/ MergedHistory(history, snapshot) = history
      \/ MergedHistory(history, snapshot) = older \o snapshot
      \/ MergedHistory(history, snapshot) = history \o newer
  BY DEF MergedHistory
<1> HIDE DEF older, newer
<1> QED BY <1>3, <1>4

LEMMA JoinedType ==
    ASSUME NEW X, NEW events \in Seq(X), NEW current \in Seq(X)
    PROVE  Joined(events, current) \in Seq(X)
<1> DEFINE S == Seq(X)
           rest == From(current, PrefixCovered(events, current) + 1)
           N == Len(rest)
           Body(g) == [n \in 0..N |-> IF n = 0 THEN events ELSE WithEvent(g[n - 1], rest[n])]
<1>1. rest \in S /\ N \in Nat /\ \A n \in 1..N : rest[n] \in X
  <2> DEFINE c == PrefixCovered(events, current)
  <2>1. c \in 0..Len(current)
    BY PrefixRange
  <2> HIDE DEF c
  <2>2. From(current, c + 1) \in Seq(X)
    BY <2>1, RestIs
  <2>3. rest \in S
    BY <2>2 DEF c
  <2> HIDE DEF rest
  <2> QED BY <2>3
<1> HIDE DEF rest, N
<1>2. \A s \in S, n \in 1..N : WithEvent(s, rest[n]) \in S
  <2> SUFFICES ASSUME NEW s \in S, NEW n \in 1..N PROVE WithEvent(s, rest[n]) \in S
    OBVIOUS
  <2>1. Append(s, rest[n]) \in S
    BY <1>1
  <2> QED BY <2>1 DEF WithEvent
<1> DEFINE step == [x \in (1..N) \X S |-> WithEvent(x[2], rest[x[1]])]
<1>3. step \in [(1..N) \X S -> S]
  <2> HIDE DEF S
  <2> QED BY <1>2
<1>4. \A n \in 1..N, s \in S : step[<<n, s>>] = WithEvent(s, rest[n])
  <2> HIDE DEF S
  <2> QED OBVIOUS
<1> HIDE DEF step
<1>5. PICK f \in [0..N -> S] : f[0] = events /\ \A n \in 1..N : f[n] = step[<<n, f[n - 1]>>]
  <2>1. Iterates(N, S, events, step) # {}
    <3>1. events \in S
      OBVIOUS
    <3> HIDE DEF S
    <3> QED BY <1>1, <1>3, <3>1, Recursion
  <2> QED BY <2>1 DEF Iterates
<1> HIDE DEF S
<1>6. \A n \in 1..N : f[n] = WithEvent(f[n - 1], rest[n])
  <2> SUFFICES ASSUME NEW n \in 1..N PROVE f[n] = WithEvent(f[n - 1], rest[n])
    OBVIOUS
  <2>1. n - 1 \in 0..N
    BY <1>1
  <2>2. f[n - 1] \in S
    BY <2>1
  <2> QED BY <1>4, <1>5, <2>2
<1>7. f = Body(f)
  <2>1. \A n \in 0..N : f[n] = IF n = 0 THEN events ELSE WithEvent(f[n - 1], rest[n])
    BY <1>1, <1>5, <1>6
  <2> QED BY <2>1
<1> DEFINE merged == CHOOSE g : g = Body(g)
<1>8. merged = Body(merged)
  <2> HIDE DEF Body
  <2> QED BY <1>7
<1>9. Joined(events, current) = merged[N]
  BY DEF Joined, N, rest
<1> DEFINE U == {n \in 0..N : merged[n] \in S}
<1>10. 0..N \subseteq U
  <2> HIDE DEF merged
  <2>1. merged[0] = events /\ \A n \in 1..N : merged[n] = WithEvent(merged[n - 1], rest[n])
    BY <1>1, <1>8
  <2>2. 0 \in U
    BY <1>1, <2>1 DEF S
  <2>3. \A n \in 1..N : n - 1 \in U => n \in U
    BY <1>2, <2>1
  <2> HIDE DEF U
  <2> QED BY <1>1, <2>2, <2>3, InductionUpTo
<1>11. N \in 0..N
  BY <1>1
<1> HIDE DEF merged
<1> QED BY <1>9, <1>10, <1>11 DEF S

LEMMA HydratedType ==
    ASSUME NEW events \in Seq(AllEvents), NEW current \in Seq(AllEvents)
    PROVE  Hydrated(events, current) \in Seq(AllEvents)
<1>1. Kept(events) \in Seq(AllEvents)
  BY KeptIs
<1> QED BY <1>1, HydratedIs, JoinedType

(***************************************************************************)
(* The rows cover nothing from an event on that the transcript never       *)
(* tells.                                                                  *)
(***************************************************************************)
AnySpeech == [type : AllTypes, text : Seq(Words)]

HasLiveOnly(s) == \E m \in 1..Len(s) : LiveOnly(s[m])

LEMMA ExtendedAny ==
    ASSUME NEW s \in Seq(AnySpeech), NEW e \in AllEvents
    PROVE  /\ Extended(s, e) \in Seq(AnySpeech)
           /\ HasLiveOnly(s) \/ LiveOnly(e) => HasLiveOnly(Extended(s, e))
<1> DEFINE n == Len(s)
<1>1. n \in Nat /\ DOMAIN s = 1..n /\ e.type \in AllTypes /\ e.text \in Seq(Words)
  BY AnyEventIs
<1>2. CASE e.type = "text" /\ s # <<>> /\ s[n].type = "text"
  <2> DEFINE x == [s EXCEPT ![n].text = @ \o e.text]
             last == [s[n] EXCEPT !.text = @ \o e.text]
  <2>1. Extended(s, e) = x
    BY <1>2 DEF Extended, Last
  <2>2. n \in 1..n
    BY <1>1, <1>2
  <2>3. last \in AnySpeech /\ last.type = s[n].type
    <3>1. s[n] \in AnySpeech
      BY <1>1, <2>2
    <3>2. s[n].text \in Seq(Words)
      BY <3>1 DEF AnySpeech
    <3>3. s[n].text \o e.text \in Seq(Words)
      BY <1>1, <3>2
    <3> QED BY <3>1, <3>3 DEF AnySpeech
  <2>4. x = [s EXCEPT ![n] = last]
    OBVIOUS
  <2> HIDE DEF last, x
  <2>5. x \in Seq(AnySpeech) /\ Len(x) = n /\ \A m \in 1..n : x[m] = IF m = n THEN last ELSE s[m]
    BY <1>1, <2>2, <2>3, <2>4
  <2>6. \A m \in 1..n : x[m].type = s[m].type
    BY <2>3, <2>5
  <2>7. ~LiveOnly(e)
    BY <1>2 DEF LiveOnly
  <2> QED BY <2>1, <2>5, <2>6, <2>7 DEF HasLiveOnly, LiveOnly
<1>3. CASE ~(e.type = "text" /\ s # <<>> /\ s[n].type = "text")
  <2> DEFINE x == Append(s, Key(e))
  <2>1. Extended(s, e) = x
    BY <1>3 DEF Extended, Last
  <2>2. Key(e) \in AnySpeech /\ Key(e).type = e.type
    BY <1>1 DEF Key, AnySpeech
  <2>3. x \in Seq(AnySpeech) /\ Len(x) = n + 1 /\ (\A m \in 1..n : x[m] = s[m]) /\ x[n + 1] = Key(e)
    BY <2>2
  <2> HIDE DEF x, n
  <2>4. \A m \in 1..n : m \in 1..(n + 1)
    BY <1>1
  <2>5. n + 1 \in 1..(n + 1)
    BY <1>1
  <2>6. HasLiveOnly(s) => HasLiveOnly(x)
    BY <2>3, <2>4 DEF HasLiveOnly, n
  <2>7. LiveOnly(e) => HasLiveOnly(x)
    BY <2>2, <2>3, <2>5 DEF HasLiveOnly, LiveOnly
  <2> QED BY <2>1, <2>3, <2>6, <2>7
<1> QED BY <1>2, <1>3

LEMMA SignatureAny ==
    ASSUME NEW events \in Seq(AllEvents)
    PROVE  \E sig \in [0..Len(events) -> Seq(AnySpeech)] :
            /\ sig[0] = <<>>
            /\ \A n \in 1..Len(events) : sig[n] = Extended(sig[n-1], events[n])
            /\ Signature(events) = sig[Len(events)]
<1> DEFINE N == Len(events)
           S == Seq(AnySpeech)
<1>1. N \in Nat
  OBVIOUS
<1>2. \A n \in 1..N, s \in S : Extended(s, events[n]) \in S
  <2>1. \A n \in 1..N : events[n] \in AllEvents
    OBVIOUS
  <2> QED BY <2>1, ExtendedAny
<1>3. <<>> \in S
  OBVIOUS
<1>4. \E sig \in [0..N -> S] :
            /\ sig[0] = <<>>
            /\ \A n \in 1..N : sig[n] = Extended(sig[n-1], events[n])
            /\ Signature(events) = sig[N]
  <2>1. N = Len(events)
    OBVIOUS
  <2> HIDE DEF N, S
  <2> QED BY <1>1, <1>2, <1>3, <2>1, SignatureDef, SMTT(30)
<1> QED BY <1>4

LEMMA SignatureHas ==
    ASSUME NEW events \in Seq(AllEvents), NEW k \in 1..Len(events), LiveOnly(events[k])
    PROVE  Signature(events) \in Seq(AnySpeech) /\ HasLiveOnly(Signature(events))
<1> DEFINE N == Len(events)
           S == Seq(AnySpeech)
<1>1. N \in Nat /\ k \in 1..N /\ <<>> \in S /\ \A n \in 1..N : events[n] \in AllEvents
  OBVIOUS
<1>2. \A n \in 1..N, s \in S : Extended(s, events[n]) \in S
  BY <1>1, ExtendedAny
<1>3. PICK sig \in [0..N -> S] :
         /\ sig[0] = <<>>
         /\ \A n \in 1..N : sig[n] = Extended(sig[n-1], events[n])
         /\ Signature(events) = sig[N]
  BY SignatureAny
<1> HIDE DEF N
<1> DEFINE T == {n \in 0..N : k <= n => HasLiveOnly(sig[n])}
<1>4. 0 \in T
  BY <1>1
<1>5. ASSUME NEW n \in 1..N, n - 1 \in T PROVE n \in T
  <2> SUFFICES ASSUME k <= n PROVE HasLiveOnly(sig[n])
    BY <1>1
  <2>1. n - 1 \in 0..N /\ sig[n - 1] \in S
    <3>1. n - 1 \in 0..N
      BY <1>1
    <3> HIDE DEF S
    <3> QED BY <3>1
  <2>2. HasLiveOnly(sig[n - 1]) \/ LiveOnly(events[n])
    <3>1. k = n \/ k <= n - 1
      BY <1>1
    <3> QED BY <1>5, <3>1
  <2>3. events[n] \in AllEvents
    BY <1>1
  <2>4. HasLiveOnly(Extended(sig[n - 1], events[n]))
    BY <2>1, <2>2, <2>3, ExtendedAny
  <2> QED BY <1>3, <2>4
<1>6. N \in T
  <2>1. 0..N \subseteq T
    <3> HIDE DEF T
    <3> QED BY <1>1, <1>4, <1>5, InductionUpTo
  <2>2. N \in 0..N
    BY <1>1
  <2> HIDE DEF T
  <2> QED BY <2>1, <2>2
<1>7. HasLiveOnly(sig[N]) /\ sig[N] \in S
  <2>1. N \in 0..N /\ k <= N
    BY <1>1
  <2> HIDE DEF S
  <2> QED BY <1>6, <2>1
<1> QED BY <1>3, <1>7

LEMMA CoversNoLiveOnly ==
    ASSUME NEW part \in Seq(Speech), NEW start \in Seq(AnySpeech), HasLiveOnly(start)
    PROVE  ~Covers(part, start)
<1> SUFFICES ASSUME Covers(part, start) PROVE FALSE
  OBVIOUS
<1>1. PICK m \in 1..Len(start) : LiveOnly(start[m])
  BY DEF HasLiveOnly
<1>2. DOMAIN start = 1..Len(start) /\ Len(start) <= Len(part) /\ Len(part) \in Nat /\ Len(start) \in Nat
  BY DEF Covers
<1>3. start[m].type = part[m].type
  BY <1>2 DEF Covers
<1>4. part[m] \in Speech
  <2>1. m \in 1..Len(part)
    BY <1>2
  <2> QED BY <2>1
<1>5. part[m].type \in Types
  BY <1>4, SpeechIs
<1> QED BY <1>1, <1>3, <1>5 DEF LiveOnly, Types

LEMMA NotCovered ==
    ASSUME NEW history \in Seq(Events), NEW live \in Seq(AllEvents),
           NEW k \in 1..Len(live), LiveOnly(live[k])
    PROVE  PrefixCovered(history, live) < k
<1>1. CASE history = <<>> \/ live = <<>>
  BY <1>1 DEF PrefixCovered
<1>2. CASE ~(history = <<>> \/ live = <<>>)
  <2> DEFINE L == Len(live)
             lead == IF /\ Head(live).type = "session_initialized"
                        /\ Head(history).type # "session_initialized"
                     THEN 1 ELSE 0
             parts == {Signature(From(history, h)) : h \in DOMAIN history}
             ends == {n \in (lead + 1)..L :
                         LET start == Signature(SubSeq(live, lead + 1, n))
                         IN  \E part \in parts : Covers(part, start)}
             T == {IF lead = L THEN lead ELSE 0} \cup ends
  <2>1. PrefixCovered(history, live) = Max(T)
    BY <1>2 DEF PrefixCovered
  <2>2. lead \in {0, 1} /\ L \in Nat /\ k \in 1..L
    OBVIOUS
  <2>3. lead < k
    <3> SUFFICES ASSUME ~(lead < k) PROVE FALSE
      OBVIOUS
    <3>1. lead = 1 /\ k = 1
      <4> HIDE DEF lead, L
      <4> QED BY <2>2
    <3>2. live[1].type = "session_initialized"
      BY <1>2, <3>1
    <3> QED BY <3>1, <3>2 DEF LiveOnly
  <2>4. \A part \in parts : part \in Seq(Speech)
    <3> SUFFICES ASSUME NEW h \in 1..Len(history) PROVE Signature(From(history, h)) \in Seq(Speech)
      OBVIOUS
    <3>1. Says(history)
      BY EventIs DEF Says
    <3>2. h \in 1..(Len(history) + 1) /\ Len(history) \in (h - 1)..Len(history)
      OBVIOUS
    <3>3. Signature(SubSeq(history, h, Len(history))) \in Seq(Speech)
      BY <3>1, <3>2, SignatureOfPart
    <3> QED BY <3>3 DEF From
  <2> HIDE DEF lead, parts
  <2>5. ASSUME NEW n \in ends PROVE n < k
    <3> SUFFICES ASSUME k <= n PROVE FALSE
      BY <2>2
    <3> DEFINE first == SubSeq(live, lead + 1, n)
    <3>1. n \in (lead + 1)..L /\ k - lead \in 1..(n - lead) /\ lead + (k - lead) = k
      <4> HIDE DEF L
      <4> QED BY <2>2, <2>3
    <3>2. first \in Seq(AllEvents) /\ Len(first) = n - lead /\ first[k - lead] = live[k]
      BY <2>2, <3>1
    <3>3. PICK part \in parts : Covers(part, Signature(first))
      OBVIOUS
    <3> HIDE DEF first
    <3>4. Signature(first) \in Seq(AnySpeech) /\ HasLiveOnly(Signature(first))
      <4>1. k - lead \in 1..Len(first) /\ LiveOnly(first[k - lead])
        BY <3>1, <3>2
      <4> QED BY <3>2, <4>1, SignatureHas
    <3> QED BY <2>4, <3>3, <3>4, CoversNoLiveOnly
  <2>6. T \subseteq 0..L /\ T # {} /\ \A n \in T : n < k
    <3>1. ends \subseteq 1..L
      <4> HIDE DEF L
      <4> QED BY <2>2
    <3>2. ends \subseteq 0..L
      BY <2>2, <3>1
    <3> HIDE DEF ends, L
    <3>3. (IF lead = L THEN lead ELSE 0) \in 0..L /\ (IF lead = L THEN lead ELSE 0) < k
      BY <2>2, <2>3
    <3> QED BY <2>5, <3>2, <3>3
  <2> HIDE DEF T
  <2>7. Max(T) \in T
    BY <2>2, <2>6, MaxOf
  <2> QED BY <2>1, <2>6, <2>7
<1> QED BY <1>1, <1>2

(* What the hub has of that kind is in the answer.                         *)
LEMMA MergedKeepsLive ==
    ASSUME NEW history \in Seq(Events), NEW snapshot \in Seq(AllEvents),
           Comparable(MergedHistory(history, snapshot))
    PROVE  Comparable(snapshot)
<1> SUFFICES ASSUME NEW k \in 1..Len(snapshot), LiveOnly(snapshot[k])
             PROVE  ~Comparable(MergedHistory(history, snapshot))
  BY DEF Comparable
<1> DEFINE suffix == SuffixCovered(history, snapshot)
           prefix == PrefixCovered(history, snapshot)
           c == Len(history) - suffix
           older == SubSeq(history, 1, c)
           newer == From(snapshot, prefix + 1)
           m == MergedHistory(history, snapshot)
<1>1. snapshot # <<>> /\ history \in Seq(AllEvents)
  BY AllComparable
<1>2. m = older \o snapshot \/ m = history \o newer
  BY <1>1 DEF MergedHistory
<1>3. older \in Seq(AllEvents)
  <2>1. suffix \in 0..Len(history) /\ Len(history) \in Nat
    BY <1>1, SuffixRange
  <2> HIDE DEF suffix
  <2>2. c \in 0..Len(history)
    BY <2>1
  <2> HIDE DEF c
  <2> QED BY <1>1, <2>2, FirstIs
<1>4. newer \in Seq(AllEvents) /\ \E l \in 1..Len(newer) : LiveOnly(newer[l])
  <2>1. prefix \in 0..Len(snapshot) /\ prefix < k
    BY <1>1, PrefixRange, NotCovered
  <2> HIDE DEF prefix
  <2>2. /\ newer \in Seq(AllEvents) /\ Len(newer) = Len(snapshot) - prefix
        /\ \A l \in 1..(Len(snapshot) - prefix) : newer[l] = snapshot[prefix + l]
    BY <2>1, RestIs
  <2> HIDE DEF newer
  <2>3. k - prefix \in 1..Len(newer) /\ prefix + (k - prefix) = k
    BY <2>1, <2>2
  <2> QED BY <2>2, <2>3
<1>5. ASSUME NEW x \in Seq(AllEvents), NEW y \in Seq(AllEvents), NEW l \in 1..Len(y), LiveOnly(y[l])
      PROVE  ~Comparable(x \o y)
  <2> DEFINE z == x \o y
  <2>1. z \in Seq(AllEvents) /\ Len(z) = Len(x) + Len(y) /\ z[Len(x) + l] = y[l]
    BY TogetherIs
  <2>2. Len(x) + l \in 1..(Len(x) + Len(y))
    OBVIOUS
  <2> HIDE DEF z
  <2> DEFINE n == Len(x) + l
  <2>4. n \in 1..Len(z) /\ z[n] = y[l]
    BY <2>1, <2>2
  <2>5. n \in DOMAIN z /\ LiveOnly(z[n])
    BY <1>5, <2>1, <2>4
  <2> HIDE DEF n
  <2>3. ~Comparable(z)
    BY <2>5 DEF Comparable
  <2> QED BY <2>3 DEF z
<1> HIDE DEF older, newer, m
<1>6. ~Comparable(older \o snapshot) /\ ~Comparable(history \o newer)
  BY <1>1, <1>3, <1>4, <1>5
<1>7. ~Comparable(m)
  BY <1>2, <1>6
<1> QED BY <1>7 DEF m

(***************************************************************************)
(* The inductive invariant.                                                *)
(***************************************************************************)
Stages == {"none", "asked", "reading", "answered"}

Requests == [stage : Stages, upto : Nat, rows : Nat, events : Seq(AllEvents)]

TranscriptTypeOK ==
    /\ told \in Seq(Speech) /\ busy \in BOOLEAN
    /\ written \in Nat /\ published \in Nat /\ since \in Nat
    /\ hub \in Seq(AllEvents) /\ sent \in Nat /\ delivered \in Nat
    /\ cache \in Seq(AllEvents) /\ cursor \in Nat
    /\ runStatus \in {"idle", "running"} /\ opened \in BOOLEAN
    /\ request \in Requests
    /\ attended \in BOOLEAN /\ loaded \in BOOLEAN

(* The conversation is made of turns, the last of which may go on.         *)
ToldInTurns ==
    /\ ToldTyped /\ Turns /\ Len(told) # 1
    /\ busy <=> told # <<>> /\ told[Len(told)].type # "done"

(* Nobody is ahead of the conversation, and daemons change between turns.  *)
HubInOrder ==
    /\ since <= delivered /\ delivered <= published /\ published <= Len(told)
    /\ told # <<>> => published >= 2
    /\ BetweenTurns(since)
    /\ since <= written /\ written <= Len(told) /\ written # 1

(* What the hub has of the conversation is one piece for each event.       *)
OfHub(events) ==
    \A k \in 1..Len(events) :
       /\ events[k].source = "hub"
       /\ events[k].from = IF LiveOnly(events[k]) THEN events[k].to + 1 ELSE events[k].to

TellsHub(events, s, p) ==
    /\ Tells(events, s + 1, p) /\ OfHub(events)
    /\ \A k \in 1..Len(events) : events[k].to \in s..p

(* The hub tells what it has been given, and `delivered' is how far the    *)
(* events go that the page has been sent.                                  *)
HubTells ==
    /\ TellsHub(hub, since, published)
    /\ sent <= Len(hub)
    /\ delivered = IF sent = 0 THEN since ELSE hub[sent].to

(* The next event is a new one for a page that has attended.               *)
CursorIsBehind == attended => cursor <= sent

(* The answer tells all that the transcript and the snapshot had.          *)
AnswerTells ==
    /\ ~opened => request = NoRequest
    /\ opened => told # <<>>
    /\ request.stage \in {"reading", "answered"} =>
          since <= request.upto /\ 2 <= request.upto /\ request.upto <= published
    /\ request.stage = "reading" => TellsHub(request.events, since, request.upto)
    /\ request.stage = "answered" =>
          /\ request.rows <= written
          /\ NothingRepeated /\ ~Mistaken(request) /\ Comparable(request.events) =>
                /\ \E i \in {1, 2} : Tells(request.events, i, Larger(request.rows, request.upto))
                /\ Parted(request.events, request.rows)

(* The rows that may have got into the cache are those of answers before   *)
(* this one.                                                               *)
RowsSeen == IF request.stage = "answered" THEN request.rows ELSE written

(* What is in the cache; and before an answer has come it begins where a   *)
(* turn does, not after the snapshot of the answer, so that the answer     *)
(* reaches it.                                                             *)
CacheTells ==
    attended /\ NothingRepeated =>
       IF loaded
       THEN /\ \E i \in {1, 2} : Tells(cache, i, delivered)
            /\ Comparable(cache) => Parted(cache, RowsSeen)
       ELSE \E i \in 1..(delivered + 1) :
               /\ Tells(cache, i, delivered) /\ BetweenTurns(i - 1)
               /\ Comparable(cache) => Parted(cache, 0)
               /\ request.stage \in {"reading", "answered"} => i - 1 <= request.upto

TranscriptInv ==
    /\ TranscriptTypeOK /\ ToldInTurns /\ HubInOrder /\ HubTells
    /\ CursorIsBehind /\ AnswerTells /\ CacheTells

(***************************************************************************)
(* What has been told stays told.                                          *)
(***************************************************************************)
ToldGrows ==
    /\ Len(told) \in Nat /\ Len(told') \in Nat /\ Len(told) <= Len(told')
    /\ \A n \in 1..Len(told) : told'[n] = told[n]
    /\ DOMAIN told = 1..Len(told) /\ DOMAIN told' = 1..Len(told')

LEMMA SameGrows == ASSUME told \in Seq(Speech), told' = told PROVE ToldGrows
<1>1. Len(told) \in Nat /\ DOMAIN told = 1..Len(told)
  OBVIOUS
<1> QED BY <1>1 DEF ToldGrows

LEMMA RepeatedStays == ASSUME ToldGrows, NothingRepeated' PROVE NothingRepeated
BY DEF ToldGrows, NothingRepeated

LEMMA MistakenStays ==
    ASSUME ToldGrows, since' = since, NEW r, Mistaken(r) PROVE Mistaken(r)'
<1> DEFINE dones == {n \in 1..Len(told) : told[n].type = "done"}
           dones1 == {n \in 1..Len(told') : told'[n].type = "done"}
<1>1. dones \subseteq dones1
  BY DEF ToldGrows
<1>2. /\ r.rows \in dones
      /\ (since + 1)..r.upto \cap dones # {}
      /\ r.rows = since \/ (r.upto < r.rows /\ r.upto \in dones)
  BY DEF Mistaken
<1>3. /\ r.rows \in dones1
      /\ (since' + 1)..r.upto \cap dones1 # {}
      /\ r.rows = since' \/ (r.upto < r.rows /\ r.upto \in dones1)
  <2> HIDE DEF dones, dones1
  <2> QED BY <1>1, <1>2
<1> QED BY <1>3 DEF Mistaken

LEMMA StandsForStays ==
    ASSUME ToldGrows, NEW e \in AllEvents, StandsFor(e) PROVE StandsFor(e)'
<1>1. e.from \in Nat /\ e.to \in Nat
  BY AnyEventIs
<1>2. e.from \in 1..e.to /\ e.to <= Len(told) /\ e.to <= Len(told')
  BY <1>1 DEF StandsFor, ToldGrows
<1>3. \A n \in e.from..e.to : told'[n] = told[n]
  BY <1>1, <1>2 DEF ToldGrows
<1>4. \A n \in e.from..e.to : told'[n].type = e.type
  BY <1>3 DEF StandsFor
<1>5. CASE e.type = "text"
  <2>1. e.text = [k \in 1..(e.to - e.from + 1) |-> told[e.from + k - 1].text[1]]
    BY <1>5 DEF StandsFor
  <2>2. \A k \in 1..(e.to - e.from + 1) : e.from + k - 1 \in e.from..e.to
    BY <1>1, <1>2
  <2>3. \A k \in 1..(e.to - e.from + 1) : told'[e.from + k - 1].text[1] = told[e.from + k - 1].text[1]
    BY <1>3, <2>2
  <2>4. e.text = [k \in 1..(e.to - e.from + 1) |-> told'[e.from + k - 1].text[1]]
    BY <2>1, <2>3
  <2> QED BY <1>2, <1>4, <1>5, <2>4 DEF StandsFor
<1>6. CASE e.type # "text"
  <2>1. e.from = e.to /\ e.text = told[e.from].text
    BY <1>6 DEF StandsFor
  <2>2. told'[e.from] = told[e.from]
    BY <1>1, <1>3, <2>1
  <2> QED BY <1>2, <1>4, <1>6, <2>1, <2>2 DEF StandsFor
<1> QED BY <1>5, <1>6

LEMMA StandsAsideStays ==
    ASSUME ToldGrows, NEW e, StandsAside(e) PROVE StandsAside(e)'
<1>1. DOMAIN told \subseteq DOMAIN told'
  BY DEF ToldGrows
<1>2. LiveOnly(e) /\ e.to \in DOMAIN told' /\ e.from = e.to + 1
  BY <1>1 DEF StandsAside
<1> QED BY <1>2 DEF StandsAside, LiveOnly

LEMMA TellsStays ==
    ASSUME ToldGrows, NEW events \in Seq(AllEvents), NEW i, NEW j, Tells(events, i, j)
    PROVE  Tells(events, i, j)'
<1>1. \A k \in DOMAIN events : StandsFor(events[k])' \/ StandsAside(events[k])'
  <2> SUFFICES ASSUME NEW k \in DOMAIN events
               PROVE  StandsFor(events[k])' \/ StandsAside(events[k])'
    OBVIOUS
  <2> DEFINE e == events[k]
  <2>1. e \in AllEvents
    OBVIOUS
  <2>2. StandsFor(e) \/ StandsAside(e)
    BY DEF Tells
  <2> HIDE DEF e
  <2>3. StandsFor(e)' \/ StandsAside(e)'
    BY <2>1, <2>2, StandsForStays, StandsAsideStays
  <2> QED BY <2>3 DEF e
<1> QED BY <1>1 DEF Tells

(* One event more.                                                         *)
LEMMA TellsMore ==
    ASSUME NEW events \in Seq(AllEvents), NEW i \in Nat \ {0}, NEW j \in Nat, Tells(events, i, j)',
           NEW e \in AllEvents, StandsFor(e)' \/ StandsAside(e)', e.from = j + 1
    PROVE  Append(events, e) \in Seq(AllEvents) /\ Tells(Append(events, e), i, e.to)'
<1> DEFINE x == Append(events, e)
           N == Len(events)
           end(k) == IF k = 0 THEN i - 1 ELSE events[k].to
           endx(k) == IF k = 0 THEN i - 1 ELSE x[k].to
<1>1. /\ x \in Seq(AllEvents) /\ N \in Nat /\ Len(x) = N + 1 /\ DOMAIN x = 1..(N + 1)
      /\ DOMAIN events = 1..N
      /\ \A k \in 1..N : x[k] = events[k]
      /\ x[N + 1] = e
  OBVIOUS
<1>2. /\ \A k \in 1..N : /\ StandsFor(events[k])' \/ StandsAside(events[k])'
                         /\ events[k].from = end(k - 1) + 1
      /\ end(N) = j
  BY <1>1 DEF Tells
<1> HIDE DEF x, N
<1>3. \A k \in 0..N : endx(k) = end(k)
  BY <1>1
<1>4. ASSUME NEW k \in 1..(N + 1)
      PROVE  /\ StandsFor(x[k])' \/ StandsAside(x[k])'
             /\ x[k].from = endx(k - 1) + 1
  <2>1. CASE k \in 1..N
    <3>1. x[k] = events[k] /\ k - 1 \in 0..N
      BY <1>1, <2>1
    <3>2. endx(k - 1) = end(k - 1)
      BY <1>3, <3>1
    <3> HIDE DEF end, endx
    <3>3. /\ StandsFor(events[k])' \/ StandsAside(events[k])'
          /\ events[k].from = end(k - 1) + 1
      BY <1>2, <2>1
    <3> QED BY <3>1, <3>2, <3>3
  <2>2. CASE k = N + 1
    <3>1. x[k] = e /\ k - 1 = N /\ N \in 0..N
      BY <1>1, <2>2
    <3>2. endx(k - 1) = j
      BY <1>2, <1>3, <3>1
    <3> HIDE DEF end, endx
    <3> QED BY <3>1, <3>2
  <2> QED BY <1>1, <2>1, <2>2
<1>5. endx(N + 1) = e.to
  BY <1>1
<1>6. Tells(x, i, e.to)'
  <2> HIDE DEF end
  <2> QED BY <1>1, <1>4, <1>5 DEF Tells
<1> QED BY <1>1, <1>6 DEF x

LEMMA HubStays ==
    ASSUME ToldGrows, NEW h \in Seq(AllEvents), NEW s, NEW p, TellsHub(h, s, p)
    PROVE  TellsHub(h, s, p)'
<1>1. Tells(h, s + 1, p)'
  BY TellsStays DEF TellsHub
<1>2. /\ OfHub(h)
      /\ \A k \in 1..Len(h) : h[k].to \in s..p
  BY DEF TellsHub
<1>3. OfHub(h)'
  BY <1>2 DEF OfHub, LiveOnly
<1> QED BY <1>1, <1>2, <1>3 DEF TellsHub

LEMMA HubMore ==
    ASSUME NEW h \in Seq(AllEvents), NEW s \in Nat, NEW p \in Nat, s <= p, TellsHub(h, s, p)',
           NEW e \in AllEvents, StandsFor(e)' \/ StandsAside(e)', e.source = "hub",
           e.from = p + 1, e.from = (IF LiveOnly(e) THEN e.to + 1 ELSE e.to)
    PROVE  /\ Append(h, e) \in Seq(AllEvents)
           /\ p <= e.to /\ e.to \in Nat
           /\ TellsHub(Append(h, e), s, e.to)'
<1> DEFINE x == Append(h, e)
           N == Len(h)
<1>1. /\ x \in Seq(AllEvents) /\ N \in Nat /\ Len(x) = N + 1
      /\ \A k \in 1..N : x[k] = h[k]
      /\ x[N + 1] = e
  OBVIOUS
<1>2. e.to \in Nat /\ p <= e.to
  BY AnyEventIs
<1>3. Tells(x, s + 1, e.to)'
  <2>1. Tells(h, s + 1, p)' /\ s + 1 \in Nat \ {0}
    BY DEF TellsHub
  <2>2. Tells(Append(h, e), s + 1, e.to)'
    BY <2>1, TellsMore
  <2> QED BY <2>2
<1>4. /\ \A k \in 1..N : /\ h[k].source = "hub"
                         /\ h[k].from = IF LiveOnly(h[k]) THEN h[k].to + 1 ELSE h[k].to
                         /\ h[k].to \in s..p
  BY DEF TellsHub, OfHub, LiveOnly
<1> HIDE DEF x, N
<1>5. ASSUME NEW k \in 1..(N + 1)
      PROVE  /\ x[k].source = "hub"
             /\ x[k].from = IF LiveOnly(x[k]) THEN x[k].to + 1 ELSE x[k].to
             /\ x[k].to \in s..e.to
  <2>1. CASE k \in 1..N
    <3>1. x[k] = h[k]
      BY <1>1, <2>1
    <3>2. h[k].to \in s..e.to
      BY <1>2, <1>4, <2>1
    <3> QED BY <1>4, <2>1, <3>1, <3>2
  <2>2. CASE k = N + 1
    BY <1>1, <1>2, <2>2
  <2> QED BY <1>1, <2>1, <2>2
<1>6. OfHub(x)'
  BY <1>1, <1>5 DEF OfHub, LiveOnly
<1>7. TellsHub(x, s, e.to)'
  BY <1>1, <1>3, <1>5, <1>6 DEF TellsHub
<1> QED BY <1>1, <1>2, <1>7 DEF x

LEMMA BetweenStays ==
    ASSUME ToldGrows, NEW n \in Nat, n <= Len(told), BetweenTurns(n) PROVE BetweenTurns(n)'
<1>1. n = 0 \/ n \in 1..Len(told)
  BY DEF ToldGrows
<1>2. n \in 1..Len(told) => told'[n] = told[n]
  BY DEF ToldGrows
<1> QED BY <1>1, <1>2 DEF BetweenTurns

LEMMA PartedStays ==
    ASSUME NEW events \in Seq(AllEvents), NEW m \in Nat, NEW n \in Nat, m <= n, Parted(events, m)
    PROVE  Parted(events, n)
<1>1. \A k \in 1..Len(events) : events[k].to \in Nat
  <2> SUFFICES ASSUME NEW k \in 1..Len(events) PROVE events[k].to \in Nat
    OBVIOUS
  <2> DEFINE e == events[k]
  <2>1. e \in AllEvents
    OBVIOUS
  <2> HIDE DEF e
  <2>2. e.to \in Nat
    BY <2>1, AnyEventIs
  <2> QED BY <2>2 DEF e
<1> QED BY <1>1 DEF Parted

(* The conversation ends where a turn does iff none goes on.               *)
LEMMA NoTurnGoesOn ==
    ASSUME TranscriptTypeOK, ToldInTurns PROVE ~busy <=> BetweenTurns(Len(told))
<1>1. Len(told) = 0 <=> told = <<>>
  BY DEF TranscriptTypeOK
<1> QED BY <1>1 DEF TranscriptTypeOK, ToldInTurns, BetweenTurns

(***************************************************************************)
(* What a step leaves of the answer and of the cache.                      *)
(***************************************************************************)
NewRequests == {NoRequest, [NoRequest EXCEPT !.stage = "asked"]}

LEMMA NewRequestIs ==
    ASSUME NEW r \in NewRequests
    PROVE  /\ r \in Requests
           /\ r.stage \in {"none", "asked"}
<1>1. r.stage \in {"none", "asked"} /\ r = [stage |-> r.stage, upto |-> 0, rows |-> 0, events |-> <<>>]
  BY DEF NewRequests, NoRequest
<1>2. <<>> \in Seq(AllEvents) /\ 0 \in Nat /\ r.stage \in Stages
  BY <1>1 DEF Stages
<1>3. \A x \in Stages : [stage |-> x, upto |-> 0, rows |-> 0, events |-> <<>>] \in Requests
  BY <1>2 DEF Requests
<1>4. [stage |-> r.stage, upto |-> 0, rows |-> 0, events |-> <<>>] \in Requests
  BY <1>2, <1>3
<1> HIDE DEF NewRequests
<1> QED BY <1>1, <1>4, Zenon

LEMMA RequestIs ==
    ASSUME TranscriptTypeOK
    PROVE  /\ request.stage \in Stages /\ request.upto \in Nat /\ request.rows \in Nat
           /\ request.events \in Seq(AllEvents)
BY DEF TranscriptTypeOK, Requests

LEMMA RequestType ==
    ASSUME TranscriptTypeOK, request' = request \/ request' \in NewRequests
    PROVE  request' \in Requests
BY NewRequestIs DEF TranscriptTypeOK

LEMMA AnswerKept ==
    ASSUME TranscriptTypeOK, TranscriptTypeOK', HubInOrder, AnswerTells, ToldGrows, since' = since,
           published <= published', written <= written', opened' = opened, request' = request
    PROVE  AnswerTells'
<1> USE RequestIs
<1>1. /\ published \in Nat /\ published' \in Nat /\ written \in Nat /\ written' \in Nat
      /\ since \in Nat
  BY DEF TranscriptTypeOK
<1>2. ~opened' => request' = NoRequest
  BY DEF AnswerTells
<1>3. opened' => told' # <<>>
  BY DEF AnswerTells, ToldGrows, TranscriptTypeOK
<1>4. request'.stage \in {"reading", "answered"} =>
          since' <= request'.upto /\ 2 <= request'.upto /\ request'.upto <= published'
  BY <1>1 DEF AnswerTells
<1>5. ASSUME request.stage = "answered"
      PROVE  /\ request'.rows <= written'
             /\ NothingRepeated' /\ ~Mistaken(request)' /\ Comparable(request.events) =>
                  /\ \E i \in {1, 2} : Tells(request.events, i, Larger(request.rows, request.upto))'
                  /\ Parted(request.events, request.rows)
  <2>1. request'.rows <= written'
    BY <1>1, <1>5 DEF AnswerTells
  <2>2. ASSUME NothingRepeated', ~Mistaken(request)', Comparable(request.events)
        PROVE  /\ \E i \in {1, 2} : Tells(request.events, i, Larger(request.rows, request.upto))'
               /\ Parted(request.events, request.rows)
    <3>1. NothingRepeated
      BY <2>2, RepeatedStays
    <3>2. ~Mistaken(request)
      BY <2>2, MistakenStays
    <3>3. /\ \E i \in {1, 2} : Tells(request.events, i, Larger(request.rows, request.upto))
          /\ Parted(request.events, request.rows)
      BY <1>5, <2>2, <3>1, <3>2 DEF AnswerTells
    <3>4. PICK i \in {1, 2} : Tells(request.events, i, Larger(request.rows, request.upto))
      BY <3>3
    <3>5. Tells(request.events, i, Larger(request.rows, request.upto))'
      BY <3>4, TellsStays DEF Larger
    <3> QED BY <3>3, <3>5
  <2> QED BY <2>1, <2>2
<1>6. request.stage = "reading" => TellsHub(request.events, since, request.upto)'
  BY HubStays DEF AnswerTells
<1>7. Comparable(request.events)' => Comparable(request.events)
  BY DEF Comparable, LiveOnly
<1> QED BY <1>2, <1>3, <1>4, <1>5, <1>6, <1>7 DEF AnswerTells

LEMMA AnswerRenewed ==
    ASSUME request' \in NewRequests, ~opened' => request' = NoRequest, opened' => told' # <<>>
    PROVE  AnswerTells'
<1>1. request'.stage \in {"none", "asked"}
  BY NewRequestIs
<1> QED BY <1>1 DEF AnswerTells

LEMMA CacheKept ==
    ASSUME TranscriptTypeOK, TranscriptTypeOK', HubInOrder, AnswerTells, CacheTells, ToldGrows,
           cache' = cache, loaded' = loaded, attended' => attended /\ delivered' = delivered,
           written <= written', request' = request \/ request' \in NewRequests
    PROVE  CacheTells'
<1> SUFFICES ASSUME attended', NothingRepeated'
             PROVE  IF loaded
                    THEN /\ \E i \in {1, 2} : Tells(cache, i, delivered)'
                         /\ Comparable(cache) => Parted(cache, RowsSeen')
                    ELSE \E i \in 1..(delivered + 1) :
                            /\ Tells(cache, i, delivered)' /\ BetweenTurns(i - 1)'
                            /\ Comparable(cache) => Parted(cache, 0)
                            /\ request'.stage \in {"reading", "answered"} => i - 1 <= request'.upto
  BY DEF CacheTells, Comparable, LiveOnly
<1>1. attended /\ delivered' = delivered /\ NothingRepeated
  BY RepeatedStays
<1>2. /\ written \in Nat /\ written' \in Nat /\ delivered \in Nat /\ published \in Nat
      /\ request.rows \in Nat /\ cache \in Seq(AllEvents) /\ Len(told) \in Nat
  BY RequestIs DEF TranscriptTypeOK
<1>3. request' \in NewRequests => request'.stage \in {"none", "asked"}
  BY NewRequestIs
<1>4. CASE loaded
  <2>1. PICK i \in {1, 2} : Tells(cache, i, delivered)
    BY <1>1, <1>4 DEF CacheTells
  <2>2. Tells(cache, i, delivered)'
    BY <1>1, <1>2, <2>1, TellsStays
  <2>3. Comparable(cache) => Parted(cache, RowsSeen)
    BY <1>1, <1>4 DEF CacheTells
  <2>4. RowsSeen \in Nat /\ RowsSeen' \in Nat /\ RowsSeen <= RowsSeen'
    <3>1. CASE request' = request
      BY <1>2, <3>1 DEF RowsSeen
    <3>2. CASE request' \in NewRequests
      <4>1. RowsSeen' = written'
        BY <1>3, <3>2 DEF RowsSeen
      <4>2. RowsSeen <= written /\ RowsSeen \in Nat
        BY <1>2 DEF RowsSeen, AnswerTells
      <4> QED BY <1>2, <4>1, <4>2
    <3> QED BY <3>1, <3>2
  <2>5. Comparable(cache) => Parted(cache, RowsSeen')
    BY <1>2, <2>3, <2>4, PartedStays
  <2> QED BY <1>4, <2>2, <2>5
<1>5. CASE ~loaded
  <2>1. PICK i \in 1..(delivered + 1) :
           /\ Tells(cache, i, delivered) /\ BetweenTurns(i - 1)
           /\ Comparable(cache) => Parted(cache, 0)
           /\ request.stage \in {"reading", "answered"} => i - 1 <= request.upto
    BY <1>1, <1>5 DEF CacheTells
  <2>2. Tells(cache, i, delivered)'
    BY <1>1, <1>2, <2>1, TellsStays
  <2>3. BetweenTurns(i - 1)'
    <3> DEFINE n == i - 1
    <3>1. n \in Nat /\ n <= Len(told) /\ BetweenTurns(n)
      BY <1>2, <2>1 DEF HubInOrder
    <3> HIDE DEF n
    <3>2. BetweenTurns(n)'
      BY <3>1, BetweenStays
    <3> QED BY <3>2 DEF n
  <2>4. request'.stage \in {"reading", "answered"} => i - 1 <= request'.upto
    BY <1>3, <2>1
  <2> QED BY <1>1, <1>5, <2>1, <2>2, <2>3, <2>4
<1> QED BY <1>4, <1>5

(***************************************************************************)
(* The steps of the provider and the hub.                                  *)
(***************************************************************************)
(* The turn goes on, or the next one begins.                               *)
LEMMA OneMoreTold ==
    ASSUME TranscriptTypeOK, ToldInTurns, told # <<>>,
           NEW e \in Speech, e.type # "session_initialized", busy <=> e.type # "user_prompt",
           e.type = "text" => \E w \in Words : e.text = <<w>>,
           told' = Append(told, e), busy' = (e.type # "done")
    PROVE  told' \in Seq(Speech) /\ ToldGrows /\ ToldInTurns' /\ Len(told') >= 2
<1> DEFINE N == Len(told)
<1>1. /\ told \in Seq(Speech) /\ N \in Nat /\ N >= 2 /\ DOMAIN told = 1..N
      /\ busy <=> told[N].type # "done"
  <2>1. told \in Seq(Speech) /\ told # <<>> /\ N # 1 /\ (busy <=> told[N].type # "done")
    BY DEF TranscriptTypeOK, ToldInTurns
  <2>2. N \in Nat /\ DOMAIN told = 1..N /\ N # 0
    BY <2>1
  <2> HIDE DEF N
  <2>3. N >= 2
    BY <2>1, <2>2
  <2> QED BY <2>1, <2>2, <2>3
<1>2. /\ told' \in Seq(Speech) /\ Len(told') = N + 1 /\ DOMAIN told' = 1..(N + 1)
      /\ \A n \in 1..N : told'[n] = told[n]
      /\ told'[N + 1] = e
  BY <1>1
<1> HIDE DEF N
<1>3. ToldGrows
  BY <1>1, <1>2 DEF ToldGrows, N
<1>4. \A n \in 1..(N + 1) : n \in 1..N \/ n = N + 1
  BY <1>1
<1>5. ToldTyped'
  <2>1. \A n \in 1..(N + 1) : told'[n].type = "text" => \E w \in Words : told'[n].text = <<w>>
    BY <1>2, <1>4 DEF ToldInTurns, ToldTyped, N
  <2> QED BY <1>2, <2>1 DEF ToldTyped
<1>6. Turns'
  <2>1. ASSUME NEW n \in 1..(N + 1)
        PROVE  /\ told'[n].type = "session_initialized" <=> n = 1
               /\ told'[n].type = "user_prompt" <=> n = 2 \/ (n > 1 /\ BetweenTurns(n - 1)')
    <3>1. n > 1 => n - 1 \in 1..N /\ told'[n - 1] = told[n - 1] /\ n - 1 # 0
      BY <1>1, <1>2
    <3>2. n > 1 => (BetweenTurns(n - 1)' <=> told[n - 1].type = "done")
      BY <3>1 DEF BetweenTurns
    <3>3. CASE n \in 1..N
      <4>1. /\ told[n].type = "session_initialized" <=> n = 1
            /\ told[n].type = "user_prompt" <=> n = 2 \/ (n > 1 /\ BetweenTurns(n - 1))
        BY <3>3 DEF ToldInTurns, Turns, N
      <4>2. n > 1 => (BetweenTurns(n - 1) <=> told[n - 1].type = "done")
        BY <3>1 DEF BetweenTurns
      <4> QED BY <1>2, <3>2, <3>3, <4>1, <4>2
    <3>4. CASE n = N + 1
      <4>1. told'[n].type = e.type /\ n - 1 = N /\ n > 2
        BY <1>1, <1>2, <3>4
      <4>2. n # 1 /\ n # 2 /\ n > 1
        BY <4>1
      <4>3. BetweenTurns(n - 1)' <=> told[N].type = "done"
        BY <3>2, <4>1, <4>2
      <4> QED BY <1>1, <4>1, <4>2, <4>3
    <3> QED BY <1>4, <3>3, <3>4
  <2>2. Len(told') = N + 1
    BY <1>2
  <2> QED BY <2>1, <2>2 DEF Turns
<1>7. Len(told') # 1 /\ Len(told') >= 2 /\ (busy' <=> told' # <<>> /\ told'[Len(told')].type # "done")
  <2>1. Len(told') # 1 /\ Len(told') >= 2 /\ told' # <<>>
    BY <1>1, <1>2
  <2>2. told'[Len(told')] = e
    BY <1>2
  <2> QED BY <2>1, <2>2
<1> QED BY <1>2, <1>3, <1>5, <1>6, <1>7 DEF ToldInTurns

LEMMA FirstTold ==
    ASSUME told = <<>>, NEW e \in Speech, NEW f \in Speech,
           e.type = "session_initialized", f.type = "user_prompt",
           told' = <<e, f>>, busy' = TRUE
    PROVE  told' \in Seq(Speech) /\ ToldGrows /\ ToldInTurns' /\ Len(told') >= 2
<1>1. /\ told' \in Seq(Speech) /\ Len(told') = 2 /\ DOMAIN told' = 1..2
      /\ told'[1] = e /\ told'[2] = f
  OBVIOUS
<1>2. ToldGrows
  BY <1>1 DEF ToldGrows
<1>3. \A n \in 1..2 : n = 1 \/ n = 2
  OBVIOUS
<1>4. ToldTyped'
  <2>1. \A n \in 1..2 : told'[n].type # "text"
    BY <1>1, <1>3
  <2> QED BY <1>1, <2>1 DEF ToldTyped
<1>5. Turns'
  <2>1. ASSUME NEW n \in 1..2
        PROVE  /\ told'[n].type = "session_initialized" <=> n = 1
               /\ told'[n].type = "user_prompt" <=> n = 2 \/ (n > 1 /\ BetweenTurns(n - 1)')
    <3>1. CASE n = 1
      BY <1>1, <3>1
    <3>2. CASE n = 2
      BY <1>1, <3>2
    <3> QED BY <1>3, <3>1, <3>2
  <2> QED BY <1>1, <2>1 DEF Turns
<1>6. Len(told') # 1 /\ told' # <<>> /\ told'[Len(told')].type # "done"
  BY <1>1
<1> QED BY <1>1, <1>2, <1>4, <1>5, <1>6 DEF ToldInTurns

LEMMA TurnBegins ==
    ASSUME TranscriptTypeOK, ToldInTurns, NEW text \in Prompts, Prompt(text)
    PROVE  /\ told' \in Seq(Speech) /\ ToldGrows /\ ToldInTurns' /\ Len(told') >= 2
           /\ \E begun \in Seq(Speech) :
                 /\ told' = told \o begun
                 /\ Len(begun) \in {1, 2}
                 /\ \A k \in 1..Len(begun) : begun[k].type \in {"session_initialized", "user_prompt"}
                 /\ hub' = hub \o [k \in 1..Len(begun) |-> Numbered(begun[k], published + k, "hub")]
<1> DEFINE first == Said("session_initialized", <<>>)
           prompt == Said("user_prompt", <<text>>)
           begun == (IF told = <<>> THEN <<first>> ELSE <<>>) \o <<prompt>>
           Numbers(s) == [k \in DOMAIN s |-> Numbered(s[k], published + k, "hub")]
<1>1. first \in Speech /\ first.type = "session_initialized"
  <2>1. <<>> \in Seq(Words)
    OBVIOUS
  <2> QED BY <2>1 DEF Said, Speech, Types
<1>2. prompt \in Speech /\ prompt.type = "user_prompt"
  <2>1. <<text>> \in Seq(Words)
    BY DEF Words
  <2> QED BY <2>1 DEF Said, Speech, Types
<1>3. ~busy /\ busy' = TRUE /\ told' = told \o begun /\ hub' = hub \o Numbers(begun)
  BY DEF Prompt
<1>4. told \in Seq(Speech)
  BY DEF TranscriptTypeOK
<1> HIDE DEF first, prompt
<1>5. CASE told = <<>>
  <2>3. <<first>> \o <<prompt>> = <<first, prompt>>
    <3> DEFINE s == <<first>> \o <<prompt>>
               t == <<first, prompt>>
    <3>1. s \in Seq(Speech) /\ Len(s) = 2 /\ s[1] = first /\ s[2] = prompt
      BY <1>1, <1>2
    <3>2. t \in Seq(Speech) /\ Len(t) = 2 /\ t[1] = first /\ t[2] = prompt
      BY <1>1, <1>2
    <3> HIDE DEF s, t
    <3>3. \A k \in 1..2 : k = 1 \/ k = 2
      OBVIOUS
    <3>4. \A k \in 1..Len(s) : s[k] = t[k]
      BY <3>1, <3>2, <3>3
    <3>5. s = t
      BY <3>1, <3>2, <3>4, SameSequence
    <3> QED BY <3>5 DEF s, t
  <2>4. begun = <<first, prompt>> /\ <<first, prompt>> \in Seq(Speech)
    BY <1>1, <1>2, <1>5, <2>3
  <2>5. told' = <<first, prompt>>
    <3> DEFINE s == <<first, prompt>>
    <3>1. s \in Seq(Speech) /\ told' = told \o s
      BY <1>3, <2>4
    <3> HIDE DEF s
    <3>2. <<>> \o s = s
      BY <3>1
    <3> QED BY <1>5, <3>1, <3>2 DEF s
  <2>6. told' \in Seq(Speech) /\ ToldGrows /\ ToldInTurns' /\ Len(told') >= 2
    BY <1>1, <1>2, <1>3, <1>5, <2>5, FirstTold
  <2>7. /\ begun \in Seq(Speech) /\ Len(begun) = 2 /\ DOMAIN begun = 1..2
        /\ \A k \in 1..2 : begun[k].type \in {"session_initialized", "user_prompt"}
    <3>1. \A k \in 1..2 : k = 1 \/ k = 2
      OBVIOUS
    <3>2. begun[1] = first /\ begun[2] = prompt /\ Len(begun) = 2 /\ DOMAIN begun = 1..2
      BY <2>4
    <3> HIDE DEF begun
    <3> QED BY <1>1, <1>2, <2>4, <3>1, <3>2
  <2> HIDE DEF begun
  <2>8. hub' = hub \o [k \in 1..Len(begun) |-> Numbered(begun[k], published + k, "hub")]
    BY <1>3, <2>7
  <2> QED BY <1>3, <2>6, <2>7, <2>8
<1>6. CASE told # <<>>
  <2>1. <<>> \o <<prompt>> = <<prompt>> /\ <<prompt>> \in Seq(Speech)
    <3>1. <<prompt>> \in Seq(Speech)
      BY <1>2
    <3> QED BY <3>1
  <2>2. begun = <<prompt>> /\ told \o <<prompt>> = Append(told, prompt)
    BY <1>2, <1>4, <1>6, <2>1
  <2>3. told' = Append(told, prompt) /\ busy' = (prompt.type # "done")
    BY <1>2, <1>3, <2>2
  <2>4. told' \in Seq(Speech) /\ ToldGrows /\ ToldInTurns' /\ Len(told') >= 2
    BY <1>2, <1>3, <1>6, <2>3, OneMoreTold
  <2>5. /\ begun \in Seq(Speech) /\ Len(begun) = 1 /\ DOMAIN begun = 1..1
        /\ \A k \in 1..1 : begun[k].type \in {"session_initialized", "user_prompt"}
    <3>1. \A k \in 1..1 : k = 1
      OBVIOUS
    <3>2. begun[1] = prompt /\ Len(begun) = 1 /\ DOMAIN begun = 1..1
      BY <2>2
    <3> HIDE DEF begun
    <3> QED BY <1>2, <2>1, <2>2, <3>1, <3>2
  <2> HIDE DEF begun
  <2>6. hub' = hub \o [k \in 1..Len(begun) |-> Numbered(begun[k], published + k, "hub")]
    BY <1>3, <2>5
  <2> QED BY <1>3, <2>4, <2>5, <2>6
<1> QED BY <1>5, <1>6

LEMMA HubKept ==
    ASSUME TranscriptTypeOK, TranscriptTypeOK', HubInOrder, ToldGrows,
           since' = since, delivered' = delivered, written' = written,
           published <= published', published' <= Len(told'), told' # <<>> => published' >= 2
    PROVE  HubInOrder'
<1>1. /\ since \in Nat /\ delivered \in Nat /\ published \in Nat /\ published' \in Nat
      /\ written \in Nat /\ Len(told) \in Nat /\ Len(told') \in Nat /\ Len(told) <= Len(told')
  BY DEF TranscriptTypeOK, ToldGrows
<1>2. BetweenTurns(since)'
  <2>1. since <= Len(told) /\ BetweenTurns(since)
    BY <1>1 DEF HubInOrder
  <2>2. \A n \in Nat : n <= Len(told) /\ BetweenTurns(n) => BetweenTurns(n)'
    BY BetweenStays
  <2> QED BY <1>1, <2>1, <2>2
<1> QED BY <1>1, <1>2 DEF HubInOrder

(* The hub goes on, and the page has been sent no more of it.              *)
LEMMA HubGoesOn ==
    ASSUME TranscriptTypeOK, HubTells, sent' = sent, delivered' = delivered, since' = since,
           Len(hub') \in Nat, Len(hub) <= Len(hub'), \A k \in 1..Len(hub) : hub'[k] = hub[k],
           TellsHub(hub, since, published)'
    PROVE  HubTells'
<1>1. sent \in Nat /\ Len(hub) \in Nat /\ sent <= Len(hub)
  BY DEF TranscriptTypeOK, HubTells
<1>2. sent' <= Len(hub')
  BY <1>1
<1>3. sent # 0 => hub'[sent] = hub[sent]
  BY <1>1
<1>4. delivered' = IF sent' = 0 THEN since' ELSE hub'[sent'].to
  BY <1>3 DEF HubTells
<1> QED BY <1>2, <1>4 DEF HubTells

LEMMA HubSame ==
    ASSUME TranscriptTypeOK, HubTells, ToldGrows,
           UNCHANGED <<hub, since, published, sent, delivered>>
    PROVE  HubTells'
<1>1. hub \in Seq(AllEvents) /\ Len(hub) \in Nat
  BY DEF TranscriptTypeOK
<1>2. TellsHub(hub, since, published)'
  <2>1. TellsHub(hub, since, published)
    BY DEF HubTells
  <2>2. \A h \in Seq(AllEvents) : \A s, p : TellsHub(h, s, p) => TellsHub(h, s, p)'
    BY HubStays
  <2> QED BY <1>1, <2>1, <2>2
<1> QED BY <1>1, <1>2, HubGoesOn

(* One event more.                                                         *)
LEMMA HubAppends ==
    ASSUME TranscriptTypeOK, HubInOrder, HubTells, ToldGrows,
           sent' = sent, delivered' = delivered, since' = since,
           NEW e \in AllEvents, StandsFor(e)' \/ StandsAside(e)', e.source = "hub",
           e.from = published + 1, e.from = (IF LiveOnly(e) THEN e.to + 1 ELSE e.to),
           hub' = Append(hub, e), published' = e.to
    PROVE  HubTells' /\ hub' \in Seq(AllEvents) /\ published' \in Nat /\ published <= published'
<1>1. /\ hub \in Seq(AllEvents) /\ Len(hub) \in Nat /\ since \in Nat /\ published \in Nat
      /\ since <= published
  BY DEF TranscriptTypeOK, HubInOrder
<1>2. PICK h \in Seq(AllEvents), s \in Nat, p \in Nat : h = hub /\ s = since /\ p = published
  BY <1>1
<1>3. TellsHub(h, s, p)'
  <2>1. TellsHub(h, s, p)
    BY <1>2 DEF HubTells
  <2> QED BY <2>1, HubStays
<1>4. /\ Append(h, e) \in Seq(AllEvents) /\ p <= e.to /\ e.to \in Nat
      /\ TellsHub(Append(h, e), s, e.to)'
  BY <1>1, <1>2, <1>3, HubMore
<1>5. TellsHub(hub, since, published)'
  BY <1>2, <1>4
<1>6. Len(hub') = Len(hub) + 1 /\ \A k \in 1..Len(hub) : hub'[k] = hub[k]
  BY <1>1
<1> QED BY <1>1, <1>2, <1>4, <1>5, <1>6, HubGoesOn

(* The event of something that is said in one piece.                       *)
LEMMA NumberedStands ==
    ASSUME NEW e \in Speech, e.type # "text", NEW n \in Nat, n \in 1..Len(told'), told'[n] = e,
           Len(told') \in Nat, NEW x, x = Numbered(e, n, "hub")
    PROVE  x \in AllEvents /\ StandsFor(x)' /\ x.source = "hub" /\ x.from = n /\ x.to = n /\ ~LiveOnly(x)
<1>1. e.type \in Types /\ e.text \in Seq(Words)
  BY SpeechIs
<1>2. x = [type |-> e.type, text |-> e.text, from |-> n, to |-> n, source |-> "hub"]
  BY DEF Numbered
<1>3. x \in AllEvents
  BY <1>1, <1>2 DEF AllEvents, AllTypes
<1>4. x.type = e.type /\ x.text = e.text /\ x.source = "hub" /\ x.from = n /\ x.to = n
  BY <1>2
<1>5. ~LiveOnly(x)
  BY <1>1, <1>4 DEF LiveOnly, Types
<1>6. StandsFor(x)'
  <2>1. x.from \in 1..x.to /\ x.to <= Len(told') /\ \A m \in x.from..x.to : told'[m].type = x.type
    BY <1>4
  <2>2. x.type # "text" /\ x.from = x.to /\ x.text = told'[x.from].text
    BY <1>4
  <2> QED BY <2>1, <2>2 DEF StandsFor
<1> QED BY <1>3, <1>4, <1>5, <1>6

(* The hub with the events of the prompt that begins a turn.               *)
LEMMA HubBegins ==
    ASSUME TranscriptTypeOK, HubInOrder, HubTells, ToldGrows, published = Len(told),
           sent' = sent, delivered' = delivered, since' = since,
           NEW begun \in Seq(Speech), told' = told \o begun, Len(begun) \in {1, 2},
           \A k \in 1..Len(begun) : begun[k].type \in {"session_initialized", "user_prompt"},
           hub' = hub \o [k \in 1..Len(begun) |-> Numbered(begun[k], published + k, "hub")],
           published' = Len(told')
    PROVE  HubTells' /\ hub' \in Seq(AllEvents)
<1>0. PICK p \in Nat : p = published
  BY DEF TranscriptTypeOK
<1> DEFINE x(k) == Numbered(begun[k], p + k, "hub")
<1>1. /\ published \in Nat /\ since \in Nat /\ since <= published /\ hub \in Seq(AllEvents)
      /\ Len(hub) \in Nat /\ told \in Seq(Speech)
  BY DEF TranscriptTypeOK, HubInOrder
<1>2. Len(told') = published + Len(begun) /\ \A k \in 1..Len(begun) : told'[published + k] = begun[k]
  BY <1>1, TogetherIs
<1>3. ASSUME NEW k \in 1..Len(begun)
      PROVE  /\ x(k) \in AllEvents /\ StandsFor(x(k))' /\ x(k).source = "hub"
             /\ x(k).from = p + k /\ x(k).to = p + k /\ ~LiveOnly(x(k))
  <2>0. PICK n \in Nat, e \in Speech : n = p + k /\ e = begun[k]
    OBVIOUS
  <2>1. PICK z : n = p + k /\ e = begun[k] /\ z = x(k)
    BY <2>0
  <2>3. z = Numbered(e, n, "hub")
    BY <2>1
  <2> HIDE DEF x
  <2>2. n \in 1..Len(told') /\ told'[n] = e /\ Len(told') \in Nat /\ e.type # "text"
    <3>1. n = published + k /\ e = begun[k]
      BY <1>0, <2>1
    <3>2. told'[n] = e
      BY <1>2, <3>1
    <3>3. Len(told') = published + Len(begun) /\ Len(begun) \in Nat
      BY <1>2
    <3>4. e.type # "text"
      BY <3>1
    <3> QED BY <1>1, <3>1, <3>2, <3>3, <3>4
  <2>4. z \in AllEvents /\ StandsFor(z)' /\ z.source = "hub" /\ z.from = n /\ z.to = n /\ ~LiveOnly(z)
    BY <2>2, <2>3, NumberedStands
  <2> QED BY <2>1, <2>4
<1> HIDE DEF x
<1>4. CASE Len(begun) = 1
  <2>1. PICK e \in AllEvents : e = x(1)
    BY <1>3, <1>4
  <2>2. /\ StandsFor(e)' /\ e.source = "hub" /\ ~LiveOnly(e)
        /\ e.from = published + 1 /\ e.to = published + 1 /\ published' = e.to
    BY <1>0, <1>2, <1>3, <1>4, <2>1
  <2>3. hub' = Append(hub, e)
    <3>1. [k \in 1..1 |-> x(k)] = <<x(1)>>
      OBVIOUS
    <3>2. hub' = hub \o <<e>>
      <4> DEFINE fcn == [k \in 1..Len(begun) |-> Numbered(begun[k], published + k, "hub")]
      <4>1. fcn = [k \in 1..1 |-> x(k)]
        BY <1>0, <1>4 DEF x
      <4>2. hub' = hub \o fcn
        OBVIOUS
      <4> HIDE DEF fcn
      <4>3. fcn = <<e>>
        BY <2>1, <3>1, <4>1
      <4> QED BY <4>2, <4>3
    <3>3. \A s \in Seq(AllEvents) : Append(s, e) = s \o <<e>>
      OBVIOUS
    <3> QED BY <1>1, <3>2, <3>3
  <2> QED BY <2>2, <2>3, HubAppends
<1>5. CASE Len(begun) = 2
  <2>1. /\ x(1) \in AllEvents /\ StandsFor(x(1))' /\ x(1).source = "hub" /\ ~LiveOnly(x(1))
        /\ x(1).from = p + 1 /\ x(1).to = p + 1
    BY <1>3, <1>5
  <2>2. /\ x(2) \in AllEvents /\ StandsFor(x(2))' /\ x(2).source = "hub" /\ ~LiveOnly(x(2))
        /\ x(2).from = p + 2 /\ x(2).to = p + 2
    BY <1>3, <1>5
  <2>3. hub' = hub \o <<x(1), x(2)>>
    <3> DEFINE y == [k \in 1..2 |-> x(k)]
               z == <<x(1), x(2)>>
    <3>1. y \in Seq(AllEvents) /\ Len(y) = 2 /\ y[1] = x(1) /\ y[2] = x(2)
      BY <1>3, <1>5
    <3>2. z \in Seq(AllEvents) /\ Len(z) = 2 /\ z[1] = x(1) /\ z[2] = x(2)
      BY <2>1, <2>2
    <3>3. hub' = hub \o y
      BY <1>0, <1>5 DEF x
    <3> HIDE DEF y, z
    <3>4. \A k \in 1..2 : k = 1 \/ k = 2
      OBVIOUS
    <3>5. \A k \in 1..Len(y) : y[k] = z[k]
      BY <3>1, <3>2, <3>4
    <3>6. y = z
      BY <3>1, <3>2, <3>5, SameSequence
    <3> QED BY <3>3, <3>6 DEF z
  <2>4. PICK h \in Seq(AllEvents), s \in Nat, e \in AllEvents, f \in AllEvents :
           h = hub /\ s = since /\ e = x(1) /\ f = x(2)
    BY <1>1, <2>1, <2>2
  <2>5. /\ StandsFor(e)' /\ e.source = "hub" /\ ~LiveOnly(e) /\ e.from = p + 1 /\ e.to = p + 1
        /\ StandsFor(f)' /\ f.source = "hub" /\ ~LiveOnly(f) /\ f.from = p + 2 /\ f.to = p + 2
        /\ s <= p /\ published' = p + 2 /\ since' = s
    BY <1>0, <1>1, <1>2, <1>5, <2>1, <2>2, <2>4
  <2>6. TellsHub(h, s, p)'
    <3>1. TellsHub(h, s, p)
      BY <1>0, <2>4 DEF HubTells
    <3> QED BY <3>1, HubStays
  <2>7. Append(h, e) \in Seq(AllEvents) /\ TellsHub(Append(h, e), s, p + 1)'
    BY <2>5, <2>6, HubMore
  <2>8. PICK g \in Seq(AllEvents) : g = Append(h, e)
    BY <2>7
  <2>9. Append(g, f) \in Seq(AllEvents) /\ TellsHub(Append(g, f), s, p + 2)'
    <3>1. TellsHub(g, s, p + 1)' /\ p + 1 \in Nat /\ s <= p + 1 /\ f.from = (p + 1) + 1
      BY <2>5, <2>7, <2>8
    <3>2. Append(g, f) \in Seq(AllEvents) /\ TellsHub(Append(g, f), s, f.to)'
      BY <2>5, <3>1, HubMore
    <3> QED BY <2>5, <3>2
  <2>10. hub' = Append(g, f)
    <3>0. PICK y \in Seq(AllEvents) : y = <<e, f>>
      <4>1. <<e, f>> \in Seq(AllEvents)
        OBVIOUS
      <4> QED BY <4>1
    <3>1. Len(y) = 2 /\ y[1] = e /\ y[2] = f
      BY <3>0
    <3> DEFINE z == h \o y
               v == Append(g, f)
    <3>7. Len(h) \in Nat
      OBVIOUS
    <3>2. /\ Len(g) = Len(h) + 1 /\ g[Len(h) + 1] = e
          /\ \A k \in 1..Len(h) : g[k] = h[k]
      BY <2>8
    <3>3. /\ z \in Seq(AllEvents) /\ Len(z) = Len(h) + 2
          /\ \A k \in 1..Len(h) : z[k] = h[k]
          /\ z[Len(h) + 1] = e /\ z[Len(h) + 2] = f
      <4>1. /\ z \in Seq(AllEvents) /\ Len(z) = Len(h) + Len(y)
            /\ \A k \in 1..Len(h) : z[k] = h[k]
            /\ \A k \in 1..Len(y) : z[Len(h) + k] = y[k]
        BY TogetherIs
      <4>2. 1 \in 1..Len(y) /\ 2 \in 1..Len(y)
        BY <3>1
      <4> HIDE DEF z
      <4> QED BY <3>1, <4>1, <4>2
    <3>4. /\ v \in Seq(AllEvents) /\ Len(v) = Len(h) + 2
          /\ \A k \in 1..Len(h) : v[k] = h[k]
          /\ v[Len(h) + 1] = e /\ v[Len(h) + 2] = f
      BY <3>2
    <3> HIDE DEF z, v
    <3>5. \A k \in 1..Len(z) : z[k] = v[k]
      <4>1. \A k \in 1..(Len(h) + 2) : k \in 1..Len(h) \/ k = Len(h) + 1 \/ k = Len(h) + 2
        <5>1. \A m \in Nat : \A k \in 1..(m + 2) : k \in 1..m \/ k = m + 1 \/ k = m + 2
          OBVIOUS
        <5> QED BY <3>7, <5>1
      <4> QED BY <3>3, <3>4, <4>1
    <3>6. z = v
      BY <3>3, <3>4, <3>5, SameSequence
    <3> QED BY <2>3, <2>4, <3>0, <3>6 DEF z, v
  <2>11. TellsHub(hub, since, published)'
    BY <2>5, <2>9, <2>10
  <2>12. Len(hub') = Len(hub) + 2 /\ \A k \in 1..Len(hub) : hub'[k] = hub[k]
    BY <2>4, <2>8, <2>10
  <2>13. hub' \in Seq(AllEvents) /\ Len(hub') \in Nat /\ Len(hub) <= Len(hub')
    <3>1. hub' \in Seq(AllEvents)
      BY <2>9, <2>10
    <3>2. Len(hub') = Len(hub) + 2
      BY <2>12
    <3> QED BY <1>1, <3>1, <3>2
  <2> QED BY <2>11, <2>12, <2>13, HubGoesOn
<1> QED BY <1>4, <1>5

LEMMA PromptKeeps ==
    ASSUME TranscriptInv, NEW text \in Prompts, Prompt(text) PROVE TranscriptInv'
<1> USE DEF TranscriptInv
<1>1. told' \in Seq(Speech) /\ ToldGrows /\ ToldInTurns' /\ Len(told') >= 2
  BY TurnBegins
<1>2. /\ busy' = TRUE /\ published = Len(told) /\ published' = Len(told')
      /\ UNCHANGED <<written, since, sent, delivered, cacheVars, panelVars, historyVars>>
  BY DEF Prompt, pageVars
<1>9. HubTells' /\ hub' \in Seq(AllEvents)
  <2>1. PICK begun \in Seq(Speech) :
           /\ told' = told \o begun
           /\ Len(begun) \in {1, 2}
           /\ \A k \in 1..Len(begun) : begun[k].type \in {"session_initialized", "user_prompt"}
           /\ hub' = hub \o [k \in 1..Len(begun) |-> Numbered(begun[k], published + k, "hub")]
    BY TurnBegins
  <2> QED BY <1>1, <1>2, <2>1, HubBegins
<1>3. TranscriptTypeOK'
  <2>1. published' \in Nat /\ hub' \in Seq(AllEvents)
    BY <1>1, <1>2, <1>9 DEF ToldGrows
  <2> QED BY <1>1, <1>2, <2>1 DEF TranscriptTypeOK, cacheVars, panelVars, historyVars
<1>4. published <= published' /\ written <= written'
  BY <1>1, <1>2 DEF TranscriptTypeOK, HubInOrder, ToldGrows
<1>5. HubInOrder'
  <2>1. published' <= Len(told') /\ published' >= 2
    BY <1>1, <1>2 DEF ToldGrows
  <2> QED BY <1>1, <1>2, <1>3, <1>4, <2>1, HubKept
<1>6. CursorIsBehind'
  BY <1>2 DEF CursorIsBehind, cacheVars, historyVars
<1>7. AnswerTells'
  BY <1>1, <1>2, <1>3, <1>4, AnswerKept DEF panelVars
<1>8. CacheTells'
  BY <1>1, <1>2, <1>3, <1>4, CacheKept DEF panelVars, cacheVars, historyVars
<1> QED BY <1>1, <1>3, <1>5, <1>6, <1>7, <1>8, <1>9

LEMMA ProviderKeeps ==
    ASSUME TranscriptInv, NEW e \in Speech, e.type \in {"text", "tool", "done"}, Provider(e),
           e.type = "text" => \E w \in Words : e.text = <<w>>, busy' = (e.type # "done")
    PROVE  TranscriptInv'
<1> USE DEF TranscriptInv
<1>1. /\ busy /\ told' = Append(told, e)
      /\ UNCHANGED <<written, hub, published, since, sent, delivered, cacheVars, panelVars, historyVars>>
  BY DEF Provider, hubVars, pageVars
<1>2. told' \in Seq(Speech) /\ ToldGrows /\ ToldInTurns' /\ told # <<>>
  <2>1. told # <<>> /\ (busy <=> e.type # "user_prompt") /\ e.type # "session_initialized"
    BY <1>1 DEF ToldInTurns
  <2> QED BY <1>1, <2>1, OneMoreTold
<1>3. TranscriptTypeOK'
  BY <1>1, <1>2 DEF TranscriptTypeOK, cacheVars, panelVars, historyVars
<1>4. published <= published' /\ written <= written' /\ published' <= Len(told') /\ published' >= 2
  BY <1>1, <1>2 DEF TranscriptTypeOK, HubInOrder, ToldGrows
<1>5. HubInOrder'
  BY <1>1, <1>2, <1>3, <1>4, HubKept
<1>6. CursorIsBehind'
  BY <1>1 DEF CursorIsBehind, cacheVars, historyVars
<1>7. AnswerTells'
  BY <1>1, <1>2, <1>3, <1>4, AnswerKept DEF panelVars
<1>8. CacheTells'
  BY <1>1, <1>2, <1>3, <1>4, CacheKept DEF panelVars, cacheVars, historyVars
<1>9. HubTells'
  BY <1>1, <1>2, HubSame
<1> QED BY <1>2, <1>3, <1>5, <1>6, <1>7, <1>8, <1>9

LEMMA SpeakKeeps == ASSUME TranscriptInv, Speak PROVE TranscriptInv'
<1>1. UNCHANGED busy /\ busy
  BY DEF Speak, Provider
<1>2. CASE \E piece \in Pieces : Provider(Said("text", <<piece>>))
  <2>1. PICK piece \in Pieces : Provider(Said("text", <<piece>>))
    BY <1>2
  <2> DEFINE e == Said("text", <<piece>>)
  <2>2. /\ e \in Speech /\ e.type = "text" /\ \E w \in Words : e.text = <<w>>
    <3>1. piece \in Words /\ <<piece>> \in Seq(Words)
      BY DEF Words
    <3> QED BY <3>1 DEF Said, Speech, Types
  <2> HIDE DEF e
  <2>3. busy' = (e.type # "done")
    BY <1>1, <2>2 DEF TranscriptInv, TranscriptTypeOK
  <2>4. Provider(e)
    BY <2>1 DEF e
  <2> QED BY <2>2, <2>3, <2>4, ProviderKeeps
<1>3. CASE \E tool \in Tools : Provider(Said("tool", <<tool>>))
  <2>1. PICK tool \in Tools : Provider(Said("tool", <<tool>>))
    BY <1>3
  <2> DEFINE e == Said("tool", <<tool>>)
  <2>2. e \in Speech /\ e.type = "tool"
    <3>1. tool \in Words /\ <<tool>> \in Seq(Words)
      BY DEF Words
    <3> QED BY <3>1 DEF Said, Speech, Types
  <2> HIDE DEF e
  <2>3. busy' = (e.type # "done")
    BY <1>1, <2>2 DEF TranscriptInv, TranscriptTypeOK
  <2>4. Provider(e)
    BY <2>1 DEF e
  <2> QED BY <2>2, <2>3, <2>4, ProviderKeeps
<1> QED BY <1>2, <1>3 DEF Speak

LEMMA FinishKeeps == ASSUME TranscriptInv, Finish PROVE TranscriptInv'
<1> DEFINE e == Said("done", <<>>)
<1>1. e \in Speech /\ e.type = "done"
  <2>1. <<>> \in Seq(Words)
    OBVIOUS
  <2> QED BY <2>1 DEF Said, Speech, Types
<1>2. Provider(e) /\ busy' = FALSE
  BY DEF Finish
<1> HIDE DEF e
<1>3. busy' = (e.type # "done")
  BY <1>1, <1>2
<1> QED BY <1>1, <1>2, <1>3, ProviderKeeps

(* The hub has one event more, the conversation is the same.               *)
LEMMA HubChanges ==
    ASSUME TranscriptInv,
           UNCHANGED <<told, busy, written, since, sent, delivered, cacheVars, panelVars, historyVars>>,
           HubTells', hub' \in Seq(AllEvents), published' \in Nat,
           published <= published', published' <= Len(told'), told' # <<>> => published' >= 2
    PROVE  TranscriptInv'
<1> USE DEF TranscriptInv
<1>1. ToldGrows
  BY SameGrows DEF TranscriptTypeOK
<1>2. TranscriptTypeOK'
  BY DEF TranscriptTypeOK, cacheVars, panelVars, historyVars
<1>3. written <= written'
  BY DEF TranscriptTypeOK
<1>4. HubInOrder'
  BY <1>1, <1>2, HubKept
<1>5. CursorIsBehind'
  BY DEF CursorIsBehind, cacheVars, historyVars
<1>6. AnswerTells'
  BY <1>1, <1>2, <1>3, AnswerKept DEF panelVars
<1>7. CacheTells'
  BY <1>1, <1>2, <1>3, CacheKept DEF panelVars, cacheVars, historyVars
<1>8. ToldInTurns'
  BY DEF ToldInTurns, ToldTyped, Turns, BetweenTurns
<1> QED BY <1>2, <1>4, <1>5, <1>6, <1>7, <1>8

LEMMA RemarkKeeps == ASSUME TranscriptInv, Remark PROVE TranscriptInv'
<1> USE DEF TranscriptInv
<1>1. PICK said \in {Said("usage", <<>>)} \cup {Said("output", <<tool>>) : tool \in Tools} :
         hub' = Append(hub, [Numbered(said, published, "hub") EXCEPT !.from = published + 1])
  BY DEF Remark
<1>2. /\ ~BetweenTurns(published)
      /\ UNCHANGED <<told, busy, written, published, since, sent, delivered, cacheVars, panelVars, historyVars>>
  BY DEF Remark, providerVars, pageVars
<1>3. published \in Nat /\ Len(told) \in Nat /\ published <= Len(told) /\ DOMAIN told = 1..Len(told)
  BY DEF TranscriptTypeOK, HubInOrder
<1>4. published \in DOMAIN told
  BY <1>2, <1>3 DEF BetweenTurns
<1>5. said.type \in {"usage", "output"} /\ said.text \in Seq(Words)
  <2>1. <<>> \in Seq(Words) /\ \A tool \in Tools : <<tool>> \in Seq(Words)
    BY DEF Words
  <2>2. CASE said = Said("usage", <<>>)
    BY <2>1, <2>2 DEF Said
  <2>3. CASE \E tool \in Tools : said = Said("output", <<tool>>)
    <3>1. PICK tool \in Tools : said = Said("output", <<tool>>)
      BY <2>3
    <3>2. said.type = "output" /\ said.text = <<tool>>
      BY <3>1 DEF Said
    <3> QED BY <2>1, <3>2
  <2> QED BY <2>2, <2>3
<1> DEFINE x == [Numbered(said, published, "hub") EXCEPT !.from = published + 1]
<1>6. x = [type |-> said.type, text |-> said.text, from |-> published + 1, to |-> published, source |-> "hub"]
  BY DEF Numbered
<1>7. x \in AllEvents
  BY <1>3, <1>5, <1>6 DEF AllEvents, AllTypes
<1>8. /\ x.type = said.type /\ x.from = published + 1 /\ x.to = published /\ x.source = "hub"
      /\ hub' = Append(hub, x)
  BY <1>1, <1>6
<1> HIDE DEF x
<1>9. PICK e \in AllEvents : e = x
  BY <1>7
<1>10. /\ LiveOnly(e) /\ StandsAside(e) /\ e.source = "hub" /\ e.from = published + 1
       /\ e.to = published /\ hub' = Append(hub, e)
  BY <1>4, <1>5, <1>8, <1>9 DEF LiveOnly, StandsAside
<1>11. ToldGrows
  BY <1>2, SameGrows DEF TranscriptTypeOK
<1>12. StandsAside(e)'
  BY <1>10, <1>11, StandsAsideStays
<1>13. HubTells' /\ hub' \in Seq(AllEvents) /\ published' \in Nat
  <2>1. e.from = IF LiveOnly(e) THEN e.to + 1 ELSE e.to
    BY <1>10
  <2>2. published' = e.to
    BY <1>2, <1>10
  <2> QED BY <1>2, <1>10, <1>11, <1>12, <2>1, <2>2, HubAppends
<1>14. published <= published' /\ published' <= Len(told') /\ (told' # <<>> => published' >= 2)
  BY <1>2, <1>3 DEF HubInOrder
<1> QED BY <1>2, <1>13, <1>14, HubChanges

LEMMA PublishKeeps == ASSUME TranscriptInv, Publish PROVE TranscriptInv'
<1> USE DEF TranscriptInv
<1> DEFINE n == published + 1
<1>1. /\ published < Len(told) /\ published' = n /\ hub' = Append(hub, Event(n, "hub"))
      /\ UNCHANGED <<told, busy, written, since, sent, delivered, cacheVars, panelVars, historyVars>>
  BY DEF Publish, providerVars, pageVars
<1>2. ToldGrows
  BY <1>1, SameGrows DEF TranscriptTypeOK
<1>3. published \in Nat /\ Len(told) \in Nat /\ n \in 1..Len(told) /\ n \in Nat
  BY <1>1 DEF TranscriptTypeOK
<1>4. PICK e \in AllEvents :
         /\ e = Event(n, "hub") /\ StandsFor(e) /\ ~LiveOnly(e)
         /\ e.from = n /\ e.to = n /\ e.source = "hub"
  <2> DEFINE x == Event(n, "hub")
  <2>1. "hub" \in {"hub", "transcript"} /\ ToldTyped
    BY DEF ToldInTurns
  <2> HIDE DEF n
  <2>2. x \in Events /\ StandsFor(x) /\ x.from = n /\ x.to = n /\ x.source = "hub"
    BY <1>3, <2>1, EventTells
  <2> HIDE DEF x
  <2>3. x \in AllEvents /\ ~LiveOnly(x)
    BY <2>2, EventIs
  <2> QED BY <2>2, <2>3 DEF x
<1>5. StandsFor(e)'
  BY <1>2, <1>4, StandsForStays
<1>6. HubTells' /\ hub' \in Seq(AllEvents) /\ published' \in Nat /\ published <= published'
  <2>1. e.from = IF LiveOnly(e) THEN e.to + 1 ELSE e.to
    BY <1>4
  <2> HIDE DEF n
  <2>2. hub' = Append(hub, e) /\ published' = e.to
    BY <1>1, <1>4
  <2>3. e.from = published + 1
    BY <1>4 DEF n
  <2> QED BY <1>1, <1>2, <1>4, <1>5, <2>1, <2>2, <2>3, HubAppends
<1>7. published <= published' /\ written <= written' /\ published' <= Len(told')
      /\ (told' # <<>> => published' >= 2)
  BY <1>1, <1>3 DEF TranscriptTypeOK, HubInOrder
<1> QED BY <1>1, <1>2, <1>6, <1>7, HubChanges

LEMMA WriteRowKeeps == ASSUME TranscriptInv, WriteRow PROVE TranscriptInv'
<1> USE DEF TranscriptInv
<1> DEFINE ends == {n \in (written + 1)..Len(told) : EndsRow(n)}
<1>1. /\ ends # {} /\ written' = Min(ends)
      /\ UNCHANGED <<told, busy, hub, published, since, sent, delivered, cacheVars, panelVars, historyVars>>
  BY DEF WriteRow, hubVars, pageVars
<1>2. ToldGrows
  BY <1>1, SameGrows DEF TranscriptTypeOK
<1>3. written \in Nat /\ Len(told) \in Nat /\ since \in Nat
  BY DEF TranscriptTypeOK
<1>4. written' \in ends
  <2>1. ends \subseteq Nat
    BY <1>3
  <2> HIDE DEF ends
  <2> QED BY <1>1, <2>1, MinOf
<1>5. written' \in Nat /\ written < written' /\ written' <= Len(told) /\ written' # 1
  <2>1. written' \in Nat /\ written < written' /\ written' <= Len(told) /\ EndsRow(written')
    BY <1>3, <1>4
  <2>2. 1 <= Len(told) => told[1].type = "session_initialized"
    <3> SUFFICES ASSUME 1 <= Len(told) PROVE told[1].type = "session_initialized"
      OBVIOUS
    <3>1. 1 \in 1..Len(told)
      BY <1>3
    <3> QED BY <3>1 DEF ToldInTurns, Turns
  <2>3. written' = 1 => ~EndsRow(1)
    BY <2>1, <2>2 DEF EndsRow
  <2> QED BY <2>1, <2>3
<1> HIDE DEF ends
<1>6. TranscriptTypeOK'
  BY <1>1, <1>5 DEF TranscriptTypeOK, cacheVars, panelVars, historyVars
<1>7. published <= published' /\ written <= written'
  BY <1>1, <1>5, <1>3 DEF TranscriptTypeOK
<1>8. HubInOrder'
  BY <1>1, <1>3, <1>5 DEF HubInOrder, BetweenTurns
<1>9. CursorIsBehind'
  BY <1>1 DEF CursorIsBehind, cacheVars, historyVars
<1>10. AnswerTells'
  BY <1>1, <1>2, <1>6, <1>7, AnswerKept DEF panelVars
<1>11. CacheTells'
  BY <1>1, <1>2, <1>6, <1>7, CacheKept DEF panelVars, cacheVars, historyVars
<1>12. ToldInTurns'
  BY <1>1 DEF ToldInTurns, ToldTyped, Turns, BetweenTurns
<1>13. HubTells'
  BY <1>1, <1>2, HubSame
<1> QED BY <1>6, <1>8, <1>9, <1>10, <1>11, <1>12, <1>13

(***************************************************************************)
(* The steps of a request.                                                 *)
(***************************************************************************)
(* The cache is kept while the request goes on.                            *)
LEMMA CacheWaits ==
    ASSUME TranscriptInv, opened,
           UNCHANGED <<told, busy, written, hub, published, since, sent, delivered, cache, cursor,
                       runStatus, opened, attended, loaded>>,
           request' \in Requests, request'.stage \in {"reading", "answered"},
           request'.stage = "answered" => request'.rows = written,
           request.stage # "answered",
           request'.upto = published \/ (request.stage = "reading" /\ request'.upto = request.upto),
           AnswerTells'
    PROVE  TranscriptInv'
<1> USE DEF TranscriptInv
<1>1. TranscriptTypeOK'
  BY DEF TranscriptTypeOK
<1>2. ToldInTurns' /\ HubInOrder' /\ CursorIsBehind'
  BY DEF ToldInTurns, ToldTyped, Turns, BetweenTurns, HubInOrder, CursorIsBehind
<1>3. ToldGrows
  BY SameGrows DEF TranscriptTypeOK
<1>4. HubTells'
  BY <1>3, HubSame
<1>5. CacheTells'
  <2> SUFFICES ASSUME attended, NothingRepeated PROVE CacheTells'
    BY DEF CacheTells, NothingRepeated
  <2>1. cache \in Seq(AllEvents) /\ delivered \in Nat /\ published \in Nat /\ delivered <= published
    BY DEF TranscriptTypeOK, HubInOrder
  <2>2. Comparable(cache)' => Comparable(cache)
    BY DEF Comparable, LiveOnly
  <2>3. CASE loaded
    <3>1. PICK i \in {1, 2} : Tells(cache, i, delivered)
      BY <2>3 DEF CacheTells
    <3>2. Tells(cache, i, delivered)'
      BY <1>3, <2>1, <3>1, TellsStays
    <3>3. RowsSeen' = RowsSeen /\ (Comparable(cache) => Parted(cache, RowsSeen))
      BY <2>3 DEF RowsSeen, CacheTells
    <3>4. Comparable(cache)' => Parted(cache, RowsSeen)'
      BY <2>2, <3>3 DEF Parted
    <3> QED BY <2>3, <3>2, <3>4 DEF CacheTells
  <2>4. CASE ~loaded
    <3>1. PICK i \in 1..(delivered + 1) :
             /\ Tells(cache, i, delivered) /\ BetweenTurns(i - 1)
             /\ Comparable(cache) => Parted(cache, 0)
             /\ request.stage \in {"reading", "answered"} => i - 1 <= request.upto
      BY <2>4 DEF CacheTells
    <3>2. Tells(cache, i, delivered)'
      BY <1>3, <2>1, <3>1, TellsStays
    <3>3. BetweenTurns(i - 1)'
      BY <3>1 DEF BetweenTurns
    <3>4. i - 1 <= request'.upto
      BY <2>1, <3>1
    <3>5. Comparable(cache)' => Parted(cache, 0)'
      BY <2>2, <3>1 DEF Parted
    <3> QED BY <2>4, <3>1, <3>2, <3>3, <3>4, <3>5 DEF CacheTells
  <2> QED BY <2>3, <2>4
<1> QED BY <1>1, <1>2, <1>4, <1>5

LEMMA TakeSnapshotKeeps == ASSUME TranscriptInv, TakeSnapshot PROVE TranscriptInv'
<1> USE DEF TranscriptInv
<1>1. /\ request.stage = "asked"
      /\ request' = [request EXCEPT !.stage = "reading", !.upto = published, !.events = hub]
      /\ UNCHANGED <<told, busy, written, hub, published, since, sent, delivered, cache, cursor,
                     runStatus, opened, attended, loaded>>
  BY DEF TakeSnapshot, providerVars, hubVars, pageVars, cacheVars, historyVars
<1>2. /\ request' \in Requests
      /\ request'.stage = "reading" /\ request'.upto = published /\ request'.events = hub
  BY <1>1 DEF TranscriptTypeOK, Requests, Stages
<1>3. opened
  <2>1. NoRequest.stage = "none"
    BY DEF NoRequest
  <2> QED BY <1>1, <2>1 DEF AnswerTells
<1>4. AnswerTells'
  <2>1. since <= published /\ 2 <= published /\ published <= published
    BY <1>3 DEF AnswerTells, HubInOrder, TranscriptTypeOK
  <2>2. TellsHub(request.events, since, request.upto)'
    <3>1. hub \in Seq(AllEvents) /\ TellsHub(hub, since, published) /\ ToldGrows
      BY <1>1, SameGrows DEF TranscriptTypeOK, HubTells
    <3>2. \A h \in Seq(AllEvents) : \A s, p : TellsHub(h, s, p) => TellsHub(h, s, p)'
      BY <3>1, HubStays
    <3> QED BY <1>1, <1>2, <3>1, <3>2
  <2> QED BY <1>1, <1>2, <1>3, <2>1, <2>2 DEF AnswerTells
<1> QED BY <1>1, <1>2, <1>3, <1>4, CacheWaits

(* The answer is put together.                                             *)
LEMMA ReadTranscriptKeeps == ASSUME TranscriptInv, ReadTranscript PROVE TranscriptInv'
<1> USE DEF TranscriptInv
<1> DEFINE u == request.upto
           S == request.events
           m == MergedHistory(Rows, S)
<1>1. /\ request.stage = "reading"
      /\ request' = [request EXCEPT !.stage = "answered", !.rows = written, !.events = m]
      /\ UNCHANGED <<told, busy, written, hub, published, since, sent, delivered, cache, cursor,
                     runStatus, opened, attended, loaded>>
  BY DEF ReadTranscript, providerVars, hubVars, pageVars, cacheVars, historyVars
<1>2. /\ ToldTyped /\ Turns /\ written \in Nat /\ since \in Nat /\ u \in Nat /\ published \in Nat
      /\ since <= written /\ written <= Len(told) /\ written # 1
      /\ since <= u /\ 2 <= u /\ u <= Len(told) /\ BetweenTurns(since) /\ u <= published
  <2>1. /\ since \in Nat /\ published \in Nat /\ written \in Nat /\ Len(told) \in Nat /\ u \in Nat
    BY RequestIs DEF TranscriptTypeOK
  <2>2. since <= u /\ 2 <= u /\ u <= published
    BY <1>1 DEF AnswerTells
  <2>3. /\ ToldTyped /\ Turns /\ since <= written /\ written <= Len(told) /\ written # 1
        /\ BetweenTurns(since) /\ published <= Len(told)
    BY DEF ToldInTurns, HubInOrder
  <2> HIDE DEF u
  <2> QED BY <2>1, <2>2, <2>3
<1>3. /\ Rows \in Seq(Events) /\ Rows \in Seq(AllEvents) /\ S \in Seq(AllEvents)
      /\ TellsHub(S, since, u) /\ m \in Seq(AllEvents)
  <2>1. Rows \in Seq(Events)
    BY <1>2, RowsTell
  <2>2. S \in Seq(AllEvents) /\ TellsHub(S, since, u)
    BY <1>1, RequestIs DEF AnswerTells
  <2>3. Rows \in Seq(AllEvents)
    BY <2>1, AllComparable
  <2> HIDE DEF S
  <2> QED BY <2>1, <2>2, <2>3, MergedType
<1> HIDE DEF m
<1>4. /\ request' \in Requests
      /\ request'.stage = "answered" /\ request'.upto = u /\ request'.rows = written /\ request'.events = m
  BY <1>1, <1>2, <1>3 DEF TranscriptTypeOK, Requests, Stages
<1>7. opened
  <2>1. NoRequest.stage = "none"
    BY DEF NoRequest
  <2> QED BY <1>1, <2>1 DEF AnswerTells
<1>8. ToldGrows
  BY <1>1, SameGrows DEF TranscriptTypeOK
<1>9. AnswerTells'
  <2>1. /\ request'.stage \in {"reading", "answered"} =>
             since' <= request'.upto /\ 2 <= request'.upto /\ request'.upto <= published'
        /\ request'.rows <= written'
    BY <1>1, <1>2, <1>4
  <2>2. opened' /\ told' # <<>>
    BY <1>1, <1>7 DEF AnswerTells
  <2>3. ASSUME NothingRepeated', ~Mistaken(request)', Comparable(request.events)'
        PROVE  /\ \E i \in {1, 2} : Tells(request.events, i, Larger(request.rows, request.upto))'
               /\ Parted(request.events, request.rows)'
    <3>1. NothingRepeated
      BY <1>8, <2>3, RepeatedStays
    <3>2. ~(/\ written # 0 /\ told[written].type = "done"
            /\ \E n \in (since + 1)..u : told[n].type = "done"
            /\ written = since \/ (u < written /\ told[u].type = "done"))
      <4> SUFFICES ASSUME written # 0, told[written].type = "done",
                          NEW n \in (since + 1)..u, told[n].type = "done",
                          written = since \/ (u < written /\ told[u].type = "done")
                   PROVE  FALSE
        OBVIOUS
      <4> DEFINE dones == {x \in 1..Len(told) : told[x].type = "done"}
      <4>1. Len(told) \in Nat /\ u >= 1 /\ u \in 1..Len(told)
        BY <1>2, <1>8 DEF ToldGrows
      <4>2. written \in dones
        BY <1>2, <4>1
      <4>3. n \in dones
        BY <1>2, <4>1
      <4>4. u < written => u \in dones
        BY <1>2, <4>1, <4>2
      <4> HIDE DEF dones
      <4>5. /\ request'.rows \in dones
            /\ (since' + 1)..request'.upto \cap dones # {}
            /\ request'.rows = since' \/ (request'.upto < request'.rows /\ request'.upto \in dones)
        <5> HIDE DEF u
        <5> QED BY <1>1, <1>4, <4>2, <4>3, <4>4
      <4> QED BY <1>1, <2>3, <4>5 DEF Mistaken, dones
    <3>7. S \in Seq(Events) /\ Tells(S, since + 1, u) /\ FromHub(S)
      <4>1. Comparable(m)
        BY <1>4, <2>3 DEF Comparable, LiveOnly
      <4> HIDE DEF S, u
      <4>2. Comparable(S)
        BY <1>3, <4>1, MergedKeepsLive DEF m
      <4>3. S \in Seq(Events)
        BY <1>3, <4>2, Bare
      <4>4. Tells(S, since + 1, u) /\ OfHub(S)
        BY <1>3 DEF TellsHub
      <4>5. \A k \in 1..Len(S) : ~LiveOnly(S[k])
        BY <4>2, <4>3 DEF Comparable
      <4>6. FromHub(S)
        BY <4>4, <4>5 DEF FromHub, OfHub
      <4> QED BY <4>3, <4>4, <4>6
    <3>3. /\ \E i \in {1, 2} : Tells(m, i, Larger(written, u))
          /\ Parted(m, written)
      <4> HIDE DEF u, S
      <4> QED BY <1>2, <3>1, <3>2, <3>7, MergedTells DEF m
    <3>4. PICK i \in {1, 2} : Tells(m, i, Larger(written, u))
      BY <3>3
    <3>5. Tells(request.events, i, Larger(request.rows, request.upto))'
      <4>1. \A e \in Seq(AllEvents) : \A j : Tells(e, i, j) => Tells(e, i, j)'
        BY <1>8, TellsStays
      <4>2. Larger(request.rows, request.upto)' = Larger(written, u)
        BY <1>4 DEF Larger
      <4> QED BY <1>3, <1>4, <3>4, <4>1, <4>2
    <3>6. Parted(request.events, request.rows)'
      <4>1. Parted(request'.events, request'.rows)
        BY <1>4, <3>3
      <4> QED BY <4>1 DEF Parted
    <3> QED BY <3>5, <3>6
  <2> QED BY <1>4, <2>1, <2>2, <2>3 DEF AnswerTells
<1> QED BY <1>1, <1>4, <1>7, <1>9, CacheWaits

(* The answer is merged into the cache.                                    *)
LEMMA LandsKeeps == ASSUME TranscriptInv, Lands PROVE TranscriptInv'
<1> USE DEF TranscriptInv
<1> DEFINE M == Larger(request.rows, request.upto)
           h == Hydrated(request.events, cache)
<1>1. /\ request.stage = "answered"
      /\ cache' = h /\ request' = NoRequest /\ loaded' = TRUE
      /\ attended' = (/\ attended /\ ~Mistaken(request)
                      /\ Comparable(request.events) /\ Comparable(cache)
                      /\ request.rows <= delivered /\ request.upto <= delivered)
      /\ UNCHANGED <<told, busy, written, hub, published, since, sent, delivered, cursor, runStatus, opened>>
  BY DEF Lands, providerVars, hubVars, pageVars
<1>2. /\ request.rows \in Nat /\ request.upto \in Nat
      /\ request.events \in Seq(AllEvents) /\ cache \in Seq(AllEvents)
      /\ delivered \in Nat /\ written \in Nat /\ Len(told) \in Nat /\ published \in Nat
      /\ 2 <= request.upto /\ request.rows <= written /\ delivered <= published /\ published <= Len(told)
  BY <1>1, RequestIs DEF TranscriptTypeOK, AnswerTells, HubInOrder
<1>3. h \in Seq(AllEvents)
  BY <1>2, HydratedType
<1> HIDE DEF h
<1>4. request' \in NewRequests
  BY <1>1 DEF NewRequests
<1>5. TranscriptTypeOK'
  BY <1>1, <1>3, <1>4, NewRequestIs DEF TranscriptTypeOK
<1>6. ToldInTurns' /\ HubInOrder' /\ CursorIsBehind'
  BY <1>1 DEF ToldInTurns, ToldTyped, Turns, BetweenTurns, HubInOrder, CursorIsBehind
<1>7. AnswerTells'
  BY <1>1, <1>4, AnswerRenewed DEF AnswerTells
<1>8. ToldGrows
  BY <1>1, SameGrows DEF TranscriptTypeOK
<1>11. HubTells'
  BY <1>1, <1>8, HubSame
<1>9. ASSUME attended', NothingRepeated'
      PROVE  (\E i \in {1, 2} : Tells(cache, i, delivered)') /\ Parted(cache', RowsSeen')
  <2>1. /\ NothingRepeated /\ attended /\ ~Mistaken(request)
        /\ request.rows <= delivered /\ request.upto <= delivered
        /\ Comparable(request.events) /\ Comparable(cache)
    BY <1>1, <1>8, <1>9, RepeatedStays
  <2>11. request.events \in Seq(Events) /\ cache \in Seq(Events)
    BY <1>2, <2>1, Bare
  <2>2. M \in Nat /\ M >= 2 /\ M <= delivered /\ request.rows <= M /\ request.upto <= M
    BY <1>2, <2>1 DEF Larger
  <2>3. PICK i \in {1, 2} : Tells(request.events, i, M)
    BY <1>1, <2>1 DEF AnswerTells
  <2>4. Parted(request.events, request.rows)
    BY <1>1, <2>1 DEF AnswerTells
  <2> HIDE DEF M
  <2>5. \E a \in Nat \ {0}, n \in Nat :
           /\ Tells(cache, a, delivered) /\ Parted(cache, n) /\ n <= M /\ a - 1 <= M
           /\ a = 2 \/ BetweenTurns(a - 1)
    <3>1. CASE loaded
      <4>1. PICK a \in {1, 2} : Tells(cache, a, delivered)
        BY <2>1, <3>1 DEF CacheTells
      <4>2. Parted(cache, request.rows)
        BY <1>1, <2>1, <3>1 DEF CacheTells, RowsSeen
      <4>3. a \in Nat \ {0} /\ a - 1 <= M /\ (a = 2 \/ a - 1 = 0)
        BY <2>2
      <4>4. a = 2 \/ BetweenTurns(a - 1)
        BY <4>3 DEF BetweenTurns
      <4> QED BY <1>2, <2>2, <4>1, <4>2, <4>3, <4>4
    <3>2. CASE ~loaded
      <4>1. PICK a \in 1..(delivered + 1) :
               Tells(cache, a, delivered) /\ BetweenTurns(a - 1) /\ Parted(cache, 0) /\ a - 1 <= request.upto
        BY <1>1, <2>1, <3>2 DEF CacheTells
      <4>2. a \in Nat \ {0} /\ a - 1 <= M /\ 0 <= M
        BY <1>2, <2>2, <4>1
      <4> QED BY <4>1, <4>2
    <3> QED BY <3>1, <3>2
  <2>6. PICK a \in Nat \ {0}, n \in Nat :
           /\ Tells(cache, a, delivered) /\ Parted(cache, n) /\ n <= M /\ a - 1 <= M
           /\ a = 2 \/ BetweenTurns(a - 1)
    BY <2>5
  <2>7. cache # <<>> => told[a].type \in {"session_initialized", "user_prompt"}
    <3> SUFFICES ASSUME cache # <<>> PROVE told[a].type \in {"session_initialized", "user_prompt"}
      OBVIOUS
    <3>1. a - 1 <= delivered /\ delivered # a - 1
      BY <1>2, <2>6, <2>11, EventsInOrder DEF ToldInTurns
    <3>2. a \in 1..Len(told)
      BY <1>2, <3>1
    <3>3. a = 1 \/ a = 2 \/ (a > 1 /\ BetweenTurns(a - 1))
      BY <2>6
    <3> QED BY <3>2, <3>3 DEF ToldInTurns, Turns
  <2>8. h \in Seq(Events) /\ Tells(h, i, delivered) /\ Parted(h, request.rows)
    <3>1. ToldTyped /\ Turns
      BY DEF ToldInTurns
    <3> QED BY <1>2, <2>1, <2>2, <2>3, <2>4, <2>6, <2>7, <2>11, <3>1, HydratedTells DEF h
  <2>9. Tells(cache, i, delivered)'
    <3>1. \A e \in Seq(AllEvents) : \A j : Tells(e, i, j) => Tells(e, i, j)'
      BY <1>8, TellsStays
    <3> QED BY <1>1, <1>3, <2>8, <3>1
  <2>10. Parted(cache', RowsSeen')
    <3>1. RowsSeen' = written
      BY <1>1 DEF RowsSeen, NoRequest
    <3>2. Parted(h, written)
      BY <1>2, <1>3, <2>8, PartedStays
    <3> QED BY <1>1, <3>1, <3>2
  <2> QED BY <2>9, <2>10
<1>10. CacheTells'
  <2>1. ASSUME attended', NothingRepeated' PROVE Parted(cache, RowsSeen)'
    BY <1>9, <2>1 DEF Parted
  <2> QED BY <1>1, <1>9, <2>1 DEF CacheTells
<1> QED BY <1>5, <1>6, <1>7, <1>10, <1>11

(***************************************************************************)
(* The steps of the page.                                                  *)
(***************************************************************************)
LEMMA KnowsIs ==
    ASSUME TranscriptTypeOK, AnswerTells, NEW status, NEW events, Knows(status, events)
    PROVE  /\ request' = request \/ request' \in NewRequests
           /\ opened' = opened /\ told' = told =>
                /\ ~opened' => request' = NoRequest
                /\ opened' => told' # <<>>
           /\ request' # request => opened
<1>1. Asked(events, status) \in NewRequests
  BY DEF Asked, NewRequests
<1>2. request' = IF opened /\ status # runStatus THEN Asked(events, status) ELSE request
  BY DEF Knows
<1> QED BY <1>1, <1>2 DEF AnswerTells

LEMMA StatusIs ==
    ASSUME NEW e, NEW status \in {"idle", "running"}
    PROVE  StatusAfter(e, status) \in {"idle", "running"}
<1>1. StatusAfter(e, status) \in {"idle", "running", status}
  BY DEF StatusAfter
<1> QED BY <1>1

LEMMA ReceiveKeeps == ASSUME TranscriptInv, Receive PROVE TranscriptInv'
<1> USE DEF TranscriptInv
<1> DEFINE n == sent + 1
           isNew == n > cursor
<1>1. /\ sent < Len(hub) /\ sent' = n /\ delivered' = hub[n].to
      /\ cache' = (IF isNew /\ ~Omitted(hub[n]) THEN Append(cache, hub[n]) ELSE cache)
      /\ cursor' = (IF isNew THEN n ELSE cursor)
      /\ Knows(StatusAfter(hub[n], runStatus), cache')
      /\ UNCHANGED <<opened, told, busy, written, hub, published, since, attended, loaded>>
  BY DEF Receive, providerVars, hubVars, historyVars
<1>2. /\ cache \in Seq(AllEvents) /\ hub \in Seq(AllEvents) /\ Len(hub) \in Nat /\ sent \in Nat
      /\ delivered \in Nat /\ since \in Nat /\ cursor \in Nat /\ published \in Nat
      /\ Len(told) \in Nat /\ written \in Nat
      /\ since <= delivered /\ delivered <= published /\ published <= Len(told)
  BY DEF TranscriptTypeOK, HubInOrder
<1>3. n \in 1..Len(hub) /\ n \in Nat /\ n - 1 = sent /\ n # 0
  BY <1>1, <1>2
<1> HIDE DEF n
<1>4. PICK e \in AllEvents :
         /\ e = hub[n] /\ (StandsFor(e) \/ StandsAside(e)) /\ e.source = "hub"
         /\ e.from = delivered + 1 /\ e.from = (IF LiveOnly(e) THEN e.to + 1 ELSE e.to)
         /\ e.to \in since..published
  <2> DEFINE end(k) == IF k = 0 THEN (since + 1) - 1 ELSE hub[k].to
  <2>1. hub[n] \in AllEvents /\ n \in DOMAIN hub
    BY <1>2, <1>3
  <2>2. /\ StandsFor(hub[n]) \/ StandsAside(hub[n])
        /\ hub[n].from = end(n - 1) + 1
    BY <2>1 DEF HubTells, TellsHub, Tells
  <2>3. /\ hub[n].source = "hub" /\ hub[n].to \in since..published
        /\ hub[n].from = IF LiveOnly(hub[n]) THEN hub[n].to + 1 ELSE hub[n].to
    BY <1>3 DEF HubTells, TellsHub, OfHub
  <2>4. end(n - 1) = delivered
    <3>1. (since + 1) - 1 = since
      BY <1>2
    <3> QED BY <1>3, <3>1 DEF HubTells
  <2> HIDE DEF end
  <2> QED BY <2>1, <2>2, <2>3, <2>4
<1>5. cache' \in Seq(AllEvents) /\ cursor' \in Nat
  BY <1>1, <1>2, <1>3, <1>4
<1>6. /\ request' = request \/ request' \in NewRequests
      /\ ~opened' => request' = NoRequest
      /\ opened' => told' # <<>>
  BY <1>1, KnowsIs
<1>7. TranscriptTypeOK'
  <2>1. runStatus' \in {"idle", "running"}
    BY <1>1, StatusIs DEF Knows, TranscriptTypeOK
  <2>2. delivered' \in Nat
    BY <1>1, <1>2, <1>4
  <2>3. request' \in Requests
    BY <1>6, RequestType
  <2> QED BY <1>1, <1>2, <1>3, <1>5, <2>1, <2>2, <2>3 DEF TranscriptTypeOK
<1>8. ToldInTurns'
  BY <1>1 DEF ToldInTurns, ToldTyped, Turns, BetweenTurns
<1>9. HubInOrder'
  <2>1. since <= delivered' /\ delivered' <= published
    BY <1>1, <1>2, <1>4
  <2> QED BY <1>1, <2>1 DEF HubInOrder, BetweenTurns
<1>10. CursorIsBehind'
  BY <1>1, <1>2, <1>3 DEF CursorIsBehind, n
<1>11. ToldGrows
  BY <1>1, SameGrows DEF TranscriptTypeOK
<1>14. HubTells'
  <2>1. TellsHub(hub, since, published)'
    <3>1. TellsHub(hub, since, published)
      BY DEF HubTells
    <3>2. \A h \in Seq(AllEvents) : \A s, p : TellsHub(h, s, p) => TellsHub(h, s, p)'
      BY <1>11, HubStays
    <3> QED BY <1>1, <1>2, <3>1, <3>2
  <2>2. sent' <= Len(hub') /\ sent' # 0 /\ delivered' = hub'[sent'].to
    BY <1>1, <1>3
  <2> QED BY <2>1, <2>2 DEF HubTells
<1>12. AnswerTells'
  <2>1. CASE request' = request
    BY <1>1, <1>2, <1>7, <1>11, <2>1, AnswerKept
  <2>2. CASE request' \in NewRequests
    BY <1>6, <2>2, AnswerRenewed
  <2> QED BY <1>6, <2>1, <2>2
<1>13. CacheTells'
  <2> SUFFICES ASSUME attended, NothingRepeated PROVE CacheTells'
    BY <1>1 DEF CacheTells, NothingRepeated
  <2>1. isNew
    BY <1>2 DEF CursorIsBehind, n
  <2>2. cache' = IF Omitted(e) THEN cache ELSE Append(cache, e)
    BY <1>1, <1>4, <2>1
  <2>3. Omitted(e) => LiveOnly(e) /\ delivered' = delivered
    <3> SUFFICES ASSUME Omitted(e) PROVE LiveOnly(e) /\ delivered' = delivered
      OBVIOUS
    <3>1. LiveOnly(e)
      BY DEF Omitted, LiveOnly
    <3>2. e.to = delivered
      BY <1>2, <1>4, <3>1
    <3> QED BY <1>1, <1>4, <3>1, <3>2
  <2>4. ASSUME NEW i \in Nat \ {0}, Tells(cache, i, delivered) PROVE Tells(cache, i, delivered)'
    <3>1. PICK x \in Seq(AllEvents), d \in Nat, t \in Nat :
             x = cache /\ d = delivered /\ t = e.to /\ delivered' = t
      <4>1. e.to \in Nat /\ delivered' = e.to
        BY <1>1, <1>4, AnyEventIs
      <4> QED BY <1>2, <4>1
    <3>2. Tells(x, i, d)'
      BY <1>11, <2>4, <3>1, TellsStays
    <3>3. CASE Omitted(e)
      BY <2>2, <2>3, <3>1, <3>2, <3>3
    <3>4. CASE ~Omitted(e)
      <4>1. StandsFor(e)' \/ StandsAside(e)'
        BY <1>4, <1>11, StandsForStays, StandsAsideStays
      <4>2. e.from = d + 1
        BY <1>4, <3>1
      <4>3. Tells(Append(x, e), i, e.to)'
        BY <3>2, <4>1, <4>2, TellsMore
      <4>4. cache' = Append(x, e) /\ delivered' = e.to
        BY <2>2, <3>1, <3>4
      <4> QED BY <4>3, <4>4
    <3> QED BY <3>3, <3>4
  <2>8. ASSUME NEW m, Comparable(cache) => Parted(cache, m) PROVE Comparable(cache)' => Parted(cache', m)
    <3> SUFFICES ASSUME Comparable(cache)' PROVE Parted(cache', m)
      OBVIOUS
    <3>1. CASE Omitted(e)
      <4>1. cache' = cache
        BY <2>2, <3>1
      <4>2. Comparable(cache)
        BY <4>1 DEF Comparable, LiveOnly
      <4> QED BY <2>8, <4>1, <4>2
    <3>2. CASE ~Omitted(e)
      <4>1. /\ cache' = Append(cache, e) /\ Len(cache) \in Nat /\ Len(cache') = Len(cache) + 1
            /\ DOMAIN cache' = 1..(Len(cache) + 1) /\ DOMAIN cache = 1..Len(cache)
            /\ \A k \in 1..Len(cache) : cache'[k] = cache[k]
            /\ cache'[Len(cache) + 1] = e
        BY <1>2, <2>2, <3>2
      <4>2. \A k \in 1..(Len(cache) + 1) : ~LiveOnly(cache'[k])
        BY <4>1 DEF Comparable, LiveOnly
      <4>3. ~LiveOnly(e)
        <5>1. Len(cache) + 1 \in 1..(Len(cache) + 1)
          BY <4>1
        <5> QED BY <4>1, <4>2, <5>1
      <4>4. \A k \in 1..Len(cache) : ~LiveOnly(cache[k])
        <5>1. \A k \in 1..Len(cache) : k \in 1..(Len(cache) + 1)
          BY <4>1
        <5> QED BY <4>1, <4>2, <5>1
      <4>5. Parted(cache, m)
        BY <2>8, <4>1, <4>4 DEF Comparable
      <4>6. e.source = "hub" /\ e.from = e.to
        BY <1>4, <4>3
      <4>7. \A k \in 1..(Len(cache) + 1) : k \in 1..Len(cache) \/ k = Len(cache) + 1
        BY <4>1
      <4> QED BY <4>1, <4>5, <4>6, <4>7 DEF Parted
    <3> QED BY <3>1, <3>2
  <2>5. request' \in NewRequests => request'.stage \in {"none", "asked"}
    BY NewRequestIs
  <2>6. CASE loaded
    <3>1. PICK i \in {1, 2} : Tells(cache, i, delivered)
      BY <2>6 DEF CacheTells
    <3>2. Tells(cache, i, delivered)'
      <4>1. i \in Nat \ {0}
        OBVIOUS
      <4> QED BY <2>4, <3>1, <4>1
    <3>3. Comparable(cache) => Parted(cache, RowsSeen) /\ Parted(cache, written)
      <4>1. Comparable(cache) => Parted(cache, RowsSeen)
        BY <2>6 DEF CacheTells
      <4>2. RowsSeen \in Nat /\ RowsSeen <= written
        BY <1>2, RequestIs DEF RowsSeen, AnswerTells
      <4> QED BY <1>2, <4>1, <4>2, PartedStays
    <3>4. RowsSeen' = RowsSeen \/ RowsSeen' = written
      BY <1>1, <1>6, <2>5 DEF RowsSeen
    <3>5. Comparable(cache)' => Parted(cache', RowsSeen')
      BY <2>8, <3>3, <3>4
    <3>6. Comparable(cache)' => Parted(cache, RowsSeen)'
      BY <3>5 DEF Parted
    <3> QED BY <1>1, <2>6, <3>2, <3>6 DEF CacheTells
  <2>7. CASE ~loaded
    <3>1. PICK i \in 1..(delivered + 1) :
             /\ Tells(cache, i, delivered) /\ BetweenTurns(i - 1)
             /\ Comparable(cache) => Parted(cache, 0)
             /\ request.stage \in {"reading", "answered"} => i - 1 <= request.upto
      BY <2>7 DEF CacheTells
    <3>2. Tells(cache, i, delivered)'
      BY <2>4, <3>1
    <3>3. BetweenTurns(i - 1)'
      BY <1>1, <3>1 DEF BetweenTurns
    <3>4. request'.stage \in {"reading", "answered"} => i - 1 <= request'.upto
      BY <1>6, <2>5, <3>1
    <3>5. Comparable(cache)' => Parted(cache, 0)'
      <4>1. Comparable(cache)' => Parted(cache', 0)
        BY <2>8, <3>1
      <4> QED BY <4>1 DEF Parted
    <3>6. i \in 1..(delivered' + 1)
      <4>1. delivered' \in Nat /\ delivered <= delivered'
        BY <1>1, <1>2, <1>4
      <4>2. \A x, y \in Nat : x <= y => \A j \in 1..(x + 1) : j \in 1..(y + 1)
        OBVIOUS
      <4> QED BY <1>2, <4>1, <4>2
    <3> QED BY <1>1, <2>7, <3>2, <3>3, <3>4, <3>5, <3>6 DEF CacheTells
  <2> QED BY <2>6, <2>7
<1> QED BY <1>7, <1>8, <1>9, <1>10, <1>12, <1>13, <1>14

(* The page does something that leaves its cache as it is.                 *)
LEMMA PageKeeps ==
    ASSUME TranscriptInv,
           \/ request' = request /\ opened' = opened
           \/ /\ request' \in NewRequests
              /\ ~opened' => request' = NoRequest
              /\ opened' => told' # <<>>,
           runStatus' \in {"idle", "running"}, opened' \in BOOLEAN,
           UNCHANGED <<told, busy, written, hub, published, since, sent, delivered, cache, cursor, attended, loaded>>
    PROVE  TranscriptInv'
<1> USE DEF TranscriptInv
<1>1. TranscriptTypeOK'
  BY RequestType DEF TranscriptTypeOK
<1>2. ToldInTurns' /\ HubInOrder' /\ CursorIsBehind'
  BY DEF ToldInTurns, ToldTyped, Turns, BetweenTurns, HubInOrder, CursorIsBehind
<1>3. ToldGrows
  BY SameGrows DEF TranscriptTypeOK
<1>4. published <= published' /\ written <= written'
  BY DEF TranscriptTypeOK
<1>5. AnswerTells'
  <2>1. CASE request' = request /\ opened' = opened
    BY <1>1, <1>3, <1>4, <2>1, AnswerKept
  <2>2. CASE ~(request' = request /\ opened' = opened)
    BY <2>2, AnswerRenewed
  <2> QED BY <2>1, <2>2
<1>6. CacheTells'
  BY <1>1, <1>3, <1>4, CacheKept
<1>7. HubTells'
  BY <1>3, HubSame
<1> QED BY <1>1, <1>2, <1>5, <1>6, <1>7

LEMMA OpenKeeps == ASSUME TranscriptInv, Open PROVE TranscriptInv'
<1>1. /\ opened' = TRUE /\ told # <<>> /\ request' = Asked(cache, runStatus)
      /\ UNCHANGED <<told, busy, written, hub, published, since, sent, delivered, cache, cursor, attended,
                     loaded, runStatus>>
  BY DEF Open, cacheVars, providerVars, hubVars, pageVars, historyVars
<1>2. request' \in NewRequests
  BY <1>1 DEF Asked, NewRequests
<1>3. runStatus' \in {"idle", "running"} /\ opened' \in BOOLEAN /\ told' # <<>>
  BY <1>1 DEF TranscriptInv, TranscriptTypeOK
<1> QED BY <1>1, <1>2, <1>3, PageKeeps

LEMMA CloseKeeps == ASSUME TranscriptInv, Close PROVE TranscriptInv'
<1>1. /\ opened' = FALSE /\ request' = NoRequest
      /\ UNCHANGED <<told, busy, written, hub, published, since, sent, delivered, cache, cursor, attended,
                     loaded, runStatus>>
  BY DEF Close, cacheVars, providerVars, hubVars, pageVars, historyVars
<1>2. request' \in NewRequests
  BY <1>1 DEF NewRequests
<1>3. runStatus' \in {"idle", "running"} /\ opened' \in BOOLEAN
  BY <1>1 DEF TranscriptInv, TranscriptTypeOK
<1> QED BY <1>1, <1>2, <1>3, PageKeeps

LEMMA RequestFailsKeeps == ASSUME TranscriptInv, RequestFails PROVE TranscriptInv'
<1>1. /\ request' = NoRequest
      /\ UNCHANGED <<told, busy, written, hub, published, since, sent, delivered, cache, cursor, attended,
                     loaded, runStatus, opened>>
  BY DEF RequestFails, cacheVars, providerVars, hubVars, pageVars, historyVars
<1>2. request' \in NewRequests
  BY <1>1 DEF NewRequests
<1>3. /\ runStatus' \in {"idle", "running"} /\ opened' \in BOOLEAN
      /\ opened' => told' # <<>>
  BY <1>1 DEF TranscriptInv, TranscriptTypeOK, AnswerTells
<1> QED BY <1>1, <1>2, <1>3, PageKeeps

LEMMA RefreshStatusKeeps == ASSUME TranscriptInv, RefreshStatus PROVE TranscriptInv'
<1>1. PICK status \in {"idle", "running"} : Knows(status, cache)
  BY DEF RefreshStatus
<1>2. UNCHANGED <<told, busy, written, hub, published, since, sent, delivered, cache, cursor, attended,
                   loaded, opened>>
  BY DEF RefreshStatus, cacheVars, providerVars, hubVars, pageVars, historyVars
<1>3. /\ request' = request \/ request' \in NewRequests
      /\ ~opened' => request' = NoRequest
      /\ opened' => told' # <<>>
  BY <1>1, <1>2, KnowsIs DEF TranscriptInv
<1>4. runStatus' \in {"idle", "running"} /\ opened' \in BOOLEAN
  BY <1>1, <1>2 DEF TranscriptInv, TranscriptTypeOK, Knows
<1> QED BY <1>2, <1>3, <1>4, PageKeeps

LEMMA EmptyTells ==
    ASSUME NEW n \in Nat PROVE Tells(<<>>, n + 1, n) /\ Parted(<<>>, 0)
<1>1. n + 1 \in Nat \ {0} /\ (n + 1) - 1 = n
  OBVIOUS
<1>2. Tells(<<>>, n + 1, n)
  <2>1. Tells(<<>>, n + 1, (n + 1) - 1)
    BY <1>1, NoneTell
  <2> QED BY <1>1, <2>1
<1> QED BY <1>2 DEF Parted

(* What the hub has been given is what its events tell.                    *)
LEMMA AllSent ==
    ASSUME TranscriptTypeOK, HubTells
    PROVE  /\ published = IF Len(hub) = 0 THEN since ELSE hub[Len(hub)].to
           /\ sent = Len(hub) => delivered = published
<1>1. published = IF Len(hub) = 0 THEN (since + 1) - 1 ELSE hub[Len(hub)].to
  BY DEF HubTells, TellsHub, Tells
<1>2. (since + 1) - 1 = since
  BY DEF TranscriptTypeOK
<1>3. published = IF Len(hub) = 0 THEN since ELSE hub[Len(hub)].to
  BY <1>1, <1>2
<1> QED BY <1>3 DEF HubTells

(* The page begins with an empty cache.                                    *)
LEMMA AnewKeeps ==
    ASSUME TranscriptInv,
           UNCHANGED <<told, busy, written, hub, published, since>>,
           NEW d \in Nat, delivered' = d,
           (sent' = sent /\ d = delivered) \/ (sent' = Len(hub) /\ d = published),
           cache' = <<>>, cursor' = 0, loaded' = FALSE,
           opened' = FALSE, request' = NoRequest, runStatus' \in {"idle", "running"},
           attended' = BetweenTurns(d)
    PROVE  TranscriptInv'
<1> USE DEF TranscriptInv
<1>1. since \in Nat /\ since <= d /\ d <= published
  BY DEF TranscriptTypeOK, HubInOrder
<1>8. sent' \in Nat
  BY DEF TranscriptTypeOK
<1>2. TranscriptTypeOK'
  <2>1. request' \in Requests
    <3>1. request' \in NewRequests
      BY DEF NewRequests
    <3> QED BY <3>1, RequestType
  <2>2. attended' \in BOOLEAN
    BY DEF BetweenTurns
  <2>3. told' \in Seq(Speech) /\ cache' \in Seq(AllEvents) /\ hub' \in Seq(AllEvents)
    BY DEF TranscriptTypeOK
  <2>4. /\ busy' \in BOOLEAN /\ written' \in Nat /\ published' \in Nat /\ since' \in Nat
        /\ delivered' \in Nat /\ cursor' \in Nat /\ opened' \in BOOLEAN /\ loaded' \in BOOLEAN
    BY DEF TranscriptTypeOK
  <2> QED BY <1>8, <2>1, <2>2, <2>3, <2>4 DEF TranscriptTypeOK
<1>3. ToldInTurns'
  BY DEF ToldInTurns, ToldTyped, Turns, BetweenTurns
<1>4. HubInOrder'
  BY <1>1 DEF HubInOrder, BetweenTurns
<1>5. CursorIsBehind'
  <2>1. 0 <= sent'
    BY <1>8
  <2> QED BY <2>1 DEF CursorIsBehind
<1>9. ToldGrows
  BY SameGrows DEF TranscriptTypeOK
<1>10. HubTells'
  <2>1. CASE sent' = sent /\ d = delivered
    BY <1>9, <2>1, HubSame
  <2>2. CASE sent' = Len(hub) /\ d = published
    <3>1. PICK h \in Seq(AllEvents), s \in Nat, p \in Nat : h = hub /\ s = since /\ p = published
      BY DEF TranscriptTypeOK
    <3>2. TellsHub(hub, since, published)'
      <4>1. TellsHub(h, s, p)
        BY <3>1 DEF HubTells
      <4>2. TellsHub(h, s, p)'
        BY <1>9, <4>1, HubStays
      <4> QED BY <3>1, <4>2
    <3>3. published = IF Len(hub) = 0 THEN since ELSE hub[Len(hub)].to
      BY AllSent
    <3> QED BY <2>2, <3>2, <3>3 DEF HubTells
  <2> QED BY <2>1, <2>2
<1>6. AnswerTells'
  BY AnswerRenewed DEF NewRequests
<1>7. CacheTells'
  <2> SUFFICES ASSUME attended' PROVE CacheTells'
    BY DEF CacheTells
  <2>1. Tells(<<>>, d + 1, d) /\ Parted(<<>>, 0)
    BY EmptyTells
  <2>3. \A x \in Seq(AllEvents) : \A i, j : Tells(x, i, j) => Tells(x, i, j)'
    BY <1>9, TellsStays
  <2>4. d + 1 \in 1..(d + 1) /\ (d + 1) - 1 = d
    OBVIOUS
  <2>5. Tells(cache, d + 1, delivered)'
    <3>1. <<>> \in Seq(AllEvents)
      OBVIOUS
    <3>2. Tells(<<>>, d + 1, d)'
      BY <2>1, <2>3, <3>1
    <3> QED BY <3>2
  <2>6. BetweenTurns((d + 1) - 1)'
    <3>1. BetweenTurns(d)'
      BY DEF BetweenTurns
    <3> QED BY <2>4, <3>1
  <2>7. request'.stage \notin {"reading", "answered"}
    BY DEF NoRequest
  <2>8. Parted(cache, 0)'
    BY <2>1 DEF Parted
  <2> QED BY <2>4, <2>5, <2>6, <2>7, <2>8 DEF CacheTells
<1> QED BY <1>2, <1>3, <1>4, <1>5, <1>6, <1>7, <1>10

LEMMA LoadPageKeeps == ASSUME TranscriptInv, LoadPage PROVE TranscriptInv'
<1>1. /\ UNCHANGED <<told, busy, written, hub, published, since>>
      /\ sent' = Len(hub) /\ delivered' = published /\ cache' = <<>> /\ cursor' = 0 /\ loaded' = FALSE
      /\ opened' = FALSE /\ request' = NoRequest /\ runStatus' = "idle"
      /\ attended' = BetweenTurns(published)
  BY DEF LoadPage, providerVars, hubVars
<1>2. published \in Nat
  BY DEF TranscriptInv, TranscriptTypeOK
<1> QED BY <1>1, <1>2, AnewKeeps

LEMMA EvictKeeps == ASSUME TranscriptInv, Evict PROVE TranscriptInv'
<1>1. /\ UNCHANGED <<told, busy, written, hub, published, since, sent, delivered, runStatus, opened, request>>
      /\ cache' = <<>> /\ cursor' = 0 /\ loaded' = FALSE /\ ~opened
      /\ attended' = BetweenTurns(delivered)
  BY DEF Evict, providerVars, hubVars, pageVars, panelVars
<1>2. opened' = FALSE /\ request' = NoRequest /\ runStatus' \in {"idle", "running"} /\ delivered \in Nat
  BY <1>1 DEF TranscriptInv, TranscriptTypeOK, AnswerTells
<1> QED BY <1>1, <1>2, AnewKeeps

LEMMA ReconnectKeeps == ASSUME TranscriptInv, Reconnect PROVE TranscriptInv'
<1> USE DEF TranscriptInv
<1>1. /\ sent < Len(hub) /\ sent' = Len(hub) /\ delivered' = published /\ attended' = FALSE
      /\ UNCHANGED <<told, busy, written, hub, published, since, cache, cursor, loaded, runStatus, opened, request>>
  BY DEF Reconnect, providerVars, hubVars, panelVars, cacheVars
<1>2. TranscriptTypeOK'
  <2>1. Len(hub) \in Nat /\ published \in Nat
    BY DEF TranscriptTypeOK
  <2> QED BY <1>1, <2>1 DEF TranscriptTypeOK
<1>3. ToldInTurns' /\ HubInOrder' /\ CursorIsBehind' /\ CacheTells'
  <2>1. ToldInTurns'
    BY <1>1 DEF ToldInTurns, ToldTyped, Turns, BetweenTurns
  <2>2. HubInOrder'
    BY <1>1 DEF HubInOrder, BetweenTurns, TranscriptTypeOK
  <2>3. CursorIsBehind' /\ CacheTells'
    BY <1>1 DEF CursorIsBehind, CacheTells
  <2> QED BY <2>1, <2>2, <2>3
<1>4. ToldGrows /\ published <= published' /\ written <= written'
  BY <1>1, SameGrows DEF TranscriptTypeOK
<1>5. AnswerTells'
  BY <1>1, <1>2, <1>4, AnswerKept
<1>6. HubTells'
  <2>1. PICK h \in Seq(AllEvents), s \in Nat, p \in Nat : h = hub /\ s = since /\ p = published
    BY DEF TranscriptTypeOK
  <2>2. TellsHub(h, s, p)
    BY <2>1 DEF HubTells
  <2>3. TellsHub(h, s, p)'
    BY <1>4, <2>2, HubStays
  <2>4. TellsHub(hub, since, published)'
    BY <1>1, <2>1, <2>3
  <2>5. published = IF Len(hub) = 0 THEN since ELSE hub[Len(hub)].to
    BY AllSent
  <2> QED BY <1>1, <2>4, <2>5 DEF HubTells
<1> QED BY <1>2, <1>3, <1>5, <1>6

LEMMA RestartKeeps == ASSUME TranscriptInv, Restart PROVE TranscriptInv'
<1> USE DEF TranscriptInv
<1>1. /\ ~busy /\ published = Len(told) /\ written = Len(told) /\ since < published
      /\ hub' = <<>> /\ sent' = 0
      /\ since' = published /\ delivered' = published /\ request' = NoRequest
      /\ attended' = (attended /\ sent = Len(hub) /\ cursor = 0)
      /\ UNCHANGED <<told, busy, written, published, cache, cursor, loaded, runStatus, opened>>
  BY DEF Restart, providerVars, cacheVars
<1>2. request' \in NewRequests
  BY <1>1 DEF NewRequests
<1>3. TranscriptTypeOK'
  <2>1. <<>> \in Seq(AllEvents)
    OBVIOUS
  <2> QED BY <1>1, <1>2, <2>1, RequestType DEF TranscriptTypeOK
<1>4. ToldInTurns'
  BY <1>1 DEF ToldInTurns, ToldTyped, Turns, BetweenTurns
<1>5. HubInOrder'
  <2>1. BetweenTurns(published)
    BY <1>1, NoTurnGoesOn
  <2>2. BetweenTurns(since)'
    BY <1>1, <2>1 DEF BetweenTurns
  <2> QED BY <1>1, <2>2 DEF HubInOrder, TranscriptTypeOK
<1>6. CursorIsBehind'
  BY <1>1 DEF CursorIsBehind, TranscriptTypeOK
<1>7. ToldGrows /\ written <= written'
  BY <1>1, SameGrows DEF TranscriptTypeOK
<1>8. AnswerTells'
  <2>1. opened' => told' # <<>>
    BY <1>1 DEF AnswerTells
  <2> QED BY <1>1, <1>2, <2>1, AnswerRenewed
<1>9. CacheTells'
  <2>1. attended' => attended /\ delivered' = delivered
    BY <1>1, AllSent
  <2> QED BY <1>1, <1>2, <1>3, <1>7, <2>1, CacheKept
<1>10. HubTells'
  <2>1. PICK p \in Nat : p = published
    BY DEF TranscriptTypeOK
  <2>2. Tells(<<>>, p + 1, p)'
    <3>1. Tells(<<>>, p + 1, p) /\ <<>> \in Seq(AllEvents)
      BY EmptyTells
    <3> QED BY <1>7, <3>1, TellsStays
  <2>3. Tells(hub, since + 1, published)'
    BY <1>1, <2>1, <2>2
  <2>4. Len(hub') = 0 /\ \A k \in 1..Len(hub') : FALSE
    BY <1>1
  <2>5. OfHub(hub)'
    BY <2>4 DEF OfHub
  <2>6. TellsHub(hub, since, published)'
    BY <2>3, <2>4, <2>5 DEF TellsHub
  <2> QED BY <1>1, <2>4, <2>6 DEF HubTells
<1> QED BY <1>3, <1>4, <1>5, <1>6, <1>8, <1>9, <1>10

(***************************************************************************)
(* The theorems.                                                           *)
(***************************************************************************)
LEMMA TranscriptInvInit == Init => TranscriptInv
<1> SUFFICES ASSUME Init PROVE TranscriptInv
  OBVIOUS
<1> USE DEF Init
<1>1. /\ told = <<>> /\ cache = <<>> /\ Len(told) = 0 /\ Len(cache) = 0
      /\ told \in Seq(Speech) /\ cache \in Seq(AllEvents) /\ hub \in Seq(AllEvents) /\ Len(hub) = 0
  OBVIOUS
<1>2. NoRequest \in NewRequests
  BY DEF NewRequests
<1>3. TranscriptTypeOK
  BY <1>1, <1>2, NewRequestIs DEF TranscriptTypeOK
<1>4. ToldInTurns
  BY <1>1 DEF ToldInTurns, ToldTyped, Turns
<1>5. HubInOrder /\ CursorIsBehind
  BY <1>1 DEF HubInOrder, CursorIsBehind, BetweenTurns
<1>6. AnswerTells
  BY DEF AnswerTells, NoRequest
<1>7. CacheTells
  <2>1. Tells(<<>>, 0 + 1, 0) /\ Parted(<<>>, 0)
    BY EmptyTells
  <2>2. BetweenTurns(0)
    BY DEF BetweenTurns
  <2> QED BY <1>1, <2>1, <2>2 DEF CacheTells, NoRequest
<1>8. HubTells
  <2>1. Tells(<<>>, 0 + 1, 0)
    BY EmptyTells
  <2>2. \A k \in 1..Len(hub) : FALSE
    BY <1>1
  <2> QED BY <1>1, <2>1, <2>2 DEF HubTells, TellsHub, OfHub
<1> QED BY <1>3, <1>4, <1>5, <1>6, <1>7, <1>8 DEF TranscriptInv

LEMMA TranscriptInvNext == TranscriptInv /\ [Next]_vars => TranscriptInv'
<1> SUFFICES ASSUME TranscriptInv, [Next]_vars PROVE TranscriptInv'
  OBVIOUS
<1>1. CASE \E text \in Prompts : Prompt(text)
  BY <1>1, PromptKeeps
<1>2. CASE Speak
  BY <1>2, SpeakKeeps
<1>3. CASE Finish
  BY <1>3, FinishKeeps
<1>4. CASE WriteRow
  BY <1>4, WriteRowKeeps
<1>5. CASE Publish
  BY <1>5, PublishKeeps
<1>6. CASE TakeSnapshot
  BY <1>6, TakeSnapshotKeeps
<1>7. CASE ReadTranscript
  BY <1>7, ReadTranscriptKeeps
<1>8. CASE Receive
  BY <1>8, ReceiveKeeps
<1>9. CASE Open
  BY <1>9, OpenKeeps
<1>10. CASE Close
  BY <1>10, CloseKeeps
<1>11. CASE Lands
  BY <1>11, LandsKeeps
<1>12. CASE RequestFails
  BY <1>12, RequestFailsKeeps
<1>13. CASE LoadPage
  BY <1>13, LoadPageKeeps
<1>14. CASE Evict
  BY <1>14, EvictKeeps
<1>15. CASE RefreshStatus
  BY <1>15, RefreshStatusKeeps
<1>16. CASE Reconnect
  BY <1>16, ReconnectKeeps
<1>17. CASE Restart
  BY <1>17, RestartKeeps
<1>19. CASE Remark
  BY <1>19, RemarkKeeps
<1>18. CASE UNCHANGED vars
  BY <1>18, PageKeeps
     DEF vars, providerVars, hubVars, pageVars, cacheVars, panelVars, historyVars, TranscriptInv, TranscriptTypeOK
<1> QED BY <1>1, <1>2, <1>3, <1>4, <1>5, <1>6, <1>7, <1>8, <1>9, <1>10, <1>11, <1>12, <1>13, <1>14,
           <1>15, <1>16, <1>17, <1>18, <1>19 DEF Next

(* The invariant holds in every state.                                     *)
THEOREM SpecTranscriptInv == Spec => []TranscriptInv
BY TranscriptInvInit, TranscriptInvNext, PTL DEF Spec

(* The conversation, the hub, the request and the page keep their types,   *)
(* whatever is merged.                                                     *)
THEOREM TranscriptTypes == Spec => []TranscriptTypeOK
<1>1. TranscriptInv => TranscriptTypeOK
  BY DEF TranscriptInv
<1> QED BY <1>1, SpecTranscriptInv, PTL

LEMMA InvIsFaithful == TranscriptInv => PageIsFaithful
BY DEF TranscriptInv, CacheTells, PageIsFaithful

(* However the transcript, the answer to a request and the live events     *)
(* overlap, and whenever the page is loaded, loses its connection or asks  *)
(* again, it shows a part of the conversation that goes up to the last     *)
(* event it was sent, each piece once and in order; all of it once an      *)
(* answer has been merged (mergeHistoryAndLiveSnapshot,                    *)
(* mergeCodingSessionHydration), but for what `attended' names: among it   *)
(* an answer merged while the hub or the page has an event that no row     *)
(* tells (the tokens used, output of a command).  Such events may come at  *)
(* any point of a turn, and otherwise take their place in what is shown.   *)
THEOREM PagesAreFaithful == Spec => []PageIsFaithful
BY SpecTranscriptInv, InvIsFaithful, PTL
=============================================================================
