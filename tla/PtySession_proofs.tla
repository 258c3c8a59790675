------------------------- MODULE PtySession_proofs --------------------------
(***************************************************************************)
(* What interactive mode promises, for every set of keys, any number of    *)
(* keys, resizes and chunks printed, and however both are split: the shell *)
(* gets what was typed up to the quit, and the client shows what the shell *)
(* printed.                                                                *)
(*                                                                         *)
(* The argument.  The scan of a chunk goes on where the last one stopped,  *)
(* so the scans together give the keys before the first quit, less an      *)
(* escape key that is held back: by induction over the keys of the chunk.  *)
(* What they gave is at any time a chain of three links, the frames that   *)
(* the reader decoded, the units under way, and the queue of the sender,   *)
(* each beginning in the keys where the one before ends.  A step only      *)
(* moves the borders of the links, or cuts the end off when a sender       *)
(* fails.  A session that ends over a whole stream finds the links empty.  *)
(*                                                                         *)
(* A session that is to end does: NeverStuck says that some guard holds    *)
(* until it has ended, and RunsOut that every step taken uses up what is   *)
(* left to do.  What joins the two is fairness, so it is left to the model *)
(* checker (SessionEnds).                                                  *)
(***************************************************************************)
EXTENDS PtySession, WellFoundedInduction, TLAPS

(* Induction over the naturals, for a set. *)
LEMMA SetInduction ==
  ASSUME NEW S, 0 \in S, \A n \in Nat : n \in S => n + 1 \in S
  PROVE  Nat \subseteq S
<1> DEFINE T == Nat \ S
           R == {ss \in Nat \X Nat : ss[1] < ss[2]}
<1> SUFFICES ASSUME T # {} PROVE FALSE
  OBVIOUS
<1>1. IsWellFoundedOn(R, Nat)
  BY NatLessThanWellFounded DEF OpToRel
<1>2. PICK x \in T : \A y \in T : ~ (<<y, x>> \in R)
  BY <1>1, WFMin
<1>3. x # 0 /\ x \in Nat
  OBVIOUS
<1>4. x - 1 \in Nat /\ <<x - 1, x>> \in R
  BY <1>3
<1>5. x - 1 \in S
  BY <1>2, <1>4
<1>6. (x - 1) + 1 \in S
  BY <1>4, <1>5
<1> QED BY <1>3, <1>6

(* What Interpret works on. *)
Status == [escape : BOOLEAN, quit : BOOLEAN, bytes : Seq(Keys)]

(* One key leaves a status of the right type. *)
LEMMA InterpretType ==
  ASSUME NEW s \in Status, NEW key \in Keys
  PROVE  Interpret(s, key) \in Status
<1>1. "escape" \in Keys
  BY KeysAssumption
<1>2. s.bytes \o <<"escape", key>> \in Seq(Keys) /\ Append(s.bytes, key) \in Seq(Keys)
  BY <1>1 DEF Status
<1>3. \/ Interpret(s, key) = s
      \/ Interpret(s, key) = [s EXCEPT !.quit = TRUE, !.escape = FALSE]
      \/ Interpret(s, key) = [s EXCEPT !.escape = FALSE, !.bytes = s.bytes \o <<"escape", key>>]
      \/ Interpret(s, key) = [s EXCEPT !.escape = TRUE]
      \/ Interpret(s, key) = [s EXCEPT !.bytes = Append(s.bytes, key)]
  BY DEF Interpret
<1> QED BY <1>2, <1>3 DEF Status

(* Scan is a function that the equation defines. *)
LEMMA ScanIs ==
  ASSUME NEW start, NEW chunk \in Seq(Keys)
  PROVE  Scan(start, chunk) =
           [i \in 0..Len(chunk) |-> IF i = 0 THEN start
                ELSE Interpret(Scan(start, chunk)[i - 1], chunk[i])]
<1> DEFINE Is(g, n) == g = [i \in 0..n |-> IF i = 0 THEN start
                                ELSE Interpret(g[i - 1], chunk[i])]
           S == {n \in Nat : \E g : Is(g, n)}
<1>1. 0 \in S
  <2> DEFINE g == [i \in 0..0 |-> start]
  <2>1. Is(g, 0)
    OBVIOUS
  <2> QED BY <2>1
<1>2. ASSUME NEW n \in Nat, n \in S PROVE n + 1 \in S
  <2>1. PICK g : Is(g, n)
    BY <1>2
  <2> DEFINE h == [i \in 0..n + 1 |-> IF i = n + 1 THEN Interpret(g[n], chunk[n + 1]) ELSE g[i]]
  <2>2. \A i \in 0..n + 1 : h[i] = IF i = 0 THEN start ELSE Interpret(h[i - 1], chunk[i])
    <3>1. \A i \in 0..n : h[i] = g[i]
      OBVIOUS
    <3>2. \A i \in 0..n : g[i] = IF i = 0 THEN start ELSE Interpret(g[i - 1], chunk[i])
      BY <2>1
    <3>3. h[n + 1] = Interpret(h[n], chunk[n + 1])
      OBVIOUS
    <3> HIDE DEF h
    <3> QED BY <3>1, <3>2, <3>3
  <2>3. Is(h, n + 1)
    BY <2>2
  <2> HIDE DEF Is, h
  <2> QED BY <2>3
<1>3. Len(chunk) \in S
  <2> HIDE DEF S
  <2> QED BY <1>1, <1>2, SetInduction
<1>4. \E g : Is(g, Len(chunk))
  BY <1>3
<1>5. Scan(start, chunk) = CHOOSE g : Is(g, Len(chunk))
  BY DEF Scan
<1> HIDE DEF Is
<1>6. Is(Scan(start, chunk), Len(chunk))
  BY <1>4, <1>5
<1> QED BY <1>6 DEF Is
-----------------------------------------------------------------------------
(* Escape keys.  Run(s, i, k): there are k escape keys right before i. *)
Run(s, i, k) == /\ k \in 0..i - 1
                /\ \A j \in i - k..i - 1 : s[j] = "escape"
                /\ k = i - 1 \/ s[i - k - 1] # "escape"

(* A run of escape keys goes on with the next one. *)
LEMMA RunNext ==
  ASSUME NEW s, NEW i \in Nat, i >= 1, NEW k, Run(s, i, k), s[i] = "escape"
  PROVE  Run(s, i + 1, k + 1)
<1>1. k \in 0..i - 1 /\ k + 1 \in 0..(i + 1) - 1
  BY DEF Run
<1>2. ASSUME NEW j \in (i + 1) - (k + 1)..(i + 1) - 1 PROVE s[j] = "escape"
  <2>1. j = i \/ j \in i - k..i - 1
    BY <1>1
  <2> QED BY <2>1 DEF Run
<1>3. k + 1 = (i + 1) - 1 \/ s[(i + 1) - (k + 1) - 1] # "escape"
  <2>1. (i + 1) - (k + 1) - 1 = i - k - 1
    BY <1>1
  <2> QED BY <1>1, <2>1 DEF Run
<1> QED BY <1>1, <1>2, <1>3 DEF Run

(* There is a run before every key: by induction, from the one before. *)
LEMMA RunExists ==
  ASSUME NEW s
  PROVE  \A i \in Nat : i >= 1 => \E k : Run(s, i, k)
<1> DEFINE S == {n \in Nat : \E k : Run(s, n + 1, k)}
<1>1. 0 \in S
  <2>1. Run(s, 1, 0)
    BY DEF Run
  <2> QED BY <2>1
<1>2. ASSUME NEW n \in Nat, n \in S PROVE n + 1 \in S
  <2>1. PICK k : Run(s, n + 1, k)
    BY <1>2
  <2>2. CASE s[n + 1] = "escape"
    <3>1. Run(s, (n + 1) + 1, k + 1)
      BY <2>1, <2>2, RunNext
    <3> QED BY <3>1
  <2>3. CASE s[n + 1] # "escape"
    <3>1. Run(s, (n + 1) + 1, 0)
      BY <2>3 DEF Run
    <3> QED BY <3>1
  <2> QED BY <2>2, <2>3
<1> HIDE DEF S
<1>3. Nat \subseteq S
  BY <1>1, <1>2, SetInduction
<1>4. ASSUME NEW i \in Nat, i >= 1 PROVE \E k : Run(s, i, k)
  <2>1. i - 1 \in S /\ (i - 1) + 1 = i
    BY <1>3, <1>4
  <2> QED BY <2>1 DEF S
<1> QED BY <1>4

(* The run before a key is unique, and so is the parity of its length. *)
LEMMA RunUnique ==
  ASSUME NEW s, NEW i \in Nat, NEW k, NEW m, Run(s, i, k), Run(s, i, m)
  PROVE  k = m
<1>1. k \in 0..i - 1 /\ m \in 0..i - 1
  BY DEF Run
<1>2. ASSUME k < m PROVE FALSE
  <2>1. i - k - 1 \in i - m..i - 1 /\ k # i - 1
    BY <1>1, <1>2
  <2> QED BY <2>1 DEF Run
<1>3. ASSUME m < k PROVE FALSE
  <2>1. i - m - 1 \in i - k..i - 1 /\ m # i - 1
    BY <1>1, <1>3
  <2> QED BY <2>1 DEF Run
<1> QED BY <1>1, <1>2, <1>3

(* Starts, in terms of runs. *)
LEMMA StartsIs ==
  ASSUME NEW s, NEW i \in Nat
  PROVE  Starts(s, i) <=> s[i] = "escape" /\ \E k : Run(s, i, k) /\ k % 2 = 0
BY DEF Starts, Run

(* The first key starts a pair if it is an escape key. *)
LEMMA StartsFirst ==
  ASSUME NEW s
  PROVE  Starts(s, 1) <=> s[1] = "escape"
<1>1. Run(s, 1, 0) /\ 0 % 2 = 0
  BY DEF Run
<1> QED BY <1>1, StartsIs

(* An escape key starts a pair unless it ends one. *)
LEMMA StartsNext ==
  ASSUME NEW s, NEW i \in Nat, i >= 1
  PROVE  Starts(s, i + 1) <=> s[i + 1] = "escape" /\ ~Starts(s, i)
<1>1. CASE s[i] # "escape"
  <2>1. Run(s, i + 1, 0) /\ 0 % 2 = 0
    BY <1>1 DEF Run
  <2>2. ~Starts(s, i)
    BY <1>1 DEF Starts
  <2> QED BY <2>1, <2>2, StartsIs
<1>2. CASE s[i] = "escape"
  <2>1. PICK k : Run(s, i, k)
    BY RunExists
  <2>2. Run(s, i + 1, k + 1) /\ k \in Nat
    BY <1>2, <2>1, RunNext DEF Run
  <2>3. Starts(s, i) <=> k % 2 = 0
    BY <1>2, <2>1, RunUnique, StartsIs
  <2>4. Starts(s, i + 1) <=> s[i + 1] = "escape" /\ (k + 1) % 2 = 0
    BY <2>2, RunUnique, StartsIs
  <2>5. (k + 1) % 2 = 0 <=> ~ (k % 2 = 0)
    BY <2>2
  <2> QED BY <2>3, <2>4, <2>5
<1> QED BY <1>1, <1>2

(* Starts looks at no later key. *)
LEMMA StartsSame ==
  ASSUME NEW s, NEW t, NEW i \in Nat, \A j \in 1..i : s[j] = t[j]
  PROVE  Starts(s, i) <=> Starts(t, i)
<1>1. CASE i = 0
  BY <1>1 DEF Starts
<1>2. CASE i >= 1
  <2>1. ASSUME NEW k PROVE Run(s, i, k) <=> Run(t, i, k)
    <3>1. SUFFICES ASSUME k \in 0..i - 1 PROVE Run(s, i, k) <=> Run(t, i, k)
      BY DEF Run
    <3>2. \A j \in i - k..i - 1 : s[j] = t[j]
      BY <3>1
    <3>3. k # i - 1 => s[i - k - 1] = t[i - k - 1]
      BY <3>1
    <3> QED BY <3>2, <3>3 DEF Run
  <2>2. s[i] = t[i]
    BY <1>2
  <2> QED BY <2>1, <2>2, StartsIs
<1> QED BY <1>1, <1>2

(* QuitAt looks at the next key and no later one. *)
LEMMA QuitSame ==
  ASSUME NEW s, NEW t, NEW i \in Nat, i < Len(s), i < Len(t),
         \A j \in 1..i + 1 : s[j] = t[j]
  PROVE  QuitAt(s, i) <=> QuitAt(t, i)
<1>1. Starts(s, i) <=> Starts(t, i)
  BY StartsSame
<1> QED BY <1>1 DEF QuitAt
-----------------------------------------------------------------------------
(* What the scan of the first n keys of s has come to, when it began       *)
(* behind the first a of them: the keys up to the escape key that quits,   *)
(* or all but an escape key at the end.                                    *)
Bytes(d, s, a, b) ==
  /\ a <= b /\ Len(d) = b - a
  /\ \A j \in 1..Len(d) : d[j] = s[a + j]

(* An escape key at the end is held back. *)
Held(esc) == IF esc THEN 1 ELSE 0

(* The escape key that quits. *)
FirstQuit(s, i) == QuitAt(s, i) /\ \A j \in 1..i - 1 : ~QuitAt(s, j)

Scanned(s, n, a, st) ==
  IF st.quit
    THEN /\ ~st.escape
         /\ \E i \in 1..n - 1 : FirstQuit(s, i) /\ Bytes(st.bytes, s, a, i - 1)
    ELSE /\ st.escape <=> n > 0 /\ Starts(s, n)
         /\ \A i \in 1..n - 1 : ~QuitAt(s, i)
         /\ Bytes(st.bytes, s, a, n - Held(st.escape))

(* One more byte of the keys. *)
LEMMA BytesAppend ==
  ASSUME NEW d \in Seq(Keys), NEW s, NEW a \in Nat, NEW b \in Nat,
         Bytes(d, s, a, b), NEW key \in Keys, key = s[b + 1]
  PROVE  Bytes(Append(d, key), s, a, b + 1)
<1> DEFINE e == Append(d, key)
<1>1. /\ Len(e) = Len(d) + 1 /\ e[Len(d) + 1] = key
      /\ \A j \in 1..Len(d) : e[j] = d[j]
  OBVIOUS
<1>2. Len(d) = b - a /\ a <= b /\ Len(d) \in Nat
  BY DEF Bytes
<1> HIDE DEF e
<1>3. ASSUME NEW j \in 1..Len(e) PROVE e[j] = s[a + j]
  <2>1. CASE j = Len(d) + 1
    <3>1. a + j = b + 1
      BY <1>2, <2>1
    <3> QED BY <1>1, <2>1, <3>1
  <2>2. CASE j \in 1..Len(d)
    BY <1>1, <2>2 DEF Bytes
  <2> QED BY <1>1, <1>2, <2>1, <2>2
<1>4. Bytes(e, s, a, b + 1)
  BY <1>1, <1>2, <1>3 DEF Bytes
<1> QED BY <1>4 DEF e

(* One key: the five cases of Interpret. *)
LEMMA InterpretScans ==
  ASSUME NEW s \in Seq(Keys), NEW n \in Nat, n < Len(s), NEW a \in Nat,
         NEW st \in Status, Scanned(s, n, a, st)
  PROVE  Scanned(s, n + 1, a, Interpret(st, s[n + 1]))
<1> DEFINE key == s[n + 1]
           to == Interpret(st, key)
<1>1. key \in Keys /\ "escape" \in Keys
  BY KeysAssumption
<1>2. /\ st.bytes \in Seq(Keys) /\ st.escape \in BOOLEAN /\ st.quit \in BOOLEAN
      /\ to \in Status
  BY <1>1, InterpretType DEF Status
<1>s. Starts(s, n + 1) <=> key = "escape" /\ ~(n > 0 /\ Starts(s, n))
  <2>1. CASE n = 0
    BY <2>1, StartsFirst
  <2>2. CASE n > 0
    BY <2>2, StartsNext
  <2> QED BY <2>1, <2>2
<1>q. QuitAt(s, n) <=> Starts(s, n) /\ key = "q"
  BY DEF QuitAt
<1>m. (n + 1) - 1 = n /\ n + 1 > 0
  OBVIOUS
<1> HIDE DEF key, to
<1>3. CASE st.quit
  <2>1. to = st
    BY <1>3 DEF to, Interpret
  <2>2. PICK i \in 1..n - 1 : FirstQuit(s, i) /\ Bytes(st.bytes, s, a, i - 1)
    BY <1>3 DEF Scanned
  <2>3. i \in 1..(n + 1) - 1
    OBVIOUS
  <2>4. ~st.escape
    BY <1>3 DEF Scanned
  <2>5. Scanned(s, n + 1, a, to)
    BY <1>3, <2>1, <2>2, <2>3, <2>4 DEF Scanned
  <2> QED BY <2>5 DEF to, key
<1>4. CASE ~st.quit
  <2>0. /\ st.escape <=> n > 0 /\ Starts(s, n)
        /\ \A i \in 1..n - 1 : ~QuitAt(s, i)
        /\ Bytes(st.bytes, s, a, n - Held(st.escape))
    BY <1>4 DEF Scanned
  <2>n. ~QuitAt(s, n) => \A i \in 1..(n + 1) - 1 : ~QuitAt(s, i)
    BY <2>0
  <2>1. CASE st.escape /\ key = "q"
    <3>1. to.quit /\ ~to.escape /\ to.bytes = st.bytes
      BY <1>4, <2>1 DEF to, Interpret, Status
    <3>2. n \in 1..(n + 1) - 1 /\ FirstQuit(s, n)
      BY <1>q, <2>0, <2>1 DEF FirstQuit
    <3>3. Bytes(to.bytes, s, a, n - 1)
      BY <2>0, <2>1, <3>1 DEF Held
    <3>4. Scanned(s, n + 1, a, to)
      BY <3>1, <3>2, <3>3 DEF Scanned
    <3> QED BY <3>4 DEF to, key
  <2>2. CASE st.escape /\ key # "q"
    <3>1. /\ ~to.quit /\ ~to.escape
          /\ to.bytes = st.bytes \o <<"escape", key>>
      BY <1>4, <2>2 DEF to, Interpret, Status
    <3>2. s[n] = "escape" /\ n > 0 /\ n - 1 \in Nat
      BY <2>0, <2>2 DEF Starts
    <3>3. Bytes(Append(st.bytes, "escape"), s, a, (n - 1) + 1)
      BY <1>1, <1>2, <2>0, <2>2, <3>2, BytesAppend DEF Held
    <3>4. Append(st.bytes, "escape") \in Seq(Keys) /\ (n - 1) + 1 = n
      BY <1>1, <1>2, <3>2
    <3>5. Bytes(Append(Append(st.bytes, "escape"), key), s, a, n + 1)
      BY <1>1, <3>3, <3>4, BytesAppend DEF key
    <3>6. st.bytes \o <<"escape", key>> = Append(Append(st.bytes, "escape"), key)
      BY <1>1, <1>2
    <3>7. ~(Starts(s, n + 1)) /\ ~QuitAt(s, n)
      BY <1>s, <1>q, <2>0, <2>2
    <3>8. (n + 1) - Held(to.escape) = n + 1
      BY <3>1 DEF Held
    <3>9. Scanned(s, n + 1, a, to)
      BY <2>n, <3>1, <3>5, <3>6, <3>7, <3>8 DEF Scanned
    <3> QED BY <3>9 DEF to, key
  <2>3. CASE ~st.escape /\ key = "escape"
    <3>1. ~to.quit /\ to.escape /\ to.bytes = st.bytes
      BY <1>4, <2>3 DEF to, Interpret, Status
    <3>2. Starts(s, n + 1) /\ ~QuitAt(s, n)
      BY <1>s, <1>q, <2>0, <2>3
    <3>3. (n + 1) - Held(to.escape) = n /\ n - Held(st.escape) = n
      BY <2>3, <3>1 DEF Held
    <3>4. Scanned(s, n + 1, a, to)
      BY <1>m, <2>0, <2>n, <3>1, <3>2, <3>3 DEF Scanned
    <3> QED BY <3>4 DEF to, key
  <2>4. CASE ~st.escape /\ key # "escape"
    <3>1. ~to.quit /\ ~to.escape /\ to.bytes = Append(st.bytes, key)
      BY <1>4, <2>4 DEF to, Interpret, Status
    <3>2. ~Starts(s, n + 1) /\ ~QuitAt(s, n)
      <4>1. CASE n = 0
        BY <1>s, <2>4, <4>1 DEF QuitAt, Starts
      <4>2. CASE n > 0
        BY <1>s, <1>q, <2>0, <2>4, <4>2
      <4> QED BY <4>1, <4>2
    <3>3. (n + 1) - Held(to.escape) = n + 1 /\ n - Held(st.escape) = n
      BY <2>4, <3>1 DEF Held
    <3>4. Bytes(Append(st.bytes, key), s, a, n + 1)
      BY <1>1, <1>2, <2>0, <3>3, BytesAppend DEF key
    <3>5. Scanned(s, n + 1, a, to)
      BY <2>n, <3>1, <3>2, <3>3, <3>4 DEF Scanned
    <3> QED BY <3>5 DEF to, key
  <2> QED BY <1>2, <2>1, <2>2, <2>3, <2>4
<1> QED BY <1>2, <1>3, <1>4

(* The scan of a chunk that is typed behind the keys t. *)
LEMMA ScanScans ==
  ASSUME NEW t \in Seq(Keys), NEW chunk \in Seq(Keys), NEW a \in Nat,
         NEW st \in Status, Scanned(t \o chunk, Len(t), a, st)
  PROVE  LET p == Scan(st, chunk)[Len(chunk)]
         IN  p \in Status /\ Scanned(t \o chunk, Len(t \o chunk), a, p)
<1> DEFINE s == t \o chunk
           run == Scan(st, chunk)
           S == {i \in Nat : i <= Len(chunk) =>
                   run[i] \in Status /\ Scanned(s, Len(t) + i, a, run[i])}
<1>1. /\ s \in Seq(Keys) /\ Len(s) = Len(t) + Len(chunk)
      /\ \A i \in 1..Len(chunk) : s[Len(t) + i] = chunk[i]
      /\ Len(t) \in Nat /\ Len(chunk) \in Nat
  OBVIOUS
<1>2. run = [i \in 0..Len(chunk) |-> IF i = 0 THEN st
                ELSE Interpret(run[i - 1], chunk[i])]
  BY ScanIs
<1> HIDE DEF s, run
<1>3. 0 \in S
  <2>1. run[0] = st /\ Len(t) + 0 = Len(t)
    BY <1>1, <1>2
  <2> QED BY <2>1 DEF s
<1>4. ASSUME NEW i \in Nat, i \in S PROVE i + 1 \in S
  <2>1. SUFFICES ASSUME i + 1 <= Len(chunk)
                 PROVE  /\ run[i + 1] \in Status
                        /\ Scanned(s, Len(t) + (i + 1), a, run[i + 1])
    OBVIOUS
  <2>2. run[i] \in Status /\ Scanned(s, Len(t) + i, a, run[i])
    BY <1>1, <1>4, <2>1
  <2>3. run[i + 1] = Interpret(run[i], chunk[i + 1])
    BY <1>1, <1>2, <2>1
  <2>4. chunk[i + 1] = s[Len(t) + (i + 1)] /\ chunk[i + 1] \in Keys
    BY <1>1, <2>1
  <2>5. Len(t) + i \in Nat /\ Len(t) + i < Len(s)
        /\ (Len(t) + i) + 1 = Len(t) + (i + 1)
    BY <1>1, <2>1
  <2>6. Scanned(s, (Len(t) + i) + 1, a, Interpret(run[i], s[(Len(t) + i) + 1]))
    BY <1>1, <2>2, <2>5, InterpretScans
  <2>7. run[i + 1] \in Status
    BY <2>2, <2>3, <2>4, InterpretType
  <2> QED BY <2>3, <2>4, <2>5, <2>6, <2>7
<1>5. Len(chunk) \in S
  <2> HIDE DEF S
  <2> QED BY <1>1, <1>3, <1>4, SetInduction
<1>6. run[Len(chunk)] \in Status /\ Scanned(s, Len(s), a, run[Len(chunk)])
  BY <1>1, <1>5
<1> QED BY <1>6 DEF s, run

-----------------------------------------------------------------------------
(* What a sequence of items carries. *)
(* An item of a sender's queue, for data over V. *)
Item(V) == [type : {"data", "resize", "close"}, data : Seq(V)]

(* d lies in s, behind the first a of it *)
Part(d, s, a) == /\ a + Len(d) <= Len(s)
                 /\ \A j \in 1..Len(d) : d[j] = s[a + j]

(* off[i]: where the data of the first i items of p ends in s *)
Offsets(off, p, s, a, b) ==
  /\ off \in [0..Len(p) -> Nat]
  /\ off[0] = a /\ off[Len(p)] = b
  /\ \A i \in 1..Len(p) : /\ off[i] = off[i - 1] + Len(p[i].data)
                          /\ Part(p[i].data, s, off[i - 1])

Carries(p, s, a, b) == \E off : Offsets(off, p, s, a, b)

(* No items carry nothing. *)
LEMMA CarriesNone ==
  ASSUME NEW s, NEW a \in Nat
  PROVE  /\ Carries(<< >>, s, a, a)
         /\ \A b : Carries(<< >>, s, a, b) => b = a
<1>1. Offsets([i \in 0..0 |-> a], << >>, s, a, a)
  BY DEF Offsets
<1>2. \A b : Carries(<< >>, s, a, b) => b = a
  BY DEF Carries, Offsets
<1> QED BY <1>1, <1>2 DEF Carries

(* One more item carries its data on. *)
LEMMA CarriesAppend ==
  ASSUME NEW V, NEW p \in Seq(Item(V)), NEW x \in Item(V), NEW s,
         NEW a \in Nat, NEW b \in Nat, Carries(p, s, a, b), Part(x.data, s, b)
  PROVE  Carries(Append(p, x), s, a, b + Len(x.data))
<1>1. PICK off : Offsets(off, p, s, a, b)
  BY DEF Carries
<1> DEFINE q == Append(p, x)
           n == Len(p)
           m == b + Len(x.data)
           new == [i \in 0..n + 1 |-> IF i = n + 1 THEN m ELSE off[i]]
<1>2. /\ n \in Nat /\ Len(q) = n + 1 /\ q[n + 1] = x
      /\ \A i \in 1..n : q[i] = p[i]
  OBVIOUS
<1>3. m \in Nat
  BY DEF Item
<1>4. /\ off \in [0..n -> Nat] /\ off[0] = a /\ off[n] = b
      /\ \A i \in 1..n : /\ off[i] = off[i - 1] + Len(p[i].data)
                         /\ Part(p[i].data, s, off[i - 1])
  BY <1>1 DEF Offsets
<1>5. /\ new[n + 1] = m /\ \A i \in 0..n : new[i] = off[i]
      /\ new \in [0..n + 1 -> Nat]
  BY <1>2, <1>3, <1>4
<1> HIDE DEF q, n, new
<1>6. ASSUME NEW i \in 1..n + 1
      PROVE  new[i] = new[i - 1] + Len(q[i].data) /\ Part(q[i].data, s, new[i - 1])
  <2>1. CASE i = n + 1
    <3>1. new[i - 1] = b /\ new[i] = m /\ q[i] = x
      BY <1>2, <1>4, <1>5, <2>1
    <3> QED BY <3>1
  <2>2. CASE i \in 1..n
    <3>0. i - 1 \in 0..n /\ i \in 0..n
      BY <1>2, <2>2
    <3>1. new[i - 1] = off[i - 1] /\ new[i] = off[i] /\ q[i] = p[i]
      BY <1>2, <1>5, <2>2, <3>0
    <3> QED BY <1>4, <2>2, <3>1
  <2> QED BY <1>2, <2>1, <2>2
<1>7. new[0] = a /\ new[Len(q)] = m
  BY <1>2, <1>4, <1>5
<1>8. Offsets(new, q, s, a, m)
  BY <1>2, <1>5, <1>6, <1>7 DEF Offsets
<1> QED BY <1>8 DEF Carries, q

(* q1 and q2 are what p is cut into *)
LEMMA CarriesCut ==
  ASSUME NEW p, NEW q1, NEW q2, NEW s, NEW a, NEW c,
         Len(q1) \in Nat, Len(q2) \in Nat, Len(p) = Len(q1) + Len(q2),
         \A i \in 1..Len(q1) : q1[i] = p[i],
         \A i \in 1..Len(q2) : q2[i] = p[Len(q1) + i],
         Carries(p, s, a, c)
  PROVE  \E b \in Nat : Carries(q1, s, a, b) /\ Carries(q2, s, b, c)
<1>1. PICK off : Offsets(off, p, s, a, c)
  BY DEF Carries
<1> DEFINE n == Len(q1)
           m == Len(q2)
           o1 == [i \in 0..n |-> off[i]]
           o2 == [i \in 0..m |-> off[n + i]]
<1>2. n \in Nat /\ m \in Nat /\ Len(p) = n + m
  OBVIOUS
<1>3. /\ off \in [0..n + m -> Nat] /\ off[0] = a /\ off[n + m] = c
      /\ \A i \in 1..n + m : /\ off[i] = off[i - 1] + Len(p[i].data)
                             /\ Part(p[i].data, s, off[i - 1])
  BY <1>1 DEF Offsets
<1>4. Offsets(o1, q1, s, a, off[n])
  <2>1. o1 \in [0..n -> Nat] /\ \A i \in 0..n : o1[i] = off[i]
    BY <1>2, <1>3
  <2> HIDE DEF o1
  <2>2. ASSUME NEW i \in 1..n
        PROVE  o1[i] = o1[i - 1] + Len(q1[i].data) /\ Part(q1[i].data, s, o1[i - 1])
    <3>1. i \in 1..n + m /\ q1[i] = p[i] /\ o1[i] = off[i] /\ o1[i - 1] = off[i - 1]
      BY <1>2, <2>1
    <3> QED BY <1>3, <3>1
  <2> QED BY <1>2, <1>3, <2>1, <2>2 DEF Offsets
<1>5. Offsets(o2, q2, s, off[n], c)
  <2>1. o2 \in [0..m -> Nat] /\ \A i \in 0..m : o2[i] = off[n + i]
    BY <1>2, <1>3
  <2> HIDE DEF o2
  <2>2. ASSUME NEW i \in 1..m
        PROVE  o2[i] = o2[i - 1] + Len(q2[i].data) /\ Part(q2[i].data, s, o2[i - 1])
    <3>1. /\ n + i \in 1..n + m /\ q2[i] = p[n + i]
          /\ o2[i] = off[n + i] /\ o2[i - 1] = off[(n + i) - 1]
      BY <1>2, <2>1
    <3> QED BY <1>3, <3>1
  <2> QED BY <1>2, <1>3, <2>1, <2>2 DEF Offsets
<1>6. off[n] \in Nat
  BY <1>2, <1>3
<1> QED BY <1>4, <1>5, <1>6 DEF Carries

(* The first item carries its data, the others what is behind it. *)
LEMMA CarriesHead ==
  ASSUME NEW V, NEW p \in Seq(Item(V)), p # << >>, NEW s, NEW a \in Nat,
         NEW c \in Nat, Carries(p, s, a, c)
  PROVE  /\ Part(Head(p).data, s, a)
         /\ Carries(Tail(p), s, a + Len(Head(p).data), c)
<1> DEFINE q1 == <<Head(p)>>
           q2 == Tail(p)
<1>1. /\ Len(q1) = 1 /\ Len(q2) \in Nat /\ Len(p) = 1 + Len(q2)
      /\ q1[1] = p[1] /\ Head(p) = p[1]
      /\ \A i \in 1..Len(q2) : q2[i] = p[1 + i]
  OBVIOUS
<1> HIDE DEF q1, q2
<1>2. /\ \A i \in 1..Len(q1) : q1[i] = p[i]
      /\ \A i \in 1..Len(q2) : q2[i] = p[Len(q1) + i]
      /\ Len(q1) \in Nat /\ Len(p) = Len(q1) + Len(q2)
  BY <1>1
<1>3. PICK b \in Nat : Carries(q1, s, a, b) /\ Carries(q2, s, b, c)
  BY <1>1, <1>2, CarriesCut
<1>4. PICK off : Offsets(off, q1, s, a, b)
  BY <1>3 DEF Carries
<1>5. /\ off[0] = a /\ off[1] = b
      /\ \A i \in 1..1 : /\ off[i] = off[i - 1] + Len(q1[i].data)
                         /\ Part(q1[i].data, s, off[i - 1])
  BY <1>1, <1>4 DEF Offsets
<1>6. 1 \in 1..1 /\ 1 - 1 = 0
  OBVIOUS
<1>7. off[1] = off[0] + Len(q1[1].data) /\ Part(q1[1].data, s, off[0])
  BY <1>5, <1>6
<1> QED BY <1>1, <1>3, <1>5, <1>7 DEF q2

(* What is carried of s is carried of a sequence that continues s. *)
LEMMA CarriesLonger ==
  ASSUME NEW V, NEW p \in Seq(Item(V)), NEW s, NEW t, NEW a, NEW b,
         Len(s) \in Nat, Len(t) \in Nat, Len(s) <= Len(t),
         \A i \in 1..Len(s) : s[i] = t[i], Carries(p, s, a, b)
  PROVE  Carries(p, t, a, b)
<1>1. PICK off : Offsets(off, p, s, a, b)
  BY DEF Carries
<1>2. ASSUME NEW i \in 1..Len(p) PROVE Part(p[i].data, t, off[i - 1])
  <2>1. off[i - 1] \in Nat /\ Part(p[i].data, s, off[i - 1])
    BY <1>1 DEF Offsets
  <2>2. Len(p[i].data) \in Nat
    BY DEF Item
  <2>3. off[i - 1] + Len(p[i].data) <= Len(t)
    BY <2>1, <2>2 DEF Part
  <2>4. ASSUME NEW j \in 1..Len(p[i].data)
        PROVE  p[i].data[j] = t[off[i - 1] + j]
    <3>1. off[i - 1] + j \in 1..Len(s) /\ p[i].data[j] = s[off[i - 1] + j]
      BY <2>1, <2>2 DEF Part
    <3> QED BY <3>1
  <2> QED BY <2>3, <2>4 DEF Part
<1> QED BY <1>1, <1>2 DEF Offsets, Carries

(* What is carried ends within s. *)
LEMMA CarriesBounds ==
  ASSUME NEW V, NEW p \in Seq(Item(V)), NEW s, Len(s) \in Nat, NEW a \in 0..Len(s),
         NEW b, Carries(p, s, a, b)
  PROVE  b \in a..Len(s)
<1>1. PICK off : Offsets(off, p, s, a, b)
  BY DEF Carries
<1> DEFINE S == {i \in Nat : i <= Len(p) => off[i] \in a..Len(s)}
<1>2. 0 \in S
  BY <1>1 DEF Offsets
<1>3. ASSUME NEW i \in Nat, i \in S PROVE i + 1 \in S
  <2>1. SUFFICES ASSUME i + 1 <= Len(p) PROVE off[i + 1] \in a..Len(s)
    OBVIOUS
  <2>2. Len(p) \in Nat /\ off[i] \in a..Len(s)
    BY <1>3, <2>1
  <2>3. i + 1 \in 1..Len(p) /\ (i + 1) - 1 = i
    BY <2>1, <2>2
  <2>4. off[i + 1] = off[i] + Len(p[i + 1].data) /\ Part(p[i + 1].data, s, off[i])
    BY <1>1, <2>3 DEF Offsets
  <2>5. Len(p[i + 1].data) \in Nat
    BY <2>3 DEF Item
  <2> QED BY <2>2, <2>4, <2>5 DEF Part
<1>4. Len(p) \in S
  <2>1. Len(p) \in Nat
    OBVIOUS
  <2> HIDE DEF S
  <2> QED BY <1>2, <1>3, <2>1, SetInduction
<1> QED BY <1>1, <1>4 DEF Offsets

(* Items without data move nothing. *)
LEMMA CarriesNothing ==
  ASSUME NEW V, NEW p \in Seq(Item(V)), NEW s, NEW a \in Nat, NEW b,
         \A i \in 1..Len(p) : p[i].data = << >>, Carries(p, s, a, b)
  PROVE  a = b
<1>1. PICK off : Offsets(off, p, s, a, b)
  BY DEF Carries
<1> DEFINE S == {i \in Nat : i <= Len(p) => off[i] = a}
<1>2. 0 \in S
  BY <1>1 DEF Offsets
<1>3. ASSUME NEW i \in Nat, i \in S PROVE i + 1 \in S
  <2>1. SUFFICES ASSUME i + 1 <= Len(p) PROVE off[i + 1] = a
    OBVIOUS
  <2>2. Len(p) \in Nat /\ off[i] = a
    BY <1>3, <2>1
  <2>3. i + 1 \in 1..Len(p) /\ (i + 1) - 1 = i
    BY <2>1, <2>2
  <2>4. off[i + 1] = off[i] + Len(p[i + 1].data)
    BY <1>1, <2>3 DEF Offsets
  <2>5. Len(p[i + 1].data) = 0
    BY <2>3
  <2> QED BY <2>2, <2>4, <2>5
<1>4. Len(p) \in S
  <2>1. Len(p) \in Nat
    OBVIOUS
  <2> HIDE DEF S
  <2> QED BY <1>2, <1>3, <2>1, SetInduction
<1> QED BY <1>1, <1>4 DEF Offsets

-----------------------------------------------------------------------------
(* The decoder cuts between frames. *)
(* A frame with data over V. *)
Piece(V) == [type : {"data", "resize"}, data : Seq(V)]
(* What the decoder makes of units. *)
Decoded(all) == [i \in 1..Len(all) \div 2 |-> all[2 * i][1]]

(* An even number is twice its half. *)
LEMMA Halves ==
  ASSUME NEW n \in Nat
  PROVE  /\ n \div 2 \in Nat /\ 2 * (n \div 2) <= n /\ n <= 2 * (n \div 2) + 1
         /\ n % 2 = 0 => n = 2 * (n \div 2)
OBVIOUS

(* The decoder gives frames. *)
LEMMA DecodedType ==
  ASSUME NEW F, NEW un \in Seq(F \X {1, 2})
  PROVE  /\ Decoded(un) \in Seq(F) /\ Len(Decoded(un)) = Len(un) \div 2
         /\ \A i \in 1..Len(un) \div 2 : Decoded(un)[i] = un[2 * i][1]
<1> DEFINE n == Len(un) \div 2
<1>1. n \in Nat /\ 2 * n <= Len(un)
  BY Halves
<1> HIDE DEF n
<1>2. ASSUME NEW i \in 1..n PROVE un[2 * i][1] \in F
  <2>1. 2 * i \in 1..Len(un)
    BY <1>1
  <2>2. un[2 * i] \in F \X {1, 2}
    BY <2>1
  <2> QED BY <2>2
<1>3. Decoded(un) = [i \in 1..n |-> un[2 * i][1]]
  BY DEF Decoded, n
<1>4. [i \in 1..n |-> un[2 * i][1]] \in Seq(F)
  BY <1>1, <1>2
<1> QED BY <1>1, <1>3, <1>4 DEF n

(* A frame that is encoded behind whole frames is decoded behind them. *)
LEMMA DecodedAppend ==
  ASSUME NEW F, NEW un \in Seq(F \X {1, 2}), Len(un) % 2 = 0, NEW f \in F
  PROVE  /\ un \o Encode(f) \in Seq(F \X {1, 2})
         /\ Len(un \o Encode(f)) % 2 = 0
         /\ Decoded(un \o Encode(f)) = Append(Decoded(un), f)
<1> DEFINE all == un \o Encode(f)
           n == Len(un) \div 2
<1>1. /\ all \in Seq(F \X {1, 2}) /\ Len(all) = Len(un) + 2
      /\ all[Len(un) + 2] = <<f, 2>>
      /\ \A i \in 1..Len(un) : all[i] = un[i]
  BY DEF Encode
<1>2. n \in Nat /\ Len(un) = 2 * n
  BY Halves
<1> HIDE DEF n, all
<1>3. Len(all) = 2 * (n + 1) /\ Len(all) \div 2 = n + 1 /\ Len(all) % 2 = 0
  BY <1>1, <1>2
<1>n. Len(un) \div 2 = n
  BY DEF n
<1>4. /\ Decoded(all) \in Seq(F) /\ Len(Decoded(all)) = n + 1
      /\ \A i \in 1..n + 1 : Decoded(all)[i] = all[2 * i][1]
  BY <1>1, <1>3, DecodedType
<1>5. /\ Decoded(un) \in Seq(F) /\ Len(Decoded(un)) = n
      /\ \A i \in 1..n : Decoded(un)[i] = un[2 * i][1]
  BY <1>n, DecodedType
<1>6. ASSUME NEW i \in 1..n + 1 PROVE Decoded(all)[i] = Append(Decoded(un), f)[i]
  <2>1. CASE i = n + 1
    <3>1. all[2 * i] = <<f, 2>>
      BY <1>1, <1>2, <2>1
    <3>2. Append(Decoded(un), f)[n + 1] = f
      BY <1>5
    <3> QED BY <1>4, <2>1, <3>1, <3>2
  <2>2. CASE i \in 1..n
    <3>1. 2 * i \in 1..Len(un)
      BY <1>2, <2>2
    <3>2. Append(Decoded(un), f)[i] = Decoded(un)[i]
      BY <1>5, <2>2
    <3> QED BY <1>1, <1>4, <1>5, <2>2, <3>1, <3>2
  <2>3. i = n + 1 \/ i \in 1..n
    BY <1>2
  <2> QED BY <2>1, <2>2, <2>3
<1>7. Append(Decoded(un), f) \in Seq(F) /\ Len(Append(Decoded(un), f)) = n + 1
  BY <1>5
<1>8. Decoded(all) = Append(Decoded(un), f)
  <2> DEFINE u == Decoded(all)
             v == Append(Decoded(un), f)
  <2>1. /\ u \in Seq(F) /\ v \in Seq(F) /\ Len(u) = Len(v)
        /\ \A i \in 1..Len(u) : u[i] = v[i]
    BY <1>4, <1>6, <1>7
  <2> HIDE DEF u, v
  <2>2. u = v
    BY <2>1
  <2> QED BY <2>2 DEF u, v
<1> QED BY <1>1, <1>3, <1>8 DEF all

(* The sequence r is u and then v. *)
Joined(r, u, v) == /\ Len(r) = Len(u) + Len(v)
                   /\ \A i \in 1..Len(u) : r[i] = u[i]
                   /\ \A i \in 1..Len(v) : r[Len(u) + i] = v[i]

(* A concatenation, element by element. *)
LEMMA ConcatIs ==
  ASSUME NEW T, NEW u \in Seq(T), NEW v \in Seq(T)
  PROVE  u \o v \in Seq(T) /\ Joined(u \o v, u, v)
BY DEF Joined

(* The rest of a sequence, element by element. *)
LEMMA RestIs ==
  ASSUME NEW T, NEW s \in Seq(T), NEW m \in 0..Len(s)
  PROVE  /\ SubSeq(s, m + 1, Len(s)) \in Seq(T)
         /\ Len(SubSeq(s, m + 1, Len(s))) = Len(s) - m
         /\ Part(SubSeq(s, m + 1, Len(s)), s, m)
<1>1. /\ SubSeq(s, m + 1, Len(s)) \in Seq(T)
      /\ Len(SubSeq(s, m + 1, Len(s))) = Len(s) - m
      /\ \A j \in 1..Len(s) - m : SubSeq(s, m + 1, Len(s))[j] = s[m + j]
  OBVIOUS
<1> QED BY <1>1 DEF Part

(* The start of a sequence, element by element. *)
LEMMA PrefixIs ==
  ASSUME NEW T, NEW s \in Seq(T), NEW n \in 0..Len(s)
  PROVE  /\ SubSeq(s, 1, n) \in Seq(T) /\ Len(SubSeq(s, 1, n)) = n
         /\ Part(SubSeq(s, 1, n), s, 0)
<1>1. /\ SubSeq(s, 1, n) \in Seq(T) /\ Len(SubSeq(s, 1, n)) = n
      /\ \A j \in 1..n : SubSeq(s, 1, n)[j] = s[j]
  OBVIOUS
<1>2. \A j \in 1..n : 0 + j = j
  OBVIOUS
<1> QED BY <1>1, <1>2 DEF Part

(* A chunk w1 of w comes in behind bu, and m of what is there leave. *)
Rests(bu, w, w1, w2, all, un, r1, rest, m) ==
  /\ Len(bu) \in Nat /\ Len(w) \in Nat /\ Len(w1) \in Nat /\ Len(w2) \in Nat
  /\ Part(w1, w, 0) /\ Part(w2, w, Len(w1)) /\ Len(w) = Len(w1) + Len(w2)
  /\ Joined(all, bu, w1) /\ Joined(un, bu, w)
  /\ m \in Nat /\ m <= Len(all)
  /\ Part(r1, all, m) /\ Len(r1) = Len(all) - m /\ Joined(rest, r1, w2)

(* What the decoder keeps and what is on the wire are the rest of both. *)
LEMMA RestsJoin ==
  ASSUME NEW bu, NEW w, NEW w1, NEW w2, NEW all, NEW un, NEW r1, NEW rest,
         NEW m, Rests(bu, w, w1, w2, all, un, r1, rest, m)
  PROVE  /\ Len(un) = m + Len(rest)
         /\ \A i \in 1..m : all[i] = un[i]
         /\ \A i \in 1..Len(rest) : rest[i] = un[m + i]
<1> USE DEF Rests
<1>1. /\ Len(all) = Len(bu) + Len(w1) /\ Len(un) = Len(bu) + Len(w)
      /\ Len(rest) = Len(r1) + Len(w2) /\ Len(all) \in Nat /\ Len(r1) \in Nat
  BY DEF Joined
<1>9. ASSUME NEW i \in 1..Len(all) PROVE all[i] = un[i]
  <2>1. CASE i \in 1..Len(bu)
    BY <2>1 DEF Joined
  <2>2. CASE i - Len(bu) \in 1..Len(w1)
    <3> DEFINE j == i - Len(bu)
    <3>1. j \in 1..Len(w1) /\ i = Len(bu) + j
      BY <2>2
    <3> HIDE DEF j
    <3>2. j \in 1..Len(w) /\ 0 + j = j
      BY <3>1
    <3>3. w1[j] = w[j]
      BY <3>1, <3>2 DEF Part
    <3>4. all[Len(bu) + j] = w1[j] /\ un[Len(bu) + j] = w[j]
      BY <3>1, <3>2 DEF Joined
    <3> QED BY <3>1, <3>3, <3>4
  <2>3. i \in 1..Len(bu) \/ i - Len(bu) \in 1..Len(w1)
    BY <1>1
  <2> QED BY <2>1, <2>2, <2>3
<1>10. Len(un) = m + Len(rest)
  BY <1>1
<1>11. ASSUME NEW i \in 1..Len(rest) PROVE rest[i] = un[m + i]
  <2>1. CASE i \in 1..Len(r1)
    <3>1. m + i \in 1..Len(all)
      BY <1>1, <2>1
    <3>2. rest[i] = r1[i]
      BY <2>1 DEF Joined
    <3>3. r1[i] = all[m + i]
      BY <2>1 DEF Part
    <3> QED BY <1>9, <3>1, <3>2, <3>3
  <2>2. CASE i - Len(r1) \in 1..Len(w2)
    <3> DEFINE j == i - Len(r1)
    <3>1. j \in 1..Len(w2) /\ i = Len(r1) + j
      BY <1>1, <2>2
    <3> HIDE DEF j
    <3>2. m + i = Len(bu) + (Len(w1) + j) /\ Len(w1) + j \in 1..Len(w)
      BY <1>1, <3>1
    <3>3. rest[i] = w2[j]
      BY <3>1 DEF Joined
    <3>4. w2[j] = w[Len(w1) + j]
      BY <3>1 DEF Part
    <3>5. un[Len(bu) + (Len(w1) + j)] = w[Len(w1) + j]
      BY <3>2 DEF Joined
    <3> QED BY <3>2, <3>3, <3>4, <3>5
  <2>3. i \in 1..Len(r1) \/ i - Len(r1) \in 1..Len(w2)
    BY <1>1
  <2> QED BY <2>1, <2>2, <2>3
<1>12. \A i \in 1..m : all[i] = un[i]
  BY <1>1, <1>9
<1> QED BY <1>10, <1>11, <1>12

(* What push() makes of a chunk, the first n units of w behind the units   *)
(* bu that it has: it decodes All, the whole frames of it, and keeps Kept. *)
All(bu, w, n) == bu \o SubSeq(w, 1, n)
Frames(all) == Len(all) \div 2
Kept(all) == SubSeq(all, 2 * Frames(all) + 1, Len(all))
Behind(w, n) == SubSeq(w, n + 1, Len(w))

Pushes(T, bu, w, n, all, rest, un) ==
  /\ bu \in Seq(T) /\ w \in Seq(T) /\ n \in 0..Len(w)
  /\ all = All(bu, w, n) /\ rest = Kept(all) \o Behind(w, n) /\ un = bu \o w

(* Push cuts what was kept and received between two frames. *)
LEMMA PushCuts ==
  ASSUME NEW T, NEW bu, NEW w, NEW n, NEW all, NEW rest, NEW un,
         Pushes(T, bu, w, n, all, rest, un)
  PROVE  /\ all \in Seq(T) /\ rest \in Seq(T) /\ un \in Seq(T)
         /\ Kept(all) \in Seq(T) /\ Behind(w, n) \in Seq(T)
         /\ Frames(all) \in Nat /\ 2 * Frames(all) <= Len(all)
         /\ Len(un) = 2 * Frames(all) + Len(rest)
         /\ \A i \in 1..2 * Frames(all) : all[i] = un[i]
         /\ \A i \in 1..Len(rest) : rest[i] = un[2 * Frames(all) + i]
<1> DEFINE w1 == SubSeq(w, 1, n)
           w2 == Behind(w, n)
           k == Frames(all)
           r1 == Kept(all)
<1>t. bu \in Seq(T) /\ w \in Seq(T) /\ n \in 0..Len(w)
  BY DEF Pushes
<1>1. w1 \in Seq(T) /\ Len(w1) = n /\ Part(w1, w, 0)
  BY <1>t, PrefixIs
<1>2. w2 \in Seq(T) /\ Len(w2) = Len(w) - n /\ Part(w2, w, n)
  BY <1>t, RestIs DEF Behind
<1>3. un \in Seq(T) /\ Joined(un, bu, w)
  BY <1>t, ConcatIs DEF Pushes
<1>a. all = bu \o w1
  BY DEF All, Pushes
<1> HIDE DEF w1, w2
<1>4. all \in Seq(T) /\ Joined(all, bu, w1)
  BY <1>t, <1>1, <1>a, ConcatIs
<1>5. Len(all) \in Nat
  BY <1>4
<1>6. k \in Nat /\ 2 * k <= Len(all)
  BY <1>5, Halves DEF Frames
<1>b. r1 = SubSeq(all, 2 * k + 1, Len(all))
  BY DEF Kept
<1> HIDE DEF k, r1
<1>7. 2 * k \in 0..Len(all) /\ 2 * k \in Nat
  BY <1>5, <1>6
<1>8. r1 \in Seq(T) /\ Len(r1) = Len(all) - 2 * k /\ Part(r1, all, 2 * k)
  BY <1>4, <1>7, <1>b, RestIs
<1>c. rest = r1 \o w2
  BY DEF r1, w2, Pushes
<1>9. rest \in Seq(T) /\ Joined(rest, r1, w2)
  BY <1>2, <1>8, <1>c, ConcatIs
<1>10. /\ Len(bu) \in Nat /\ Len(w) \in Nat /\ Len(w1) \in Nat /\ Len(w2) \in Nat
       /\ Len(w) = Len(w1) + Len(w2)
  BY <1>t, <1>1, <1>2
<1>11. /\ Len(un) = 2 * k + Len(rest)
       /\ \A i \in 1..2 * k : all[i] = un[i]
       /\ \A i \in 1..Len(rest) : rest[i] = un[2 * k + i]
  <2> DEFINE m == 2 * k
  <2>1. m \in Nat /\ m <= Len(all) /\ Part(w2, w, Len(w1))
    BY <1>1, <1>2, <1>6, <1>7
  <2>2. Part(r1, all, m) /\ Len(r1) = Len(all) - m
    BY <1>8
  <2> HIDE DEF m
  <2>3. /\ Len(un) = m + Len(rest)
        /\ \A i \in 1..m : all[i] = un[i]
        /\ \A i \in 1..Len(rest) : rest[i] = un[m + i]
    <3>1. Part(w1, w, 0) /\ Joined(un, bu, w) /\ Joined(all, bu, w1) /\ Joined(rest, r1, w2)
      BY <1>1, <1>3, <1>4, <1>9
    <3>2. Rests(bu, w, w1, w2, all, un, r1, rest, m)
      BY <1>10, <2>1, <2>2, <3>1 DEF Rests
    <3> QED BY <3>2, RestsJoin
  <2> QED BY <2>3 DEF m
<1> QED BY <1>2, <1>3, <1>4, <1>6, <1>8, <1>9, <1>11
        DEF w2, r1, k

-----------------------------------------------------------------------------
(* The chain of what is under way: frames, units, queue. *)
(* What is under way to one end, on from the data that it has taken: the   *)
(* frames it decoded, the units behind them, and the sender's queue.       *)
Links(fr, un, qu, s, a, d) ==
  \E b, c \in Nat : /\ Carries(fr, s, a, b)
                    /\ Carries(Decoded(un), s, b, c)
                    /\ Carries(qu, s, c, d)

(* Whole frames only. *)
Even(un) == Len(un) % 2 = 0

(* Nothing in the queue carries data. *)
Silent(qu) == \A i \in 1..Len(qu) : qu[i].data = << >>

(* Under way from an end that sends data over V. *)
UnderWay(V, fr, un, qu) ==
  /\ fr \in Seq(Piece(V)) /\ un \in Seq(Piece(V) \X {1, 2}) /\ Even(un)
  /\ qu \in Seq(Item(V))

(* A frame can be queued. *)
LEMMA PieceItem ==
  ASSUME NEW V
  PROVE  /\ Piece(V) \subseteq Item(V)
         /\ \A p : p \in Seq(Piece(V)) => p \in Seq(Item(V))
<1>1. Piece(V) \subseteq Item(V)
  BY DEF Piece, Item
<1> QED BY <1>1

(* The types of what is under way. *)
LEMMA UnderWayItems ==
  ASSUME NEW V, NEW fr, NEW un, NEW qu, UnderWay(V, fr, un, qu)
  PROVE  /\ fr \in Seq(Item(V)) /\ Decoded(un) \in Seq(Item(V))
         /\ Decoded(un) \in Seq(Piece(V)) /\ qu \in Seq(Item(V))
<1>1. fr \in Seq(Piece(V)) /\ un \in Seq(Piece(V) \X {1, 2}) /\ qu \in Seq(Item(V))
  BY DEF UnderWay
<1>2. Decoded(un) \in Seq(Piece(V))
  BY <1>1, DecodedType
<1> QED BY <1>1, <1>2, PieceItem

(* What is under way ends within s. *)
LEMMA LinksBounds ==
  ASSUME NEW V, NEW fr, NEW un, NEW qu, UnderWay(V, fr, un, qu),
         NEW s, Len(s) \in Nat, NEW a \in 0..Len(s), NEW d,
         Links(fr, un, qu, s, a, d)
  PROVE  d \in a..Len(s)
<1>1. PICK b, c \in Nat : /\ Carries(fr, s, a, b) /\ Carries(Decoded(un), s, b, c)
                          /\ Carries(qu, s, c, d)
  BY DEF Links
<1>2. /\ fr \in Seq(Item(V)) /\ Decoded(un) \in Seq(Item(V)) /\ qu \in Seq(Item(V))
  BY UnderWayItems
<1>3. b \in a..Len(s)
  BY <1>1, <1>2, CarriesBounds
<1>4. b \in 0..Len(s)
  BY <1>3
<1>5. c \in b..Len(s)
  BY <1>1, <1>2, <1>4, CarriesBounds
<1>6. c \in 0..Len(s)
  BY <1>4, <1>5
<1>7. d \in c..Len(s)
  BY <1>1, <1>2, <1>6, CarriesBounds
<1> QED BY <1>3, <1>5, <1>7

(* The reader takes a frame. *)
LEMMA LinksTake ==
  ASSUME NEW V, NEW fr, NEW un, NEW qu, UnderWay(V, fr, un, qu), fr # << >>,
         NEW s, NEW a \in Nat, NEW d, Links(fr, un, qu, s, a, d)
  PROVE  /\ Part(Head(fr).data, s, a) /\ Len(Head(fr).data) \in Nat
         /\ Links(Tail(fr), un, qu, s, a + Len(Head(fr).data), d)
         /\ Tail(fr) \in Seq(Piece(V))
<1>1. PICK b, c \in Nat : /\ Carries(fr, s, a, b) /\ Carries(Decoded(un), s, b, c)
                          /\ Carries(qu, s, c, d)
  BY DEF Links
<1>2. fr \in Seq(Item(V)) /\ fr \in Seq(Piece(V))
  BY UnderWayItems DEF UnderWay
<1>3. Part(Head(fr).data, s, a) /\ Carries(Tail(fr), s, a + Len(Head(fr).data), b)
  BY <1>1, <1>2, CarriesHead
<1>4. Tail(fr) \in Seq(Piece(V)) /\ Head(fr) \in Piece(V)
  BY <1>2
<1>5. Len(Head(fr).data) \in Nat
  BY <1>4 DEF Piece
<1> QED BY <1>1, <1>3, <1>4, <1>5 DEF Links

(* The sender passes a frame on. *)
LEMMA LinksSend ==
  ASSUME NEW V, NEW fr, NEW un, NEW qu, UnderWay(V, fr, un, qu), qu # << >>,
         Head(qu) \in Piece(V),
         NEW s, NEW a \in Nat, NEW d \in Nat, Links(fr, un, qu, s, a, d)
  PROVE  /\ Links(fr, un \o Encode(Head(qu)), Tail(qu), s, a, d)
         /\ UnderWay(V, fr, un \o Encode(Head(qu)), Tail(qu))
<1>1. PICK b, c \in Nat : /\ Carries(fr, s, a, b) /\ Carries(Decoded(un), s, b, c)
                          /\ Carries(qu, s, c, d)
  BY DEF Links
<1>2. PICK f : f = Head(qu) /\ f \in Piece(V)
  OBVIOUS
<1>3. /\ un \o Encode(f) \in Seq(Piece(V) \X {1, 2}) /\ Even(un \o Encode(f))
      /\ Decoded(un \o Encode(f)) = Append(Decoded(un), f)
  <2>1. un \in Seq(Piece(V) \X {1, 2}) /\ Len(un) % 2 = 0
    BY DEF UnderWay, Even
  <2> QED BY <1>2, <2>1, DecodedAppend DEF Even
<1>4. Decoded(un) \in Seq(Item(V)) /\ qu \in Seq(Item(V)) /\ f \in Item(V)
  BY <1>2, UnderWayItems, PieceItem
<1>5. Part(f.data, s, c) /\ Carries(Tail(qu), s, c + Len(f.data), d)
  BY <1>1, <1>2, <1>4, CarriesHead
<1>6. Carries(Append(Decoded(un), f), s, b, c + Len(f.data))
  BY <1>1, <1>4, <1>5, CarriesAppend
<1>7. c + Len(f.data) \in Nat
  BY <1>2 DEF Piece
<1>8. Links(fr, un \o Encode(f), Tail(qu), s, a, d)
  BY <1>1, <1>3, <1>5, <1>6, <1>7 DEF Links
<1>9. Tail(qu) \in Seq(Item(V))
  BY <1>4
<1> QED BY <1>2, <1>3, <1>8, <1>9 DEF UnderWay

(* The sender is through with an item that carries nothing. *)
LEMMA LinksSkip ==
  ASSUME NEW V, NEW fr, NEW un, NEW qu, UnderWay(V, fr, un, qu), qu # << >>,
         Head(qu).data = << >>,
         NEW s, NEW a \in Nat, NEW d \in Nat, Links(fr, un, qu, s, a, d)
  PROVE  Links(fr, un, Tail(qu), s, a, d) /\ UnderWay(V, fr, un, Tail(qu))
<1>1. PICK b, c \in Nat : /\ Carries(fr, s, a, b) /\ Carries(Decoded(un), s, b, c)
                          /\ Carries(qu, s, c, d)
  BY DEF Links
<1>2. qu \in Seq(Item(V)) /\ Tail(qu) \in Seq(Item(V))
  BY DEF UnderWay
<1>3. Carries(Tail(qu), s, c + Len(Head(qu).data), d)
  BY <1>1, <1>2, CarriesHead
<1>4. c + Len(Head(qu).data) = c
  OBVIOUS
<1> QED BY <1>1, <1>2, <1>3, <1>4 DEF Links, UnderWay

(* The sender's queue is lost. *)
LEMMA LinksBreak ==
  ASSUME NEW V, NEW fr, NEW un, NEW qu, UnderWay(V, fr, un, qu),
         NEW s, Len(s) \in Nat, NEW a \in 0..Len(s), NEW d \in Nat,
         Links(fr, un, qu, s, a, d)
  PROVE  /\ \E c \in a..d : /\ Links(fr, un, << >>, s, a, c)
                            /\ Silent(qu) => c = d
         /\ UnderWay(V, fr, un, << >>)
<1>1. PICK b, c \in Nat : /\ Carries(fr, s, a, b) /\ Carries(Decoded(un), s, b, c)
                          /\ Carries(qu, s, c, d)
  BY DEF Links
<1>2. /\ fr \in Seq(Item(V)) /\ Decoded(un) \in Seq(Item(V)) /\ qu \in Seq(Item(V))
  BY UnderWayItems
<1>3. Links(fr, un, << >>, s, a, c)
  BY <1>1, CarriesNone DEF Links
<1>4. << >> \in Seq(Item(V))
  OBVIOUS
<1>5. UnderWay(V, fr, un, << >>)
  BY <1>4 DEF UnderWay
<1>6. c \in a..Len(s)
  BY <1>3, <1>5, LinksBounds
<1>7. d \in c..Len(s)
  BY <1>1, <1>2, <1>6, CarriesBounds
<1>8. Silent(qu) => c = d
  BY <1>1, <1>2, CarriesNothing DEF Silent
<1> QED BY <1>3, <1>5, <1>6, <1>7, <1>8

(* The sender is given an item. *)
LEMMA LinksGive ==
  ASSUME NEW V, NEW fr, NEW un, NEW qu, UnderWay(V, fr, un, qu),
         NEW x \in Item(V), NEW s, NEW a \in Nat, NEW d \in Nat,
         Part(x.data, s, d), Links(fr, un, qu, s, a, d)
  PROVE  /\ Links(fr, un, Append(qu, x), s, a, d + Len(x.data))
         /\ UnderWay(V, fr, un, Append(qu, x))
<1>1. PICK b, c \in Nat : /\ Carries(fr, s, a, b) /\ Carries(Decoded(un), s, b, c)
                          /\ Carries(qu, s, c, d)
  BY DEF Links
<1>2. qu \in Seq(Item(V)) /\ Append(qu, x) \in Seq(Item(V))
  BY DEF UnderWay
<1>3. Carries(Append(qu, x), s, c, d + Len(x.data))
  BY <1>1, <1>2, CarriesAppend
<1> QED BY <1>1, <1>2, <1>3 DEF Links, UnderWay

(* There is more to send. *)
LEMMA LinksLonger ==
  ASSUME NEW V, NEW fr, NEW un, NEW qu, UnderWay(V, fr, un, qu),
         NEW s, NEW t, NEW a, NEW d, Len(s) \in Nat, Len(t) \in Nat,
         Len(s) <= Len(t), \A i \in 1..Len(s) : s[i] = t[i],
         Links(fr, un, qu, s, a, d)
  PROVE  Links(fr, un, qu, t, a, d)
<1>1. PICK b, c \in Nat : /\ Carries(fr, s, a, b) /\ Carries(Decoded(un), s, b, c)
                          /\ Carries(qu, s, c, d)
  BY DEF Links
<1>2. /\ fr \in Seq(Item(V)) /\ Decoded(un) \in Seq(Item(V)) /\ qu \in Seq(Item(V))
  BY UnderWayItems
<1>3. ASSUME NEW p \in Seq(Item(V)), NEW m, NEW n, Carries(p, s, m, n)
      PROVE  Carries(p, t, m, n)
  BY <1>3, CarriesLonger
<1> QED BY <1>1, <1>2, <1>3 DEF Links

(* Half of a double. *)
LEMMA Doubled ==
  ASSUME NEW m \in Nat
  PROVE  (2 * m) \div 2 = m /\ (2 * m) % 2 = 0
OBVIOUS

(* The decoder gets a chunk, and has nothing decoded before. *)
LEMMA PushUnder ==
  ASSUME NEW V, NEW bu, NEW w, NEW qu, UnderWay(V, << >>, bu \o w, qu),
         bu \in Seq(Piece(V) \X {1, 2}), w \in Seq(Piece(V) \X {1, 2}),
         NEW n \in 0..Len(w)
  PROVE  LET all == All(bu, w, n)
             rest == Kept(all) \o Behind(w, n)
             un == bu \o w
         IN  /\ UnderWay(V, Decoded(all), rest, qu)
             /\ Len(Decoded(all)) \in Nat /\ Len(Decoded(rest)) \in Nat
             /\ Len(Decoded(un)) = Len(Decoded(all)) + Len(Decoded(rest))
             /\ \A i \in 1..Len(Decoded(all)) : Decoded(all)[i] = Decoded(un)[i]
             /\ \A i \in 1..Len(Decoded(rest)) :
                  Decoded(rest)[i] = Decoded(un)[Len(Decoded(all)) + i]
<1> DEFINE T == Piece(V) \X {1, 2}
           all == All(bu, w, n)
           k == Frames(all)
           rest == Kept(all) \o Behind(w, n)
           un == bu \o w
           fr == Decoded(all)
<1>1. bu \in Seq(T) /\ w \in Seq(T)
  OBVIOUS
<1>2. /\ all \in Seq(T) /\ rest \in Seq(T) /\ un \in Seq(T)
      /\ k \in Nat /\ 2 * k <= Len(all)
      /\ Len(un) = 2 * k + Len(rest)
      /\ \A i \in 1..2 * k : all[i] = un[i]
      /\ \A i \in 1..Len(rest) : rest[i] = un[2 * k + i]
  <2>1. Pushes(T, bu, w, n, all, rest, un)
    BY <1>1 DEF Pushes
  <2> HIDE DEF T, all, rest, un
  <2> QED BY <2>1, PushCuts
<1>4. UnderWay(V, << >>, un, qu)
  OBVIOUS
<1>5. k = Len(all) \div 2
  BY DEF Frames
<1> HIDE DEF T, all, k, rest, un, fr
<1>8. /\ fr \in Seq(Piece(V)) /\ Len(fr) = k
      /\ \A i \in 1..k : fr[i] = all[2 * i][1]
  BY <1>2, <1>5, DecodedType DEF T, fr
<1>9. /\ Len(rest) \in Nat /\ Len(un) \in Nat /\ Len(un) = 2 * (Len(un) \div 2)
      /\ Len(un) \div 2 \in Nat
  <2>1. Len(un) % 2 = 0 /\ Len(un) \in Nat /\ Len(rest) \in Nat
    BY <1>2, <1>4 DEF UnderWay, Even
  <2> QED BY <2>1, Halves
<1>10. PICK h : h = Len(un) \div 2
  OBVIOUS
<1>11. PICK m : m = h - k
  OBVIOUS
<1>12. /\ h \in Nat /\ m \in Nat /\ h = k + m /\ Len(rest) = 2 * m
       /\ Len(rest) \div 2 = m /\ Len(rest) % 2 = 0
  <2>1. h \in Nat /\ m \in Nat /\ h = k + m /\ Len(rest) = 2 * m
    <3>1. k \in Nat /\ Len(un) = 2 * k + Len(rest)
      BY <1>2
    <3>2. h \in Nat /\ Len(un) = 2 * h /\ Len(rest) \in Nat
      BY <1>9, <1>10
    <3> QED BY <1>11, <3>1, <3>2
  <2> QED BY <2>1, Doubled
<1>13. /\ Decoded(rest) \in Seq(Piece(V)) /\ Len(Decoded(rest)) = m
       /\ \A i \in 1..m : Decoded(rest)[i] = rest[2 * i][1]
  BY <1>2, <1>12, DecodedType DEF T
<1>14. /\ Len(Decoded(un)) = h
       /\ \A i \in 1..h : Decoded(un)[i] = un[2 * i][1]
  BY <1>2, <1>10, DecodedType DEF T
<1>15. ASSUME NEW i \in 1..k PROVE fr[i] = Decoded(un)[i]
  <2>1. 2 * i \in 1..2 * k /\ i \in 1..h
    BY <1>2, <1>12
  <2> QED BY <1>2, <1>8, <1>14, <2>1
<1>16. ASSUME NEW i \in 1..m PROVE Decoded(rest)[i] = Decoded(un)[k + i]
  <2>1. 2 * i \in 1..Len(rest) /\ k + i \in 1..h /\ 2 * (k + i) = 2 * k + 2 * i
    BY <1>2, <1>12
  <2>2. rest[2 * i] = un[2 * k + 2 * i]
    BY <1>2, <2>1
  <2> QED BY <1>13, <1>14, <2>1, <2>2
<1>17. /\ Len(fr) \in Nat /\ Len(Decoded(rest)) \in Nat
       /\ Len(Decoded(un)) = Len(fr) + Len(Decoded(rest))
       /\ \A i \in 1..Len(fr) : fr[i] = Decoded(un)[i]
       /\ \A i \in 1..Len(Decoded(rest)) : Decoded(rest)[i] = Decoded(un)[Len(fr) + i]
  BY <1>2, <1>8, <1>12, <1>13, <1>14, <1>15, <1>16
<1>19. UnderWay(V, fr, rest, qu)
  BY <1>2, <1>4, <1>8, <1>12 DEF UnderWay, Even, T
<1> QED BY <1>17, <1>19 DEF all, rest, un, fr

(* The decoder gets a chunk: the chain is the same. *)
LEMMA LinksPush ==
  ASSUME NEW V, NEW bu, NEW w, NEW qu, UnderWay(V, << >>, bu \o w, qu),
         bu \in Seq(Piece(V) \X {1, 2}), w \in Seq(Piece(V) \X {1, 2}),
         NEW n \in 0..Len(w), NEW s, NEW a \in Nat, NEW d,
         Links(<< >>, bu \o w, qu, s, a, d)
  PROVE  LET all == All(bu, w, n)
         IN  Links(Decoded(all), Kept(all) \o Behind(w, n), qu, s, a, d)
<1> DEFINE un == bu \o w
           fr == Decoded(All(bu, w, n))
           rest == Kept(All(bu, w, n)) \o Behind(w, n)
<1>1. /\ Len(fr) \in Nat /\ Len(Decoded(rest)) \in Nat
      /\ Len(Decoded(un)) = Len(fr) + Len(Decoded(rest))
      /\ \A i \in 1..Len(fr) : fr[i] = Decoded(un)[i]
      /\ \A i \in 1..Len(Decoded(rest)) : Decoded(rest)[i] = Decoded(un)[Len(fr) + i]
  BY PushUnder
<1>2. PICK b, c \in Nat : /\ Carries(<< >>, s, a, b) /\ Carries(Decoded(un), s, b, c)
                          /\ Carries(qu, s, c, d)
  BY DEF Links
<1> HIDE DEF un, fr, rest
<1>3. b = a
  BY <1>2, CarriesNone
<1>4. PICK b2 \in Nat : Carries(fr, s, b, b2) /\ Carries(Decoded(rest), s, b2, c)
  BY <1>1, <1>2, CarriesCut
<1>5. Links(fr, rest, qu, s, a, d)
  BY <1>2, <1>3, <1>4 DEF Links
<1> QED BY <1>5 DEF fr, rest

(* At the end of the stream nothing is under way but in the queue. *)
LEMMA LinksEnd ==
  ASSUME NEW V, NEW un, NEW qu, UnderWay(V, << >>, un, qu), un = << >>,
         NEW s, NEW a \in Nat, NEW d, Links(<< >>, un, qu, s, a, d)
  PROVE  Silent(qu) => a = d
<1>1. PICK b, c \in Nat : /\ Carries(<< >>, s, a, b) /\ Carries(Decoded(un), s, b, c)
                          /\ Carries(qu, s, c, d)
  BY DEF Links
<1>2. Decoded(un) = << >>
  BY DEF Decoded
<1>3. b = a
  BY <1>1, CarriesNone
<1>4. Carries(<< >>, s, b, c)
  BY <1>1, <1>2
<1>5. c = b
  BY <1>4, CarriesNone
<1>6. qu \in Seq(Item(V))
  BY DEF UnderWay
<1> QED BY <1>1, <1>3, <1>5, <1>6, CarriesNothing DEF Silent

-----------------------------------------------------------------------------
(* Types. *)
(* The loop over the keys of a chunk keeps its type: by induction. *)
LEMMA ScanType ==
  ASSUME NEW st \in Status, NEW chunk \in Seq(Keys)
  PROVE  Scan(st, chunk)[Len(chunk)] \in Status
<1> DEFINE run == Scan(st, chunk)
           S == {i \in Nat : i <= Len(chunk) => run[i] \in Status}
<1>1. run = [i \in 0..Len(chunk) |-> IF i = 0 THEN st
                ELSE Interpret(run[i - 1], chunk[i])]
  BY ScanIs
<1>2. Len(chunk) \in Nat
  OBVIOUS
<1> HIDE DEF run
<1>3. 0 \in S
  BY <1>1, <1>2
<1>4. ASSUME NEW i \in Nat, i \in S PROVE i + 1 \in S
  <2>1. SUFFICES ASSUME i + 1 <= Len(chunk) PROVE run[i + 1] \in Status
    OBVIOUS
  <2>2. run[i] \in Status /\ chunk[i + 1] \in Keys
    BY <1>2, <1>4, <2>1
  <2>3. run[i + 1] = Interpret(run[i], chunk[i + 1])
    BY <1>1, <1>2, <2>1
  <2> QED BY <2>2, <2>3, InterpretType
<1>5. Len(chunk) \in S
  <2> HIDE DEF S
  <2> QED BY <1>2, <1>3, <1>4, SetInduction
<1> QED BY <1>2, <1>5 DEF run

(* The chunks that may be typed are sequences of keys. *)
LEMMA ChunkType ==
  ASSUME NEW n \in Int, NEW chunk \in BoundedSeq(Keys, n)
  PROVE  chunk \in Seq(Keys) /\ Len(chunk) \in Nat /\ Len(chunk) <= n
<1>1. PICK m \in 0..n : chunk \in [1..m -> Keys]
  BY DEF BoundedSeq, SeqOf
<1> QED BY <1>1

(* The values that end e sends. *)
Values(e) == IF e = "client" THEN Keys ELSE 1..MaxOutput
Items(e) == Frame(e) \cup {Closing}

(* The frames of an end, as the lemmas above take them. *)
LEMMA FrameIs ==
  ASSUME NEW e
  PROVE  /\ Frame(e) = Piece(Values(e)) /\ Unit(e) = Piece(Values(e)) \X {1, 2}
         /\ Items(e) \subseteq Item(Values(e))
         /\ \A q : q \in Seq(Items(e)) => q \in Seq(Item(Values(e)))
         /\ \A d : d \in Seq(Values(e)) => Data(d) \in Frame(e)
         /\ Resized \in Frame(e) /\ Closing \in Items(e)
<1>1. Frame(e) = Piece(Values(e))
  BY DEF Frame, Piece, Values
<1>2. Unit(e) = Piece(Values(e)) \X {1, 2}
  BY <1>1 DEF Unit
<1>3. Items(e) \subseteq Item(Values(e))
  <2>1. Closing \in Item(Values(e))
    BY DEF Closing, Item
  <2> QED BY <1>1, <2>1, PieceItem DEF Items
<1>4. \A q : q \in Seq(Items(e)) => q \in Seq(Item(Values(e)))
  BY <1>3
<1>5. \A d : d \in Seq(Values(e)) => Data(d) \in Frame(e)
  BY <1>1 DEF Data, Piece
<1>6. Resized \in Frame(e) /\ Closing \in Items(e)
  BY <1>1 DEF Resized, Piece, Items
<1> QED BY <1>1, <1>2, <1>3, <1>4, <1>5, <1>6

(* What onData gives to the sender can be queued. *)
LEMMA SendsType ==
  ASSUME NEW p \in Status
  PROVE  Sends(p) \in Seq(Items("client"))
<1>1. p.bytes \in Seq(Values("client"))
  BY DEF Status, Values
<1>2. Data(p.bytes) \in Items("client") /\ Closing \in Items("client")
  BY <1>1, FrameIs DEF Items
<1> QED BY <1>2 DEF Sends

(* TypeOK says of most arrays what they hold at each end, not that they    *)
(* are functions on the two ends: that is needed to update them.           *)
Arrays == /\ queue = [e \in Ends |-> queue[e]]
          /\ sender = [e \in Ends |-> sender[e]]
          /\ wire = [e \in Ends |-> wire[e]]
          /\ closed = [e \in Ends |-> closed[e]]
          /\ buffer = [e \in Ends |-> buffer[e]]
          /\ frames = [e \in Ends |-> frames[e]]
          /\ loop = [e \in Ends |-> loop[e]]

UserTypes == /\ typed \in Seq(Keys) /\ Len(typed) <= MaxKeys
             /\ escape \in BOOLEAN /\ quitting \in BOOLEAN
             /\ resizes \in 0..MaxResizes
SendTypes == \A e \in Ends : /\ queue[e] \in Seq(Items(e))
                             /\ sender[e] \in {"ok", "full", "failed"}
WireTypes == \A e \in Ends : wire[e] \in Seq(Unit(e))
ReadTypes == \A e \in Ends : /\ buffer[Other(e)] \in Seq(Unit(e))
                             /\ frames[Other(e)] \in Seq(Frame(e))
LoopTypes == \A e \in Ends : loop[e] \in {"reading", "draining", "done", "failed"}
OtherTypes == /\ closed \in [Ends -> BOOLEAN] /\ cut \in BOOLEAN
              /\ shown \in Seq(1..MaxOutput) /\ input \in Seq(Keys)
              /\ printed \in 0..MaxOutput
              /\ shell \in {"running", "killed", "exited"}
              /\ client \in {"running", "returned", "threw"}
              /\ server \in {"racing", "killing", "draining", "closing",
                             "waiting", "returned", "threw"}

TypeInv == /\ UserTypes /\ SendTypes /\ WireTypes /\ ReadTypes /\ LoopTypes
           /\ OtherTypes /\ Arrays

(* The typed arrays are what TypeOK says. *)
LEMMA TypesOK == TypeInv => TypeOK
BY DEF TypeInv, TypeOK, UserTypes, SendTypes, WireTypes, ReadTypes, LoopTypes,
       OtherTypes, Items

(* There are two ends, each the other of the other. *)
LEMMA EndsAre == /\ "client" \in Ends /\ "listener" \in Ends
                 /\ \A e \in Ends : e = "client" \/ e = "listener"
                 /\ \A e \in Ends : Other(e) \in Ends /\ Other(Other(e)) = e
                 /\ Other("client") = "listener" /\ Other("listener") = "client"
BY DEF Ends, Other

(* The types hold at first. *)
LEMMA TypeInit == Init => TypeInv
<1> SUFFICES ASSUME Init PROVE TypeInv
  OBVIOUS
<1>1. /\ UserTypes /\ OtherTypes /\ LoopTypes /\ WireTypes /\ ReadTypes
  <2>1. UserTypes
    <3>1. << >> \in Seq(Keys) /\ Len(<< >>) = 0
      OBVIOUS
    <3>2. 0 <= MaxKeys /\ 0 \in 0..MaxResizes
      BY BoundsAssumption
    <3> QED BY <3>1, <3>2 DEF Init, UserTypes
  <2>2. OtherTypes
    <3>1. << >> \in Seq(Keys) /\ << >> \in Seq(1..MaxOutput)
      OBVIOUS
    <3>2. 0 \in 0..MaxOutput
      BY BoundsAssumption
    <3> QED BY <3>1, <3>2 DEF Init, OtherTypes
  <2>3. LoopTypes
    BY DEF Init, LoopTypes
  <2>4. WireTypes
    BY DEF Init, WireTypes
  <2>5. ReadTypes
    BY EndsAre DEF Init, ReadTypes
  <2> QED BY <2>1, <2>2, <2>3, <2>4, <2>5
<1>2. SendTypes
  <2>1. Resized \in Items("client")
    BY FrameIs DEF Items
  <2> QED BY <2>1 DEF Init, SendTypes
<1>3. Arrays
  BY DEF Init, Arrays
<1> QED BY <1>1, <1>2, <1>3 DEF TypeInv

(* Enqueue, for items of the end. *)
LEMMA EnqueueType ==
  ASSUME TypeInv, NEW e \in Ends, NEW items \in Seq(Items(e)), Enqueue(e, items),
         sender' = sender
  PROVE  SendTypes' /\ queue' = [x \in Ends |-> queue'[x]]
<1>1. /\ queue' = [queue EXCEPT ![e] = IF sender[e] = "failed" THEN queue[e]
                                       ELSE queue[e] \o items]
      /\ queue = [x \in Ends |-> queue[x]] /\ queue[e] \in Seq(Items(e))
      /\ \A x \in Ends : queue[x] \in Seq(Items(x))
  BY DEF Enqueue, TypeInv, SendTypes, Arrays
<1>2. queue[e] \o items \in Seq(Items(e))
  BY <1>1
<1>3. \A x \in Ends : queue'[x] \in Seq(Items(x))
  BY <1>1, <1>2
<1> QED BY <1>1, <1>3 DEF TypeInv, SendTypes

-----------------------------------------------------------------------------
(* Every step keeps the types. *)
(* A stuttering step keeps the types. *)
LEMMA TypeSame ==
  ASSUME TypeInv, UNCHANGED vars
  PROVE  TypeInv'
BY DEF TypeInv, UserTypes, SendTypes, WireTypes, ReadTypes, LoopTypes, OtherTypes,
       Arrays, vars, userVars, sendVars, streamVars, readVars, shellVars

(* The sender passes an item on. *)
LEMMA TransmitTypes ==
  ASSUME TypeInv, NEW e \in Ends, Transmit(e)
  PROVE  TypeInv'
<1>1. /\ queue[e] # << >>
      /\ UNCHANGED <<userVars, cut, readVars, shellVars, client, server>>
  BY DEF Transmit
<1>2. UserTypes' /\ ReadTypes' /\ LoopTypes'
      /\ Arrays /\ SendTypes /\ WireTypes /\ OtherTypes
  BY <1>1 DEF TypeInv, UserTypes, ReadTypes, LoopTypes, userVars, readVars
<1>3. /\ queue[e] \in Seq(Items(e)) /\ Tail(queue[e]) \in Seq(Items(e))
      /\ Head(queue[e]) \in Items(e)
  BY <1>1, <1>2 DEF SendTypes
<1>4. \/ queue' = [queue EXCEPT ![e] = Tail(queue[e])]
      \/ queue' = [queue EXCEPT ![e] = << >>]
  BY DEF Transmit, Breaks
<1>5. \/ sender' = sender
      \/ sender' = [sender EXCEPT ![e] = "failed"]
      \/ sender' = [sender EXCEPT ![e] = "full"]
  BY DEF Transmit, Breaks
<1>6. \/ closed' = closed
      \/ closed' = [closed EXCEPT ![e] = TRUE]
  BY DEF Transmit, Breaks
<1>7. \/ wire' = wire
      \/ /\ wire' = [wire EXCEPT ![e] = wire[e] \o Encode(Head(queue[e]))]
         /\ Head(queue[e]) # Closing
  BY DEF Transmit, Breaks
<1>8. SendTypes'
  <2>1. \A x \in Ends : queue'[x] \in Seq(Items(x))
    <3>1. << >> \in Seq(Items(e))
      OBVIOUS
    <3>2. \A x \in Ends : x # e => queue'[x] = queue[x]
      BY <1>2, <1>4 DEF Arrays
    <3>3. queue'[e] = Tail(queue[e]) \/ queue'[e] = << >>
      BY <1>2, <1>4 DEF Arrays
    <3>4. queue'[e] \in Seq(Items(e))
      BY <1>3, <3>1, <3>3
    <3> QED BY <1>2, <3>2, <3>4 DEF SendTypes
  <2>2. \A x \in Ends : sender'[x] \in {"ok", "full", "failed"}
    BY <1>2, <1>5 DEF Arrays, SendTypes
  <2> QED BY <2>1, <2>2 DEF SendTypes
<1>9. WireTypes'
  <2>1. CASE wire' = wire
    BY <1>2, <2>1 DEF WireTypes
  <2>2. CASE wire' # wire
    <3>1. Head(queue[e]) \in Frame(e)
      BY <1>3, <1>7, <2>2 DEF Items
    <3>2. Encode(Head(queue[e])) \in Seq(Unit(e))
      BY <3>1 DEF Encode, Unit
    <3>3. wire[e] \o Encode(Head(queue[e])) \in Seq(Unit(e))
      BY <1>2, <3>2 DEF WireTypes
    <3> QED BY <1>2, <1>7, <2>2, <3>3 DEF Arrays, WireTypes
  <2> QED BY <2>1, <2>2
<1>10. OtherTypes'
  <2>1. closed' \in [Ends -> BOOLEAN]
    BY <1>2, <1>6 DEF OtherTypes
  <2> QED BY <1>1, <1>2, <2>1 DEF OtherTypes, readVars, shellVars
<1>11. Arrays'
  <2>1. /\ queue' = [x \in Ends |-> queue'[x]]
        /\ sender' = [x \in Ends |-> sender'[x]]
    BY <1>2, <1>4, <1>5 DEF Arrays
  <2>2. /\ wire' = [x \in Ends |-> wire'[x]]
        /\ closed' = [x \in Ends |-> closed'[x]]
    BY <1>2, <1>6, <1>7 DEF Arrays
  <2>3. UNCHANGED <<buffer, frames, loop>>
    BY <1>1 DEF readVars
  <2> QED BY <1>2, <2>1, <2>2, <2>3 DEF Arrays
<1> QED BY <1>2, <1>8, <1>9, <1>10, <1>11 DEF TypeInv

(* The stream has drained, or breaks while the sender waits. *)
LEMMA OnDrainTypes ==
  ASSUME TypeInv, NEW e \in Ends, OnDrain(e)
  PROVE  TypeInv'
<1>1. /\ UNCHANGED <<userVars, streamVars, readVars, shellVars, client, server>>
      /\ queue' = queue \/ queue' = [queue EXCEPT ![e] = << >>]
      /\ \/ sender' = [sender EXCEPT ![e] = "ok"]
         \/ sender' = [sender EXCEPT ![e] = "failed"]
  BY DEF OnDrain, Breaks
<1>2. UserTypes' /\ ReadTypes' /\ LoopTypes' /\ WireTypes' /\ OtherTypes'
  BY <1>1 DEF TypeInv, UserTypes, ReadTypes, LoopTypes, WireTypes, OtherTypes,
              userVars, readVars, streamVars, shellVars
<1>3. Arrays /\ SendTypes
  BY DEF TypeInv
<1>4. SendTypes'
  <2>1. << >> \in Seq(Items(e))
    OBVIOUS
  <2>2. \A x \in Ends : queue'[x] \in Seq(Items(x))
    BY <1>1, <1>3, <2>1 DEF Arrays, SendTypes
  <2>3. \A x \in Ends : sender'[x] \in {"ok", "full", "failed"}
    BY <1>1, <1>3 DEF Arrays, SendTypes
  <2> QED BY <2>2, <2>3 DEF SendTypes
<1>5. Arrays'
  BY <1>1, <1>3 DEF Arrays, streamVars, readVars
<1> QED BY <1>2, <1>4, <1>5 DEF TypeInv

(* A chunk is received and decoded. *)
LEMMA ReceiveTypes ==
  ASSUME TypeInv, NEW e \in Ends, Receive(e)
  PROVE  TypeInv'
<1>1. PICK n \in 1..Len(wire[Other(e)]) :
        /\ Push(e, SubSeq(wire[Other(e)], 1, n))
        /\ wire' = [wire EXCEPT ![Other(e)] = SubSeq(wire[Other(e)], n + 1, Len(wire[Other(e)]))]
  BY DEF Receive
<1> DEFINE o == Other(e)
           all == All(buffer[e], wire[o], n)
<1>2. UNCHANGED <<userVars, sendVars, closed, cut, loop, shown, input,
                 shellVars, client, server>>
  BY DEF Receive
<1>3. /\ frames' = [frames EXCEPT ![e] = Decoded(all)]
      /\ buffer' = [buffer EXCEPT ![e] = Kept(all)]
      /\ wire' = [wire EXCEPT ![o] = Behind(wire[o], n)]
  BY <1>1 DEF Push, Decoded, Kept, Frames, All, Behind
<1>4. /\ o \in Ends /\ e = Other(o) /\ \A x \in Ends : Other(x) = e => x = o
      /\ \A x \in Ends : Other(x) \in Ends
  BY EndsAre
<1>5. /\ Arrays /\ WireTypes /\ ReadTypes
      /\ n \in 0..Len(wire[o]) /\ wire[o] \in Seq(Unit(o)) /\ buffer[e] \in Seq(Unit(o))
  <2>1. Arrays /\ WireTypes /\ ReadTypes
    BY DEF TypeInv
  <2>2. wire[o] \in Seq(Unit(o)) /\ buffer[e] \in Seq(Unit(o))
    BY <1>4, <2>1 DEF WireTypes, ReadTypes
  <2> QED BY <2>1, <2>2
<1>6. /\ all \in Seq(Unit(o)) /\ Kept(all) \in Seq(Unit(o))
      /\ Behind(wire[o], n) \in Seq(Unit(o))
  <2> DEFINE rest == Kept(all) \o Behind(wire[o], n)
             un == buffer[e] \o wire[o]
  <2>1. Pushes(Unit(o), buffer[e], wire[o], n, all, rest, un)
    BY <1>5 DEF Pushes
  <2> HIDE DEF all, rest, un, o
  <2> QED BY <2>1, PushCuts
<1>7. Decoded(all) \in Seq(Frame(o))
  <2>1. all \in Seq(Frame(o) \X {1, 2})
    BY <1>6, FrameIs
  <2> HIDE DEF all
  <2> QED BY <2>1, DecodedType
<1> HIDE DEF all, o
<1>8. WireTypes'
  BY <1>3, <1>4, <1>5, <1>6 DEF WireTypes, Arrays
<1>9. ReadTypes'
  <2>1. \A x \in Ends : buffer'[Other(x)] \in Seq(Unit(x))
    BY <1>3, <1>4, <1>5, <1>6 DEF ReadTypes, Arrays
  <2>2. \A x \in Ends : frames'[Other(x)] \in Seq(Frame(x))
    BY <1>3, <1>4, <1>5, <1>7 DEF ReadTypes, Arrays
  <2> QED BY <2>1, <2>2 DEF ReadTypes
<1>10. Arrays'
  BY <1>2, <1>3, <1>5 DEF Arrays, sendVars
<1>11. UserTypes' /\ SendTypes' /\ LoopTypes' /\ OtherTypes'
  BY <1>2 DEF TypeInv, UserTypes, SendTypes, LoopTypes, OtherTypes, userVars,
              sendVars, shellVars
<1> QED BY <1>8, <1>9, <1>10, <1>11 DEF TypeInv

(* A chunk is typed. *)
LEMMA TypeTypes ==
  ASSUME TypeInv, Type
  PROVE  TypeInv'
<1>1. PICK chunk \in BoundedSeq(Keys, MaxKeys - Len(typed) - resizes) :
        LET p == InteractiveBytes(chunk)
        IN  /\ typed' = typed \o chunk /\ escape' = p.escape /\ quitting' = p.quit
            /\ Enqueue("client", Sends(p))
  BY DEF Type
<1> DEFINE p == InteractiveBytes(chunk)
<1>2. /\ UNCHANGED <<resizes, sender, streamVars, readVars, shellVars, client, server>>
      /\ UserTypes /\ SendTypes /\ Arrays
  BY DEF Type, TypeInv
<1>3. MaxKeys - Len(typed) - resizes \in Int /\ Len(typed) \in Nat /\ resizes \in Nat
  BY <1>2, BoundsAssumption DEF UserTypes
<1>4. chunk \in Seq(Keys) /\ Len(chunk) \in Nat
      /\ Len(chunk) <= MaxKeys - Len(typed) - resizes
  BY <1>3, ChunkType
<1>5. ScanStart \in Status
  BY <1>2 DEF ScanStart, Status, UserTypes
<1>6. p \in Status
  BY <1>4, <1>5, ScanType DEF InteractiveBytes
<1>7. UserTypes'
  <2>1. typed' \in Seq(Keys) /\ Len(typed') = Len(typed) + Len(chunk)
    BY <1>1, <1>2, <1>4 DEF UserTypes
  <2>2. escape' \in BOOLEAN /\ quitting' \in BOOLEAN
    BY <1>1, <1>6 DEF Status
  <2>3. Len(typed') <= MaxKeys
    BY <1>3, <1>4, <2>1, BoundsAssumption
  <2> QED BY <1>2, <2>1, <2>2, <2>3 DEF UserTypes
<1>8. SendTypes' /\ queue' = [x \in Ends |-> queue'[x]]
  BY <1>1, <1>2, <1>6, EndsAre, EnqueueType, SendsType
<1>9. Arrays'
  BY <1>2, <1>8 DEF Arrays, streamVars, readVars
<1>10. WireTypes' /\ ReadTypes' /\ LoopTypes' /\ OtherTypes'
  BY <1>2 DEF TypeInv, WireTypes, ReadTypes, LoopTypes, OtherTypes, streamVars,
              readVars, shellVars
<1> QED BY <1>7, <1>8, <1>9, <1>10 DEF TypeInv

(* The user's terminal is resized. *)
LEMMA ResizeTypes ==
  ASSUME TypeInv, Resize
  PROVE  TypeInv'
<1>1. /\ Enqueue("client", <<Resized>>) /\ resizes < MaxResizes /\ resizes' = resizes + 1
      /\ UNCHANGED <<typed, escape, quitting, sender, streamVars, readVars, shellVars,
                     client, server>>
      /\ UserTypes /\ SendTypes /\ Arrays
  BY DEF Resize, TypeInv
<1>2. UserTypes'
  BY <1>1, BoundsAssumption DEF UserTypes
<1>3. <<Resized>> \in Seq(Items("client"))
  <2>1. Resized \in Items("client")
    BY FrameIs DEF Items
  <2> QED BY <2>1
<1>4. SendTypes' /\ queue' = [x \in Ends |-> queue'[x]]
  BY <1>1, <1>3, EndsAre, EnqueueType
<1>5. Arrays'
  BY <1>1, <1>4 DEF Arrays, streamVars, readVars
<1>6. WireTypes' /\ ReadTypes' /\ LoopTypes' /\ OtherTypes'
  BY <1>1 DEF TypeInv, WireTypes, ReadTypes, LoopTypes, OtherTypes, streamVars,
              readVars, shellVars
<1> QED BY <1>2, <1>4, <1>5, <1>6 DEF TypeInv

(* The shell prints. *)
LEMMA OnDataTypes ==
  ASSUME TypeInv, OnData
  PROVE  TypeInv'
<1>1. /\ Enqueue("listener", <<Data(<<printed + 1>>)>>) /\ printed < MaxOutput
      /\ printed' = printed + 1
      /\ UNCHANGED <<userVars, sender, streamVars, readVars, shell, client, server>>
      /\ OtherTypes /\ SendTypes /\ Arrays
  BY DEF OnData, TypeInv
<1>2. printed + 1 \in 1..MaxOutput
  BY <1>1, BoundsAssumption DEF OtherTypes
<1>3. <<printed + 1>> \in Seq(Values("listener"))
  BY <1>2 DEF Values
<1>4. <<Data(<<printed + 1>>)>> \in Seq(Items("listener"))
  <2>1. Data(<<printed + 1>>) \in Items("listener")
    BY <1>3, FrameIs DEF Items
  <2> QED BY <2>1
<1>5. SendTypes' /\ queue' = [x \in Ends |-> queue'[x]]
  BY <1>1, <1>4, EndsAre, EnqueueType
<1>6. Arrays'
  BY <1>1, <1>5 DEF Arrays, streamVars, readVars
<1>7. OtherTypes'
  BY <1>1, <1>2 DEF OtherTypes, streamVars, readVars
<1>8. UserTypes' /\ WireTypes' /\ ReadTypes' /\ LoopTypes'
  BY <1>1 DEF TypeInv, UserTypes, WireTypes, ReadTypes, LoopTypes, userVars,
              streamVars, readVars
<1> QED BY <1>5, <1>6, <1>7, <1>8 DEF TypeInv

(* A decoded frame is handled. *)
LEMMA ReadingTypes ==
  ASSUME TypeInv, ClientHandles \/ ServerHandles
  PROVE  TypeInv'
<1>1. PICK e \in Ends :
        /\ frames[e] # << >>
        /\ frames' = frames \/ frames' = [frames EXCEPT ![e] = Tail(frames[e])]
        /\ loop' = loop \/ \E l \in {"reading", "draining", "failed"} : loop' = [loop EXCEPT ![e] = l]
  BY EndsAre DEF ClientHandles, ServerHandles
<1>2. /\ UNCHANGED <<userVars, sendVars, streamVars, buffer, shellVars, client, server>>
      /\ Arrays /\ ReadTypes /\ LoopTypes /\ OtherTypes
  BY DEF ClientHandles, ServerHandles, TypeInv
<1>3. /\ UserTypes' /\ SendTypes' /\ WireTypes'
  BY <1>2 DEF TypeInv, UserTypes, SendTypes, WireTypes, userVars, sendVars, streamVars
<1>4. ReadTypes'
  <2>1. e = Other(Other(e)) /\ Other(e) \in Ends /\ \A x \in Ends : Other(x) \in Ends
    BY EndsAre
  <2>2. frames[e] \in Seq(Frame(Other(e))) /\ Tail(frames[e]) \in Seq(Frame(Other(e)))
    BY <1>1, <1>2, <2>1 DEF ReadTypes
  <2>3. ASSUME NEW x \in Ends PROVE frames'[Other(x)] \in Seq(Frame(x))
    <3>1. CASE Other(x) # e
      BY <1>1, <1>2, <2>1, <3>1 DEF ReadTypes, Arrays
    <3>2. CASE Other(x) = e
      <4>1. x = Other(e)
        BY <3>2, EndsAre
      <4>2. frames'[e] = frames[e] \/ frames'[e] = Tail(frames[e])
        BY <1>1, <1>2 DEF Arrays
      <4> QED BY <2>2, <3>2, <4>1, <4>2
    <3> QED BY <3>1, <3>2
  <2> QED BY <1>2, <2>3 DEF ReadTypes
<1>5. LoopTypes'
  BY <1>1, <1>2 DEF LoopTypes, Arrays
<1>6. Arrays'
  BY <1>1, <1>2 DEF Arrays, sendVars, streamVars
<1>7. shown' \in Seq(1..MaxOutput) /\ input' \in Seq(Keys)
  <2>1. CASE ClientHandles
    <3>1. shown' = shown \o Head(frames["client"]).data /\ input' = input
          /\ frames["client"] # << >>
      BY <2>1 DEF ClientHandles
    <3>2. frames["client"] \in Seq(Frame("listener"))
      BY <1>2, EndsAre DEF ReadTypes
    <3>3. Head(frames["client"]) \in Frame("listener")
      BY <3>1, <3>2
    <3>4. Head(frames["client"]).data \in Seq(1..MaxOutput)
      BY <3>3 DEF Frame
    <3>5. shown \in Seq(1..MaxOutput) /\ input \in Seq(Keys)
      BY <1>2 DEF OtherTypes
    <3> QED BY <3>1, <3>4, <3>5
  <2>2. CASE ServerHandles
    <3>1. /\ input' = input \o Head(frames["listener"]).data \/ input' = input
          /\ shown' = shown /\ frames["listener"] # << >>
      BY <2>2 DEF ServerHandles
    <3>2. frames["listener"] \in Seq(Frame("client"))
      BY <1>2, EndsAre DEF ReadTypes
    <3>3. Head(frames["listener"]) \in Frame("client")
      BY <3>1, <3>2
    <3>4. Head(frames["listener"]).data \in Seq(Keys)
      BY <3>3 DEF Frame
    <3>5. shown \in Seq(1..MaxOutput) /\ input \in Seq(Keys)
      BY <1>2 DEF OtherTypes
    <3> DEFINE d == Head(frames["listener"]).data
    <3>6. d \in Seq(Keys) /\ (input' = input \o d \/ input' = input)
      BY <3>1, <3>4
    <3> HIDE DEF d
    <3>7. input \o d \in Seq(Keys)
      BY <3>5, <3>6
    <3> QED BY <3>1, <3>5, <3>6, <3>7
  <2> QED BY <2>1, <2>2
<1>8. OtherTypes'
  BY <1>2, <1>7 DEF OtherTypes, streamVars, shellVars
<1> QED BY <1>3, <1>4, <1>5, <1>6, <1>8 DEF TypeInv

(* The steps that touch no sequence. *)
LEMMA ControlTypes ==
  ASSUME TypeInv, NEW e \in Ends,
         \/ ShellExits \/ StreamBreaks \/ ReceiveEnd(e) \/ OutputDrains \/ ClientEnds
         \/ ClientLeaves \/ RaceEnds \/ KilledExits \/ ServerCloses \/ ServerClosed
         \/ ServerReturns
  PROVE  TypeInv'
<1>1. /\ UNCHANGED <<userVars, sendVars, wire, buffer, frames, shown, input, printed>>
      /\ Arrays /\ LoopTypes /\ OtherTypes
  BY DEF ShellExits, StreamBreaks, ReceiveEnd, OutputDrains, ClientEnds, ClientLeaves,
         RaceEnds, KilledExits, ServerCloses, ServerClosed, ServerReturns, TypeInv,
         userVars, sendVars, streamVars, readVars, shellVars
<1>2. /\ UserTypes' /\ SendTypes' /\ WireTypes' /\ ReadTypes'
  BY <1>1 DEF TypeInv, UserTypes, SendTypes, WireTypes, ReadTypes, userVars, sendVars
<1>3. \/ loop' = loop
      \/ \E x \in Ends : \E l \in {"reading", "done", "failed"} : loop' = [loop EXCEPT ![x] = l]
  BY EndsAre
     DEF ShellExits, StreamBreaks, ReceiveEnd, OutputDrains, ClientEnds, ClientLeaves,
         RaceEnds, KilledExits, ServerCloses, ServerClosed, ServerReturns,
         streamVars, readVars
<1>4. LoopTypes' /\ loop' = [x \in Ends |-> loop'[x]]
  BY <1>1, <1>3 DEF LoopTypes, Arrays
<1>5. closed' = closed \/ \E x \in Ends : closed' = [closed EXCEPT ![x] = TRUE]
  BY EndsAre
     DEF ShellExits, StreamBreaks, ReceiveEnd, OutputDrains, ClientEnds, ClientLeaves,
         RaceEnds, KilledExits, ServerCloses, ServerClosed, ServerReturns,
         streamVars, readVars
<1>6. closed' \in [Ends -> BOOLEAN]
  BY <1>1, <1>5 DEF OtherTypes
<1>7. /\ cut' \in BOOLEAN
      /\ shell' \in {"running", "killed", "exited"}
      /\ client' \in {"running", "returned", "threw"}
      /\ server' \in {"racing", "killing", "draining", "closing", "waiting",
                      "returned", "threw"}
  BY <1>1 DEF OtherTypes, Kill, ShellExits, StreamBreaks, ReceiveEnd, OutputDrains,
         ClientEnds, ClientLeaves, RaceEnds, KilledExits, ServerCloses, ServerClosed,
         ServerReturns, streamVars, shellVars
<1>8. OtherTypes'
  BY <1>1, <1>6, <1>7 DEF OtherTypes
<1>9. Arrays'
  BY <1>1, <1>4, <1>6 DEF Arrays, sendVars
<1> QED BY <1>2, <1>4, <1>8, <1>9 DEF TypeInv

(* The steps of Next, with the end that takes them. *)
LEMMA Steps ==
  ASSUME [Next]_vars
  PROVE  \/ UNCHANGED vars \/ Type \/ Resize \/ OnData
         \/ ClientHandles \/ ServerHandles
         \/ \E e \in Ends : Transmit(e) \/ OnDrain(e) \/ Receive(e)
         \/ \E e \in Ends :
              \/ ShellExits \/ StreamBreaks \/ ReceiveEnd(e) \/ OutputDrains \/ ClientEnds
              \/ ClientLeaves \/ RaceEnds \/ KilledExits \/ ServerCloses \/ ServerClosed
              \/ ServerReturns
BY EndsAre DEF Next, Runtime, Sending, Receiving

(* Every step keeps the types. *)
LEMMA TypeStep == TypeInv /\ [Next]_vars => TypeInv'
BY Steps, TypeSame, TypeTypes, ResizeTypes, OnDataTypes, ReadingTypes, TransmitTypes,
   OnDrainTypes, ReceiveTypes, ControlTypes

-----------------------------------------------------------------------------
(* The order in which the two ends close. *)
(* The queue holds a close(). *)
HasClose(q) == \E i \in 1..Len(q) : q[i] = Closing
(* Nothing behind a close() carries data. *)
SilentBehind(q) == \A i \in 1..Len(q) : q[i] = Closing => \A j \in i..Len(q) : q[j].data = << >>

(* What taking the first item does to the items behind a close(). *)
LEMMA TailClose ==
  ASSUME NEW T, NEW q \in Seq(T), q # << >>
  PROVE  /\ HasClose(Tail(q)) => HasClose(q)
         /\ SilentBehind(q) => SilentBehind(Tail(q))
         /\ Silent(q) => Silent(Tail(q))
         /\ Head(q) = Closing /\ SilentBehind(q) => Silent(q)
         /\ Head(q) = Closing => HasClose(q)
<1>1. /\ Len(Tail(q)) = Len(q) - 1 /\ Len(q) \in Nat /\ Len(q) >= 1
      /\ \A i \in 1..Len(Tail(q)) : Tail(q)[i] = q[i + 1]
      /\ Head(q) = q[1]
  OBVIOUS
<1> DEFINE r == Tail(q)
<1> HIDE DEF r
<1>2. HasClose(r) => HasClose(q)
  BY <1>1 DEF HasClose, r
<1>3. ASSUME SilentBehind(q), NEW i \in 1..Len(r), r[i] = Closing, NEW j \in i..Len(r)
      PROVE  r[j].data = << >>
  <2>1. i + 1 \in 1..Len(q) /\ j + 1 \in i + 1..Len(q) /\ j \in 1..Len(r)
    BY <1>1 DEF r
  <2> QED BY <1>1, <1>3, <2>1 DEF SilentBehind, r
<1>4. Silent(q) => Silent(r)
  BY <1>1 DEF Silent, r
<1>5. Head(q) = Closing /\ SilentBehind(q) => Silent(q)
  BY <1>1 DEF SilentBehind, Silent
<1>6. Head(q) = Closing => HasClose(q)
  BY <1>1 DEF HasClose
<1> QED BY <1>2, <1>3, <1>4, <1>5, <1>6 DEF SilentBehind, r

(* What adding an item does to the items behind a close(). *)
LEMMA AppendClose ==
  ASSUME NEW T, NEW q \in Seq(T), NEW x
  PROVE  /\ HasClose(Append(q, x)) <=> HasClose(q) \/ x = Closing
         /\ SilentBehind(q) /\ (HasClose(q) => x.data = << >>) /\ (x = Closing => x.data = << >>)
              => SilentBehind(Append(q, x))
         /\ Silent(q) /\ x.data = << >> => Silent(Append(q, x))
<1> DEFINE r == Append(q, x)
<1>1. /\ Len(r) = Len(q) + 1 /\ Len(q) \in Nat /\ r[Len(q) + 1] = x
      /\ \A i \in 1..Len(q) : r[i] = q[i]
  OBVIOUS
<1> HIDE DEF r
<1>2. HasClose(r) <=> HasClose(q) \/ x = Closing
  BY <1>1 DEF HasClose
<1>3. ASSUME SilentBehind(q), HasClose(q) => x.data = << >>, x = Closing => x.data = << >>,
             NEW i \in 1..Len(r), r[i] = Closing, NEW j \in i..Len(r)
      PROVE  r[j].data = << >>
  <2>1. CASE j = Len(q) + 1
    <3>1. HasClose(q) \/ x = Closing
      BY <1>1, <1>3 DEF HasClose
    <3> QED BY <1>1, <1>3, <2>1, <3>1
  <2>2. CASE j \in 1..Len(q)
    <3>1. i \in 1..Len(q) /\ j \in i..Len(q)
      BY <1>1, <2>2
    <3>2. q[i] = Closing /\ r[j] = q[j]
      BY <1>1, <1>3, <2>2, <3>1
    <3>3. q[j].data = << >>
      BY <1>3, <3>1, <3>2 DEF SilentBehind
    <3> QED BY <3>2, <3>3
  <2> QED BY <1>1, <2>1, <2>2
<1>4. Silent(q) /\ x.data = << >> => Silent(r)
  BY <1>1 DEF Silent
<1> QED BY <1>2, <1>3, <1>4 DEF SilentBehind, r

(* An empty queue holds no close(). *)
LEMMA NoneClose == ~HasClose(<< >>) /\ SilentBehind(<< >>) /\ Silent(<< >>)
BY DEF HasClose, SilentBehind, Silent

(* Adding one or two items, as appends. *)
LEMMA Appends ==
  ASSUME NEW T, NEW q \in Seq(T)
  PROVE  /\ q \o << >> = q
         /\ \A x \in T : q \o <<x>> = Append(q, x)
         /\ \A x, y \in T : q \o <<x, y>> = Append(Append(q, x), y)
OBVIOUS

(* Who may have closed, whose sender may have failed, and what is then     *)
(* left in the queues: nothing of the shell's, no data of the client's.    *)
ClosedInv ==
  /\ closed["listener"] => /\ queue["listener"] = << >> /\ shell = "exited"
                           /\ server \in {"closing", "waiting", "returned", "threw"}
  /\ server \in {"draining", "closing", "waiting", "returned"} => shell = "exited"
  /\ sender["listener"] = "failed" => cut
  /\ sender["client"] = "failed" => cut \/ closed["client"]
  /\ closed["client"] /\ client = "running" => quitting /\ Silent(queue["client"])
  /\ HasClose(queue["client"]) => quitting
  /\ SilentBehind(queue["client"])
  /\ ~HasClose(queue["listener"])

(* A loop ends only at the end of a stream that was read to its end, or    *)
(* was cut.                                                                *)
LoopInv ==
  /\ loop["client"] \in {"done", "failed"} => cut \/ closed["listener"]
  /\ \A e \in Ends : loop[e] = "done" =>
        /\ frames[e] = << >> /\ buffer[e] = << >>
        /\ cut \/ (closed[Other(e)] /\ wire[Other(e)] = << >>)
  /\ client # "running" => loop["client"] \in {"done", "failed"}
  /\ client = "returned" => loop["client"] = "done"

ControlInv == ClosedInv /\ LoopInv

(* The order of closing holds at first. *)
LEMMA ControlInit == Init => ControlInv
<1> SUFFICES ASSUME Init PROVE ControlInv
  OBVIOUS
<1>1. queue["client"] = <<Resized>> /\ queue["listener"] = << >>
  BY EndsAre DEF Init
<1>2. ~HasClose(<<Resized>>) /\ SilentBehind(<<Resized>>)
  BY DEF HasClose, SilentBehind, Resized, Closing
<1>3. ClosedInv
  BY <1>1, <1>2, NoneClose, EndsAre DEF Init, ClosedInv
<1>4. LoopInv
  BY EndsAre DEF Init, LoopInv
<1> QED BY <1>3, <1>4 DEF ControlInv

(* A stuttering step keeps the order of closing. *)
LEMMA ControlSame ==
  ASSUME ControlInv, UNCHANGED vars
  PROVE  ControlInv'
BY DEF ControlInv, ClosedInv, LoopInv, vars, userVars, sendVars, streamVars, readVars, shellVars

(* The sender reaches its close(), or fails behind it. *)
LEMMA ControlTransmit ==
  ASSUME TypeInv, ControlInv, NEW e \in Ends, Transmit(e)
  PROVE  ControlInv'
<1>1. /\ queue[e] # << >> /\ sender[e] = "ok"
      /\ UNCHANGED <<userVars, cut, readVars, shellVars, client, server>>
  BY DEF Transmit
<1>2. /\ ClosedInv /\ LoopInv /\ Arrays
      /\ queue[e] \in Seq(Items(e)) /\ closed \in [Ends -> BOOLEAN]
  BY DEF ControlInv, TypeInv, SendTypes, OtherTypes
<1>3. Head(queue[e]) = Closing => e = "client" /\ quitting /\ Silent(queue[e])
  <2>1. Head(queue[e]) = Closing => HasClose(queue[e]) /\ (SilentBehind(queue[e]) => Silent(queue[e]))
    BY <1>1, <1>2, TailClose
  <2> QED BY <1>2, <2>1, EndsAre DEF ClosedInv
<1>4. \/ /\ Head(queue[e]) = Closing /\ e = "client" /\ quitting /\ Silent(Tail(queue[e]))
         /\ closed' = [closed EXCEPT ![e] = TRUE]
         /\ queue' = [queue EXCEPT ![e] = Tail(queue[e])]
         /\ UNCHANGED <<sender, wire>>
      \/ /\ closed[e] \/ cut
         /\ sender' = [sender EXCEPT ![e] = "failed"]
         /\ queue' = [queue EXCEPT ![e] = << >>]
         /\ UNCHANGED <<wire, closed>>
      \/ /\ ~closed[e] /\ ~cut
         /\ wire' = [wire EXCEPT ![e] = wire[e] \o Encode(Head(queue[e]))]
         /\ queue' = [queue EXCEPT ![e] = Tail(queue[e])]
         /\ sender' = sender \/ sender' = [sender EXCEPT ![e] = "full"]
         /\ closed' = closed
  <2>1. Silent(queue[e]) => Silent(Tail(queue[e]))
    BY <1>1, <1>2, TailClose
  <2> QED BY <1>3, <2>1 DEF Transmit, Breaks
<1>5. /\ HasClose(Tail(queue[e])) => HasClose(queue[e])
      /\ SilentBehind(queue[e]) => SilentBehind(Tail(queue[e]))
      /\ Silent(queue[e]) => Silent(Tail(queue[e]))
  BY <1>1, <1>2, TailClose
<1>6. ClosedInv'
  <2>1. CASE e = "client"
    <3>1. /\ queue'["listener"] = queue["listener"] /\ closed'["listener"] = closed["listener"]
          /\ sender'["listener"] = sender["listener"]
      BY <1>2, <1>4, <2>1, EndsAre DEF Arrays
    <3>2. /\ HasClose(queue'["client"]) => HasClose(queue["client"])
          /\ SilentBehind(queue["client"]) => SilentBehind(queue'["client"])
          /\ Silent(queue["client"]) => Silent(queue'["client"])
      BY <1>2, <1>4, <1>5, <2>1, NoneClose DEF Arrays
    <3>3. /\ sender'["client"] = "failed" => cut \/ closed["client"]
          /\ closed["client"] => closed'["client"]
      BY <1>1, <1>2, <1>4, <2>1 DEF Arrays
    <3>4. closed'["client"] => closed["client"] \/ (quitting /\ Silent(queue'["client"]))
      BY <1>2, <1>4, <2>1 DEF Arrays
    <3> QED BY <1>1, <1>2, <3>1, <3>2, <3>3, <3>4 DEF ClosedInv, userVars, shellVars
  <2>2. CASE e = "listener"
    <3>1. /\ queue'["client"] = queue["client"] /\ closed' = closed
          /\ sender'["client"] = sender["client"]
      BY <1>2, <1>4, <2>2, EndsAre DEF Arrays
    <3>2. ~HasClose(queue'["listener"])
      BY <1>2, <1>4, <1>5, <2>2, NoneClose DEF Arrays, ClosedInv
    <3>3. ~closed["listener"]
      BY <1>1, <1>2, <2>2 DEF ClosedInv
    <3>4. sender'["listener"] = "failed" => cut
      BY <1>1, <1>2, <1>4, <2>2, <3>3 DEF Arrays
    <3> QED BY <1>1, <1>2, <3>1, <3>2, <3>3, <3>4 DEF ClosedInv, userVars, shellVars
  <2> QED BY <2>1, <2>2, EndsAre
<1>7. LoopInv'
  <2>1. UNCHANGED <<loop, frames, buffer, client, cut>>
    BY <1>1 DEF readVars
  <2>2. \A x \in Ends : closed[x] => closed'[x] /\ (cut \/ wire'[x] = wire[x])
    BY <1>2, <1>4 DEF Arrays
  <2> QED BY <1>2, <2>1, <2>2, EndsAre DEF LoopInv
<1> QED BY <1>6, <1>7 DEF ControlInv

(* A sender that waited goes on, or fails because the stream was cut. *)
LEMMA ControlOnDrain ==
  ASSUME TypeInv, ControlInv, NEW e \in Ends, OnDrain(e)
  PROVE  ControlInv'
<1>1. /\ UNCHANGED <<userVars, streamVars, readVars, shellVars, client, server>>
      /\ \/ sender' = [sender EXCEPT ![e] = "ok"] /\ queue' = queue
         \/ /\ cut /\ sender' = [sender EXCEPT ![e] = "failed"]
            /\ queue' = [queue EXCEPT ![e] = << >>]
  BY DEF OnDrain, Breaks
<1>2. ClosedInv /\ LoopInv /\ Arrays
  BY DEF ControlInv, TypeInv
<1>3. /\ \A x \in Ends : queue'[x] = queue[x] \/ queue'[x] = << >>
      /\ \A x \in Ends : sender'[x] = "failed" => sender[x] = "failed" \/ cut
  BY <1>1, <1>2 DEF Arrays
<1>4. ClosedInv'
  BY <1>1, <1>2, <1>3, NoneClose, EndsAre DEF ClosedInv, userVars, streamVars, shellVars
<1>5. LoopInv'
  BY <1>1, <1>2 DEF LoopInv, streamVars, readVars
<1> QED BY <1>4, <1>5 DEF ControlInv

(* A loop that receives has not ended. *)
LEMMA ControlReceive ==
  ASSUME TypeInv, ControlInv, NEW e \in Ends, Receive(e)
  PROVE  ControlInv'
<1>1. PICK n \in 1..Len(wire[Other(e)]) :
        wire' = [wire EXCEPT ![Other(e)] = SubSeq(wire[Other(e)], n + 1, Len(wire[Other(e)]))]
  BY DEF Receive
<1>2. /\ \E v : frames' = [frames EXCEPT ![e] = v]
      /\ \E v : buffer' = [buffer EXCEPT ![e] = v]
      /\ loop[e] = "reading"
      /\ UNCHANGED <<userVars, sendVars, closed, cut, loop, shown, input, shellVars,
                     client, server>>
  BY DEF Receive, Push, Idle
<1>3. ClosedInv /\ LoopInv /\ Arrays /\ WireTypes
  BY DEF ControlInv, TypeInv
<1>4. ClosedInv'
  BY <1>2, <1>3 DEF ClosedInv, userVars, sendVars, shellVars
<1>5. \A x \in Ends : wire[x] = << >> => wire'[x] = wire[x]
  <2>1. Other(e) \in Ends /\ wire[Other(e)] # << >>
    BY EndsAre
  <2> QED BY <1>1, <1>3, <2>1 DEF Arrays
<1>6. \A x \in Ends : x # e => frames'[x] = frames[x] /\ buffer'[x] = buffer[x]
  BY <1>2, <1>3 DEF Arrays
<1>7. LoopInv'
  BY <1>2, <1>3, <1>5, <1>6, EndsAre DEF LoopInv
<1> QED BY <1>4, <1>7 DEF ControlInv

(* Sequences of no, one and two items, joined. *)
LEMMA Joins ==
  ASSUME NEW T, NEW x \in T, NEW y \in T
  PROVE  /\ << >> \o << >> = << >> /\ << >> \o <<x>> = <<x>>
         /\ <<x>> \o << >> = <<x>> /\ <<x>> \o <<y>> = <<x, y>>
<1>1. << >> \o << >> = << >>
  OBVIOUS
<1>2. << >> \o <<x>> = <<x>>
  OBVIOUS
<1>3. <<x>> \o << >> = <<x>>
  OBVIOUS
<1>4. <<x>> \o <<y>> = <<x, y>>
  <2>1. <<x>> \in Seq(T)
    OBVIOUS
  <2>2. <<x>> \o <<y>> = Append(<<x>>, y)
    BY <2>1, Appends
  <2> DEFINE u == Append(<<x>>, y)
             v == <<x, y>>
  <2>3. /\ u \in Seq(T) /\ Len(u) = 2 /\ u[1] = x /\ u[2] = y
    OBVIOUS
  <2>4. /\ v \in Seq(T) /\ Len(v) = 2 /\ v[1] = x /\ v[2] = y
    OBVIOUS
  <2> HIDE DEF u, v
  <2>5. u = v
    <3>1. \A i \in 1..2 : u[i] = v[i]
      BY <2>3, <2>4
    <3> QED BY <2>3, <2>4, <3>1
  <2> QED BY <2>2, <2>5 DEF u, v
<1> QED BY <1>1, <1>2, <1>3, <1>4

(* The four forms of what onData gives to the sender. *)
LEMMA SendsAre ==
  ASSUME NEW p \in Status
  PROVE  \/ ~p.quit /\ Sends(p) = << >> /\ p.bytes = << >>
         \/ ~p.quit /\ Sends(p) = <<Data(p.bytes)>>
         \/ p.quit /\ Sends(p) = <<Closing>> /\ p.bytes = << >>
         \/ p.quit /\ Sends(p) = <<Data(p.bytes), Closing>>
<1> DEFINE D == Data(p.bytes)
           C == Closing
<1> HIDE DEF D, C
<1>1. /\ << >> \o << >> = << >> /\ << >> \o <<C>> = <<C>>
      /\ <<D>> \o << >> = <<D>> /\ <<D>> \o <<C>> = <<D, C>>
  <2>1. D \in {D, C} /\ C \in {D, C}
    OBVIOUS
  <2> QED BY <2>1, Joins
<1>2. p.quit \in BOOLEAN
  BY DEF Status
<1>3. Sends(p) = (IF p.bytes = << >> THEN << >> ELSE <<D>>)
                 \o (IF p.quit THEN <<C>> ELSE << >>)
  BY DEF Sends, D, C
<1>4. \/ ~p.quit /\ Sends(p) = << >> /\ p.bytes = << >>
      \/ ~p.quit /\ Sends(p) = <<D>>
      \/ p.quit /\ Sends(p) = <<C>> /\ p.bytes = << >>
      \/ p.quit /\ Sends(p) = <<D, C>>
  BY <1>1, <1>2, <1>3
<1> QED BY <1>4 DEF D, C

(* A client that can type has not closed; a close() it sends comes last. *)
LEMMA ControlType ==
  ASSUME TypeInv, ControlInv, Type
  PROVE  ControlInv'
<1>1. PICK chunk \in BoundedSeq(Keys, MaxKeys - Len(typed) - resizes) :
        LET p == InteractiveBytes(chunk)
        IN  /\ quitting' = p.quit
            /\ Enqueue("client", Sends(p))
  BY DEF Type
<1> DEFINE p == InteractiveBytes(chunk)
<1>2. /\ UNCHANGED <<resizes, sender, streamVars, readVars, shellVars, client, server>>
      /\ ~quitting /\ client = "running"
      /\ UserTypes /\ SendTypes /\ Arrays /\ ClosedInv /\ LoopInv
  BY DEF Type, TypeInv, ControlInv
<1>3. p \in Status
  <2>1. MaxKeys - Len(typed) - resizes \in Int
    BY <1>2, BoundsAssumption DEF UserTypes
  <2>2. chunk \in Seq(Keys)
    BY <2>1, ChunkType
  <2>3. ScanStart \in Status
    BY <1>2 DEF ScanStart, Status, UserTypes
  <2> QED BY <2>2, <2>3, ScanType DEF InteractiveBytes
<1>4. quitting' = p.quit /\ Enqueue("client", Sends(p))
  BY <1>1
<1> HIDE DEF p
<1>5. ~closed["client"] /\ ~HasClose(queue["client"]) /\ queue["client"] \in Seq(Items("client"))
  BY <1>2, EndsAre DEF ClosedInv, SendTypes
<1>6. queue' = [queue EXCEPT !["client"] = IF sender["client"] = "failed" THEN queue["client"]
                                           ELSE queue["client"] \o Sends(p)]
  BY <1>4 DEF Enqueue
<1>7. queue'["listener"] = queue["listener"]
      /\ queue'["client"] = IF sender["client"] = "failed" THEN queue["client"]
                            ELSE queue["client"] \o Sends(p)
  BY <1>2, <1>6, EndsAre DEF Arrays
<1>8. /\ HasClose(queue["client"] \o Sends(p)) => p.quit
      /\ SilentBehind(queue["client"] \o Sends(p))
  <2> DEFINE q == queue["client"]
             D == Data(p.bytes)
             T == Items("client")
  <2>1. q \in Seq(T) /\ ~HasClose(q) /\ SilentBehind(q)
    BY <1>2, <1>5 DEF ClosedInv
  <2>2. D \in T /\ Closing \in T /\ D # Closing /\ Closing.data = << >>
    <3>1. p.bytes \in Seq(Values("client"))
      BY <1>3 DEF Status, Values
    <3>2. D \in T /\ Closing \in T
      BY <3>1, FrameIs DEF Items
    <3> QED BY <3>2 DEF Data, Closing
  <2>3. \/ ~p.quit /\ Sends(p) = << >>
        \/ ~p.quit /\ Sends(p) = <<D>>
        \/ p.quit /\ Sends(p) = <<Closing>>
        \/ p.quit /\ Sends(p) = <<D, Closing>>
    <3>1. \/ ~p.quit /\ Sends(p) = << >> /\ p.bytes = << >>
          \/ ~p.quit /\ Sends(p) = <<Data(p.bytes)>>
          \/ p.quit /\ Sends(p) = <<Closing>> /\ p.bytes = << >>
          \/ p.quit /\ Sends(p) = <<Data(p.bytes), Closing>>
      <4> HIDE DEF q, D, T
      <4> QED BY <1>3, SendsAre, Zenon
    <3> QED BY <3>1
  <2> HIDE DEF q, D, T
  <2>4. /\ q \o << >> = q /\ q \o <<D>> = Append(q, D)
        /\ q \o <<Closing>> = Append(q, Closing)
        /\ q \o <<D, Closing>> = Append(Append(q, D), Closing)
        /\ Append(q, D) \in Seq(T)
    BY <2>1, <2>2, Appends
  <2>5. ~HasClose(Append(q, D)) /\ SilentBehind(Append(q, D))
    BY <2>1, <2>2, AppendClose
  <2>6. /\ SilentBehind(Append(q, Closing))
        /\ SilentBehind(Append(Append(q, D), Closing))
    BY <2>1, <2>2, <2>4, <2>5, AppendClose
  <2>7. (HasClose(q \o Sends(p)) => p.quit) /\ SilentBehind(q \o Sends(p))
    BY <2>1, <2>3, <2>4, <2>5, <2>6
  <2> QED BY <2>7 DEF q
<1>9. /\ HasClose(queue'["client"]) => quitting' /\ SilentBehind(queue'["client"])
      /\ SilentBehind(queue'["client"])
  BY <1>2, <1>4, <1>5, <1>7, <1>8 DEF ClosedInv
<1>10. ClosedInv'
  BY <1>2, <1>5, <1>7, <1>9 DEF ClosedInv, streamVars, shellVars
<1>11. LoopInv'
  BY <1>2 DEF LoopInv, streamVars, readVars
<1> QED BY <1>10, <1>11 DEF ControlInv

(* A resize, and what the shell prints, is no close(). *)
LEMMA ControlEnqueue ==
  ASSUME TypeInv, ControlInv, Resize \/ OnData
  PROVE  ControlInv'
<1>1. ClosedInv /\ LoopInv /\ Arrays /\ SendTypes
  BY DEF ControlInv, TypeInv
<1>2. UNCHANGED <<quitting, sender, streamVars, readVars, shell, client, server>>
  BY DEF Resize, OnData, userVars, shellVars
<1>3. LoopInv'
  BY <1>1, <1>2 DEF LoopInv, streamVars, readVars
<1>4. CASE Resize
  <2>1. queue' = [queue EXCEPT !["client"] = IF sender["client"] = "failed" THEN queue["client"]
                                             ELSE queue["client"] \o <<Resized>>]
    BY <1>4 DEF Resize, Enqueue
  <2>2. queue["client"] \in Seq(Items("client")) /\ Resized \in Items("client")
    BY <1>1, EndsAre, FrameIs DEF SendTypes, Items
  <2>3. /\ queue'["listener"] = queue["listener"]
        /\ queue'["client"] = queue["client"] \/ queue'["client"] = Append(queue["client"], Resized)
    BY <1>1, <2>1, <2>2, EndsAre DEF Arrays
  <2>4. Resized.data = << >> /\ Resized # Closing
    BY DEF Resized, Closing
  <2>5. /\ HasClose(queue'["client"]) <=> HasClose(queue["client"])
        /\ SilentBehind(queue["client"]) => SilentBehind(queue'["client"])
        /\ Silent(queue["client"]) => Silent(queue'["client"])
    <3> DEFINE q == queue["client"]
               r == Append(q, Resized)
    <3>1. /\ HasClose(r) <=> HasClose(q)
          /\ SilentBehind(q) => SilentBehind(r)
          /\ Silent(q) => Silent(r)
      <4> HIDE DEF q
      <4>1. q \in Seq(Items("client"))
        BY <2>2 DEF q
      <4> QED BY <2>4, <4>1, AppendClose
    <3>2. queue'["client"] = q \/ queue'["client"] = r
      BY <2>3
    <3> HIDE DEF q, r
    <3>3. /\ HasClose(queue'["client"]) <=> HasClose(q)
          /\ SilentBehind(q) => SilentBehind(queue'["client"])
          /\ Silent(q) => Silent(queue'["client"])
      BY <3>1, <3>2
    <3> QED BY <3>3 DEF q
  <2>6. ClosedInv'
    BY <1>1, <1>2, <2>3, <2>5 DEF ClosedInv, streamVars
  <2> QED BY <1>3, <2>6 DEF ControlInv
<1>5. CASE OnData
  <2> DEFINE D == Data(<<printed + 1>>)
  <2>1. /\ queue' = [queue EXCEPT !["listener"] = IF sender["listener"] = "failed"
                                                   THEN queue["listener"]
                                                   ELSE queue["listener"] \o <<D>>]
        /\ shell # "exited"
    BY <1>5 DEF OnData, Enqueue
  <2>2. queue["listener"] \in Seq(Items("listener"))
    BY <1>1, EndsAre DEF SendTypes
  <2>3. D # Closing
    BY DEF Data, Closing
  <2> HIDE DEF D
  <2>4. /\ queue'["client"] = queue["client"]
        /\ \/ queue'["listener"] = queue["listener"]
           \/ queue'["listener"] = Append(queue["listener"], D)
    BY <1>1, <2>1, <2>2, EndsAre DEF Arrays
  <2>5. HasClose(queue'["listener"]) => HasClose(queue["listener"])
    BY <2>2, <2>3, <2>4, AppendClose
  <2>6. ClosedInv'
    BY <1>1, <1>2, <2>1, <2>4, <2>5 DEF ClosedInv, streamVars
  <2> QED BY <1>3, <2>6 DEF ControlInv
<1> QED BY <1>4, <1>5

(* A loop that handles a frame has not ended. *)
LEMMA ControlReading ==
  ASSUME TypeInv, ControlInv, ClientHandles \/ ServerHandles
  PROVE  ControlInv'
<1>1. PICK e \in Ends :
        /\ loop[e] = "reading"
        /\ frames' = frames \/ frames' = [frames EXCEPT ![e] = Tail(frames[e])]
        /\ \/ loop' = loop
           \/ \E l \in {"reading", "draining"} : loop' = [loop EXCEPT ![e] = l]
           \/ e = "listener" /\ loop' = [loop EXCEPT ![e] = "failed"]
  BY EndsAre DEF ClientHandles, ServerHandles
<1>2. /\ UNCHANGED <<userVars, sendVars, streamVars, buffer, shellVars, client, server>>
      /\ Arrays /\ LoopInv /\ ClosedInv
  BY DEF ClientHandles, ServerHandles, TypeInv, ControlInv
<1>3. ClosedInv'
  BY <1>2 DEF ClosedInv, userVars, sendVars, streamVars, shellVars
<1>4. \A x \in Ends : x # e => frames'[x] = frames[x] /\ loop'[x] = loop[x]
  BY <1>1, <1>2 DEF Arrays
<1>5. loop'[e] # "done" /\ (loop'[e] = "failed" => e = "listener")
  BY <1>1, <1>2 DEF Arrays
<1>6. LoopInv'
  BY <1>1, <1>2, <1>4, <1>5, EndsAre DEF LoopInv, streamVars
<1> QED BY <1>3, <1>6 DEF ControlInv

(* The two sessions come to their ends. *)
LEMMA ControlControl ==
  ASSUME TypeInv, ControlInv, NEW e \in Ends,
         \/ ShellExits \/ StreamBreaks \/ ReceiveEnd(e) \/ OutputDrains \/ ClientEnds
         \/ ClientLeaves \/ RaceEnds \/ KilledExits \/ ServerCloses \/ ServerClosed
         \/ ServerReturns
  PROVE  ControlInv'
<1>1. ClosedInv /\ LoopInv /\ Arrays
      /\ closed \in [Ends -> BOOLEAN]
  BY DEF TypeInv, ControlInv, OtherTypes
<1>2. CASE \/ ShellExits \/ StreamBreaks \/ ClientLeaves \/ RaceEnds \/ KilledExits
           \/ ServerClosed \/ ServerReturns
  <2>1. /\ UNCHANGED <<userVars, sendVars, wire, closed, readVars, client>>
        /\ cut => cut'
        /\ shell = "exited" => shell' = "exited"
    BY <1>2 DEF ShellExits, StreamBreaks, ClientLeaves, RaceEnds, KilledExits,
           ServerClosed, ServerReturns, Kill, streamVars, shellVars
  <2>2. /\ server' \in {"draining", "closing", "waiting", "returned"} =>
             server \in {"draining", "closing", "waiting", "returned"} \/ shell' = "exited"
        /\ server \in {"closing", "waiting", "returned", "threw"} =>
             server' \in {"closing", "waiting", "returned", "threw"}
    BY <1>2 DEF ShellExits, StreamBreaks, ClientLeaves, RaceEnds, KilledExits,
           ServerClosed, ServerReturns, Kill, streamVars, shellVars
  <2>3. ClosedInv'
    BY <1>1, <2>1, <2>2 DEF ClosedInv, userVars, sendVars
  <2>4. LoopInv'
    BY <1>1, <2>1 DEF LoopInv, readVars
  <2> QED BY <2>3, <2>4 DEF ControlInv
<1>3. CASE ReceiveEnd(e) \/ OutputDrains
  <2>1. /\ UNCHANGED <<userVars, sendVars, streamVars, buffer, frames, shellVars, client, server>>
        /\ \E x \in Ends : \E l \in {"reading", "done", "failed"} :
             /\ loop' = [loop EXCEPT ![x] = l]
             /\ loop[x] \notin {"done", "failed"}
             /\ l # "reading" => cut \/ (closed[Other(x)] /\ wire[Other(x)] = << >>)
             /\ l = "done" => frames[x] = << >> /\ buffer[x] = << >>
    BY <1>3, EndsAre DEF ReceiveEnd, OutputDrains, Idle
  <2>2. ClosedInv'
    BY <1>1, <2>1 DEF ClosedInv, userVars, sendVars, streamVars, shellVars
  <2>3. PICK x \in Ends : \E l \in {"reading", "done", "failed"} :
             /\ loop' = [loop EXCEPT ![x] = l]
             /\ loop[x] \notin {"done", "failed"}
             /\ l # "reading" => cut \/ (closed[Other(x)] /\ wire[Other(x)] = << >>)
             /\ l = "done" => frames[x] = << >> /\ buffer[x] = << >>
    BY <2>1
  <2>4. /\ \A y \in Ends : y # x => loop'[y] = loop[y]
        /\ loop[x] \notin {"done", "failed"}
        /\ loop'[x] \in {"done", "failed"} =>
             cut \/ (closed[Other(x)] /\ wire[Other(x)] = << >>)
        /\ loop'[x] = "done" => frames[x] = << >> /\ buffer[x] = << >>
    BY <1>1, <2>3 DEF Arrays
  <2>5. LoopInv'
    <3>1. loop'["client"] \in {"done", "failed"} => cut \/ closed["listener"]
      BY <1>1, <2>4, EndsAre DEF LoopInv
    <3>2. \A y \in Ends : loop'[y] = "done" =>
            /\ frames[y] = << >> /\ buffer[y] = << >>
            /\ cut \/ (closed[Other(y)] /\ wire[Other(y)] = << >>)
      BY <1>1, <2>4, EndsAre DEF LoopInv
    <3>3. client # "running" => loop'["client"] = loop["client"]
      BY <1>1, <2>4, EndsAre DEF LoopInv
    <3> QED BY <1>1, <2>1, <3>1, <3>2, <3>3 DEF LoopInv, streamVars
  <2> QED BY <2>2, <2>5 DEF ControlInv
<1>4. CASE ClientEnds
  <2>1. /\ client' # "running" /\ loop["client"] \in {"done", "failed"}
        /\ client' = "returned" => loop["client"] = "done"
        /\ closed' = [closed EXCEPT !["client"] = TRUE]
        /\ UNCHANGED <<userVars, sendVars, wire, cut, readVars, shellVars, server>>
    BY <1>4 DEF ClientEnds
  <2>2. closed'["listener"] = closed["listener"] /\ closed'["client"]
    BY <1>1, <2>1, EndsAre
  <2>3. ClosedInv'
    BY <1>1, <2>1, <2>2 DEF ClosedInv, userVars, sendVars, shellVars
  <2>4. LoopInv'
    BY <1>1, <2>1, <2>2, EndsAre DEF LoopInv, readVars
  <2> QED BY <2>3, <2>4 DEF ControlInv
<1>5. CASE ServerCloses
  <2>1. /\ server = "draining"
        /\ UNCHANGED <<userVars, sendVars, wire, cut, readVars, shellVars, client>>
        /\ \/ server' = "threw" /\ closed' = closed
           \/ /\ queue["listener"] = << >> /\ server' \in {"waiting", "closing"}
              /\ closed' = [closed EXCEPT !["listener"] = TRUE]
    BY <1>5 DEF ServerCloses, Drained
  <2>2. closed'["client"] = closed["client"] /\ (closed["listener"] => closed'["listener"])
    BY <1>1, <2>1, EndsAre
  <2>3. shell = "exited"
    BY <1>1, <2>1 DEF ClosedInv
  <2>4. ClosedInv'
    BY <1>1, <2>1, <2>2, <2>3 DEF ClosedInv, userVars, sendVars, shellVars
  <2>5. LoopInv'
    BY <1>1, <2>1, <2>2, EndsAre DEF LoopInv, readVars
  <2> QED BY <2>4, <2>5 DEF ControlInv
<1> QED BY <1>2, <1>3, <1>4, <1>5

(* Every step keeps the order of closing. *)
LEMMA ControlStep == TypeInv /\ ControlInv /\ [Next]_vars => ControlInv'
BY Steps, ControlSame, ControlType, ControlEnqueue, ControlReading, ControlTransmit,
   ControlOnDrain, ControlReceive, ControlControl

-----------------------------------------------------------------------------
(* What is under way, moved step by step. *)
(* The units under way from end e: what its peer keeps, and the wire. *)
Units(e) == buffer[Other(e)] \o wire[e]

(* What is under way is well formed, in both directions. *)
UnderInv == \A e \in Ends : UnderWay(Values(e), frames[Other(e)], Units(e), queue[e])

(* The chain from end e. *)
LinksOf(e, s, a, d) == Links(frames[Other(e)], Units(e), queue[e], s, a, d)

(* The types of what is under way from an end. *)
LEMMA UnderTypes ==
  ASSUME TypeInv, NEW e \in Ends
  PROVE  /\ buffer[Other(e)] \in Seq(Piece(Values(e)) \X {1, 2})
         /\ wire[e] \in Seq(Piece(Values(e)) \X {1, 2})
         /\ queue[e] \in Seq(Item(Values(e)))
         /\ frames[Other(e)] \in Seq(Piece(Values(e)))
<1>1. /\ buffer[Other(e)] \in Seq(Unit(e)) /\ wire[e] \in Seq(Unit(e))
      /\ queue[e] \in Seq(Items(e)) /\ frames[Other(e)] \in Seq(Frame(e))
  BY DEF TypeInv, WireTypes, ReadTypes, SendTypes
<1> QED BY <1>1, FrameIs

(* At first nothing is under way but the first resize. *)
LEMMA UnderInit == Init => UnderInv
<1> SUFFICES ASSUME Init, NEW e \in Ends
             PROVE  UnderWay(Values(e), frames[Other(e)], Units(e), queue[e])
  BY DEF UnderInv
<1>1. /\ frames[Other(e)] = << >> /\ buffer[Other(e)] = << >> /\ wire[e] = << >>
  BY EndsAre DEF Init
<1>2. queue[e] \in Seq(Item(Values(e)))
  BY TypeInit, UnderTypes
<1>3. Units(e) = << >>
  BY <1>1 DEF Units
<1>4. UnderWay(Values(e), << >>, << >>, queue[e])
  BY <1>2 DEF UnderWay, Even
<1> QED BY <1>1, <1>3, <1>4

(* Concatenation is associative. *)
LEMMA Associates ==
  ASSUME NEW T, NEW u \in Seq(T), NEW v \in Seq(T), NEW w \in Seq(T)
  PROVE  u \o (v \o w) = (u \o v) \o w
OBVIOUS

(* A step that only moves what is under way from end x keeps what the      *)
(* chain carries, or loses the end of it because the sender fails.         *)
Moved(x) ==
  /\ UnderWay(Values(x), frames'[Other(x)], buffer'[Other(x)] \o wire'[x], queue'[x])
  /\ \A s : \A a \in 0..Len(s), d \in Nat :
       Len(s) \in Nat /\ LinksOf(x, s, a, d) =>
         \E c \in a..d :
           /\ Links(frames'[Other(x)], buffer'[Other(x)] \o wire'[x], queue'[x], s, a, c)
           /\ \/ c = d
              \/ /\ sender'[x] = "failed"
                 /\ cut \/ (closed[x] /\ ~Silent(queue[x]))

(* What does not change is moved. *)
LEMMA MovedNot ==
  ASSUME UnderInv, NEW x \in Ends, frames'[Other(x)] = frames[Other(x)],
         buffer'[Other(x)] = buffer[Other(x)], wire'[x] = wire[x], queue'[x] = queue[x]
  PROVE  Moved(x)
<1>1. UnderWay(Values(x), frames[Other(x)], Units(x), queue[x])
  BY DEF UnderInv
<1>2. ASSUME NEW s, NEW a \in 0..Len(s), NEW d \in Nat, Len(s) \in Nat, LinksOf(x, s, a, d)
      PROVE  d \in a..d
  <2>1. Links(frames[Other(x)], Units(x), queue[x], s, a, d)
    BY <1>2 DEF LinksOf
  <2>2. d \in a..Len(s)
    BY <1>1, <1>2, <2>1, LinksBounds
  <2> QED BY <2>2
<1>3. buffer'[Other(x)] \o wire'[x] = Units(x)
  BY DEF Units
<1> QED BY <1>1, <1>2, <1>3 DEF Moved, LinksOf

(* The sender moves an item to the wire, or loses its queue. *)
LEMMA TransmitMoves ==
  ASSUME TypeInv, UnderInv, NEW e \in Ends, Transmit(e), NEW x \in Ends
  PROVE  Moved(x)
<1> USE DEF Moved
<1> DEFINE fr == frames[Other(x)]
           un == Units(x)
           qu == queue[x]
           V == Values(x)
<1>1. /\ queue[e] # << >> /\ UNCHANGED readVars /\ Arrays
      /\ queue[e] \in Seq(Items(e))
  BY DEF Transmit, TypeInv, SendTypes
<1>2. UnderWay(V, fr, un, qu)
  BY DEF UnderInv
<1>3. frames'[Other(x)] = fr /\ buffer'[Other(x)] = buffer[Other(x)]
  BY <1>1 DEF readVars
<1>4. CASE x # e
  <2>1. wire'[x] = wire[x] /\ queue'[x] = queue[x]
    BY <1>1, <1>4 DEF Transmit, Breaks, Arrays
  <2> QED BY <1>3, <2>1, MovedNot
<1>5. CASE x = e
  <2>1. \/ /\ Head(qu) = Closing /\ queue'[x] = Tail(qu) /\ wire'[x] = wire[x]
        \/ /\ closed[e] \/ cut
           /\ sender'[e] = "failed" /\ queue'[x] = << >> /\ wire'[x] = wire[x]
        \/ /\ Head(qu) # Closing
           /\ queue'[x] = Tail(qu) /\ wire'[x] = wire[x] \o Encode(Head(qu))
    BY <1>1, <1>5 DEF Transmit, Breaks, Arrays
  <2>2. qu # << >> /\ qu \in Seq(Items(x))
    BY <1>1, <1>5
  <2>b. ASSUME NEW s, NEW a \in 0..Len(s), NEW d \in Nat, Len(s) \in Nat, LinksOf(x, s, a, d)
        PROVE  d \in a..d /\ a \in Nat /\ Links(fr, un, qu, s, a, d)
    <3>1. Links(fr, un, qu, s, a, d)
      BY <2>b DEF LinksOf
    <3> HIDE DEF fr, un, qu, V
    <3>2. d \in a..Len(s)
      BY <1>2, <2>b, <3>1, LinksBounds
    <3> QED BY <2>b, <3>1, <3>2
  <2>3. CASE Head(qu) = Closing /\ queue'[x] = Tail(qu) /\ wire'[x] = wire[x]
    <3>1. Head(qu).data = << >>
      BY <2>3 DEF Closing
    <3>2. buffer'[Other(x)] \o wire'[x] = un
      BY <1>3, <2>3 DEF Units
    <3> HIDE DEF fr, un, qu, V
    <3>3. UnderWay(V, fr, un, Tail(qu))
      BY <1>2, <2>2, <3>1 DEF UnderWay
    <3>4. ASSUME NEW s, NEW a \in 0..Len(s), NEW d \in Nat, Len(s) \in Nat, LinksOf(x, s, a, d)
          PROVE  d \in a..d /\ Links(fr, un, Tail(qu), s, a, d)
      BY <1>2, <2>2, <2>b, <3>1, <3>4, LinksSkip
    <3>5. UnderWay(V, frames'[Other(x)], buffer'[Other(x)] \o wire'[x], queue'[x])
      BY <1>3, <2>3, <3>2, <3>3
    <3> QED BY <1>3, <2>3, <3>2, <3>4, <3>5 DEF V
  <2>4. CASE /\ closed[e] \/ cut
             /\ sender'[e] = "failed" /\ queue'[x] = << >> /\ wire'[x] = wire[x]
    <3>2. buffer'[Other(x)] \o wire'[x] = un
      BY <1>3, <2>4 DEF Units
    <3>s. qu = queue[e]
      BY <1>5
    <3> HIDE DEF fr, un, qu, V
    <3>3. UnderWay(V, fr, un, << >>)
      BY <1>2 DEF UnderWay
    <3>4. ASSUME NEW s, NEW a \in 0..Len(s), NEW d \in Nat, Len(s) \in Nat, LinksOf(x, s, a, d)
          PROVE  \E c \in a..d : Links(fr, un, << >>, s, a, c) /\ (Silent(qu) => c = d)
      BY <1>2, <2>b, <3>4, LinksBreak
    <3>5. UnderWay(V, frames'[Other(x)], buffer'[Other(x)] \o wire'[x], queue'[x])
      BY <1>3, <2>4, <3>2, <3>3
    <3>6. ASSUME NEW s, NEW a \in 0..Len(s), NEW d \in Nat, Len(s) \in Nat, LinksOf(x, s, a, d)
          PROVE  \E c \in a..d :
                  /\ Links(frames'[Other(x)], buffer'[Other(x)] \o wire'[x], queue'[x], s, a, c)
                  /\ \/ c = d
                     \/ /\ sender'[x] = "failed"
                        /\ cut \/ (closed[x] /\ ~Silent(queue[x]))
      <4>1. PICK c \in a..d : Links(fr, un, << >>, s, a, c) /\ (Silent(qu) => c = d)
        BY <3>4, <3>6
      <4>2. Links(frames'[Other(x)], buffer'[Other(x)] \o wire'[x], queue'[x], s, a, c)
        BY <1>3, <2>4, <3>2, <4>1
      <4>3. c = d \/ /\ sender'[x] = "failed"
                     /\ cut \/ (closed[x] /\ ~Silent(queue[x]))
        BY <1>5, <2>4, <3>s, <4>1
      <4> QED BY <4>2, <4>3
    <3> QED BY <3>5, <3>6 DEF V
  <2>5. CASE /\ Head(qu) # Closing
             /\ queue'[x] = Tail(qu) /\ wire'[x] = wire[x] \o Encode(Head(qu))
    <3>1. Head(qu) \in Piece(V)
      <4>1. Head(qu) \in Items(x)
        BY <2>2
      <4> QED BY <2>5, <4>1, FrameIs DEF Items
    <3>2. buffer'[Other(x)] \o wire'[x] = un \o Encode(Head(qu))
      <4>1. /\ buffer[Other(x)] \in Seq(Piece(V) \X {1, 2})
            /\ wire[x] \in Seq(Piece(V) \X {1, 2})
        BY UnderTypes
      <4>2. Encode(Head(qu)) \in Seq(Piece(V) \X {1, 2})
        BY <3>1 DEF Encode
      <4>3. buffer[Other(x)] \o (wire[x] \o Encode(Head(qu)))
              = (buffer[Other(x)] \o wire[x]) \o Encode(Head(qu))
        <5> DEFINE b == buffer[Other(x)]
                   w == wire[x]
                   c == Encode(Head(qu))
                   T == Piece(V) \X {1, 2}
        <5>1. b \in Seq(T) /\ w \in Seq(T) /\ c \in Seq(T)
          BY <4>1, <4>2
        <5> HIDE DEF b, w, c, T
        <5>2. b \o (w \o c) = (b \o w) \o c
          BY <5>1, Associates
        <5> QED BY <5>2 DEF b, w, c
      <4> QED BY <1>3, <2>5, <4>3 DEF Units
    <3> HIDE DEF fr, un, qu, V
    <3>3. ASSUME NEW s, NEW a \in 0..Len(s), NEW d \in Nat, Len(s) \in Nat, LinksOf(x, s, a, d)
          PROVE  d \in a..d /\ Links(fr, un \o Encode(Head(qu)), Tail(qu), s, a, d)
      BY <1>2, <2>2, <2>b, <3>1, <3>3, LinksSend
    <3>4. UnderWay(V, fr, un \o Encode(Head(qu)), Tail(qu))
      <4>1. un \in Seq(Piece(V) \X {1, 2}) /\ Len(un) % 2 = 0
        BY <1>2 DEF UnderWay, Even
      <4>2. /\ un \o Encode(Head(qu)) \in Seq(Piece(V) \X {1, 2})
            /\ Len(un \o Encode(Head(qu))) % 2 = 0
        BY <3>1, <4>1, DecodedAppend
      <4>3. qu \in Seq(Item(V)) /\ Tail(qu) \in Seq(Item(V))
        BY <1>2, <2>2 DEF UnderWay
      <4> QED BY <1>2, <4>2, <4>3 DEF UnderWay, Even
    <3>5. UnderWay(V, frames'[Other(x)], buffer'[Other(x)] \o wire'[x], queue'[x])
      BY <1>3, <2>5, <3>2, <3>4
    <3> QED BY <1>3, <2>5, <3>2, <3>3, <3>5 DEF V
  <2> QED BY <2>1, <2>3, <2>4, <2>5
<1> QED BY <1>4, <1>5

(* A sender that waited loses its queue, or nothing. *)
LEMMA OnDrainMoves ==
  ASSUME TypeInv, UnderInv, NEW e \in Ends, OnDrain(e), NEW x \in Ends
  PROVE  Moved(x)
<1> DEFINE fr == frames[Other(x)]
           un == Units(x)
           qu == queue[x]
           V == Values(x)
<1>1. /\ UNCHANGED readVars /\ wire' = wire /\ Arrays
  BY DEF OnDrain, streamVars, TypeInv
<1>2. UnderWay(V, fr, un, qu)
  BY DEF UnderInv
<1>3. /\ frames'[Other(x)] = fr /\ buffer'[Other(x)] = buffer[Other(x)] /\ wire'[x] = wire[x]
      /\ buffer'[Other(x)] \o wire'[x] = un
  BY <1>1 DEF readVars, Units
<1>4. \/ queue'[x] = queue[x]
      \/ cut /\ sender'[x] = "failed" /\ queue'[x] = << >>
  BY <1>1 DEF OnDrain, Breaks, Arrays
<1>5. CASE queue'[x] = queue[x]
  BY <1>3, <1>5, MovedNot
<1>6. CASE cut /\ sender'[x] = "failed" /\ queue'[x] = << >>
  <2> HIDE DEF fr, un, qu, V
  <2>1. UnderWay(V, fr, un, << >>)
    BY <1>2 DEF UnderWay
  <2>2. ASSUME NEW s, NEW a \in 0..Len(s), NEW d \in Nat, Len(s) \in Nat, LinksOf(x, s, a, d)
        PROVE  \E c \in a..d : Links(fr, un, << >>, s, a, c)
    <3>1. Links(fr, un, qu, s, a, d)
      BY <2>2 DEF LinksOf, fr, un, qu
    <3> QED BY <1>2, <2>2, <3>1, LinksBreak
  <2>3. UnderWay(V, frames'[Other(x)], buffer'[Other(x)] \o wire'[x], queue'[x])
    BY <1>3, <1>6, <2>1
  <2>4. ASSUME NEW s, NEW a \in 0..Len(s), NEW d \in Nat, Len(s) \in Nat, LinksOf(x, s, a, d)
        PROVE  \E c \in a..d :
                 Links(frames'[Other(x)], buffer'[Other(x)] \o wire'[x], queue'[x], s, a, c)
    <3>1. PICK c \in a..d : Links(fr, un, << >>, s, a, c)
      BY <2>2, <2>4
    <3> QED BY <1>3, <1>6, <3>1
  <2> QED BY <1>6, <2>3, <2>4 DEF Moved, V
<1> QED BY <1>4, <1>5, <1>6

(* A chunk is moved from the wire to the decoder. *)
LEMMA ReceiveMoves ==
  ASSUME TypeInv, UnderInv, NEW e \in Ends, Receive(e), NEW x \in Ends
  PROVE  Moved(x)
<1>1. PICK n \in 1..Len(wire[Other(e)]) :
        /\ Push(e, SubSeq(wire[Other(e)], 1, n))
        /\ wire' = [wire EXCEPT ![Other(e)] = SubSeq(wire[Other(e)], n + 1, Len(wire[Other(e)]))]
  BY DEF Receive
<1>2. /\ UNCHANGED sendVars /\ frames[e] = << >> /\ Arrays
  BY DEF Receive, Idle, TypeInv
<1>3. CASE x # Other(e)
  <2>1. Other(x) # e
    BY <1>3, EndsAre
  <2>2. /\ frames'[Other(x)] = frames[Other(x)] /\ buffer'[Other(x)] = buffer[Other(x)]
        /\ wire'[x] = wire[x] /\ queue'[x] = queue[x]
    <3>1. /\ \E v : frames' = [frames EXCEPT ![e] = v]
          /\ \E v : buffer' = [buffer EXCEPT ![e] = v]
      BY <1>1 DEF Push
    <3>2. Other(x) \in Ends
      BY EndsAre
    <3> QED BY <1>1, <1>2, <1>3, <2>1, <3>1, <3>2 DEF Arrays, sendVars
  <2> QED BY <2>2, MovedNot
<1>4. CASE x = Other(e)
  <2> DEFINE bu == buffer[e]
             w == wire[x]
             qu == queue[x]
             V == Values(x)
             all == All(bu, w, n)
             rest == Kept(all) \o Behind(w, n)
  <2>1. Other(x) = e /\ e \in Ends
    BY <1>4, EndsAre
  <2>2. /\ frames'[e] = Decoded(all) /\ buffer'[e] = Kept(all)
        /\ wire'[x] = Behind(w, n) /\ queue'[x] = qu
    BY <1>1, <1>2, <1>4, <2>1 DEF Push, Decoded, Kept, Frames, All, Behind, Arrays, sendVars
  <2>3. UnderWay(V, << >>, bu \o w, qu)
    BY <1>2, <2>1 DEF UnderInv, Units
  <2>4. bu \in Seq(Piece(V) \X {1, 2}) /\ w \in Seq(Piece(V) \X {1, 2})
    BY <2>1, UnderTypes
  <2>5. n \in 0..Len(w)
    BY <1>4
  <2>7. ASSUME NEW s, NEW a \in 0..Len(s), NEW d \in Nat, Len(s) \in Nat, LinksOf(x, s, a, d)
        PROVE  /\ d \in a..d
               /\ Links(Decoded(all), rest, qu, s, a, d)
    <3>1. Links(<< >>, bu \o w, qu, s, a, d)
      BY <1>2, <2>1, <2>7 DEF LinksOf, Units
    <3> HIDE DEF bu, w, qu, V
    <3>2. d \in a..Len(s)
      BY <2>3, <2>7, <3>1, LinksBounds
    <3>3. Links(Decoded(all), rest, qu, s, a, d)
      BY <2>3, <2>4, <2>5, <2>7, <3>1, LinksPush
    <3> QED BY <3>2, <3>3
  <2>8. UnderWay(V, Decoded(all), rest, qu)
    <3> HIDE DEF bu, w, qu, V
    <3> QED BY <2>3, <2>4, <2>5, PushUnder
  <2> HIDE DEF all, qu, V
  <2>9. UnderWay(V, frames'[Other(x)], buffer'[Other(x)] \o wire'[x], queue'[x])
    BY <2>1, <2>2, <2>8
  <2> QED BY <2>1, <2>2, <2>7, <2>9 DEF Moved, V
<1> QED BY <1>3, <1>4

-----------------------------------------------------------------------------
(* What the scan of the first n keys has come to, and the keys it gave.    *)
Given(s, n, esc, quit, g) ==
  IF quit
    THEN ~esc /\ \E i \in 1..n - 1 : FirstQuit(s, i) /\ g = i - 1
    ELSE /\ esc <=> n > 0 /\ Starts(s, n)
         /\ \A i \in 1..n - 1 : ~QuitAt(s, i)
         /\ g = n - Held(esc)

(* The scan of a chunk gave what follows the first g of the keys s. *)
GivenWith(p, s, g) ==
  \E h \in Nat : /\ Given(s, Len(s), p.escape, p.quit, h)
                 /\ g + Len(p.bytes) = h
                 /\ Part(p.bytes, s, g)

(* The status of a scan says what it gave. *)
LEMMA GivenScanned ==
  ASSUME NEW s, NEW n, NEW a, NEW st
  PROVE  Scanned(s, n, a, st) <=>
           \E g : Given(s, n, st.escape, st.quit, g) /\ Bytes(st.bytes, s, a, g)
BY DEF Scanned, Given

(* A scan gives no more than was typed. *)
LEMMA GivenBounds ==
  ASSUME NEW s \in Seq(Keys), NEW esc \in BOOLEAN, NEW quit \in BOOLEAN, NEW g,
         Given(s, Len(s), esc, quit, g)
  PROVE  g \in 0..Len(s)
<1>1. CASE quit
  BY <1>1 DEF Given
<1>2. CASE ~quit /\ ~esc
  BY <1>2 DEF Given, Held
<1>3. CASE ~quit /\ esc
  <2>1. Len(s) > 0 /\ g = Len(s) - 1
    BY <1>3 DEF Given, Held
  <2> QED BY <2>1
<1> QED BY <1>1, <1>2, <1>3

(* A chunk is typed. *)
LEMMA GivenNext ==
  ASSUME NEW t \in Seq(Keys), NEW chunk \in Seq(Keys), NEW st \in Status,
         ~st.quit, st.bytes = << >>,
         NEW g, Given(t, Len(t), st.escape, st.quit, g),
         NEW p, p = Scan(st, chunk)[Len(chunk)], NEW s, s = t \o chunk
  PROVE  /\ p \in Status
         /\ GivenWith(p, s, g)
<1> DEFINE n == Len(t)
           esc == st.escape
<1>1. /\ s \in Seq(Keys) /\ Len(s) = n + Len(chunk) /\ n \in Nat /\ Len(chunk) \in Nat
      /\ \A i \in 1..n : s[i] = t[i]
  OBVIOUS
<1>2. st \in Status /\ ~st.quit /\ st.bytes = << >> /\ esc \in BOOLEAN
  BY DEF Status
<1>3. g \in Nat
  <2>1. g = Len(t) - Held(esc) /\ (esc => Len(t) > 0)
    BY DEF Given
  <2> QED BY <2>1 DEF Held
<1>4. Scanned(s, n, g, st)
  <2> HIDE DEF n
  <2>1. esc <=> n > 0 /\ Starts(s, n)
    <3>1. Starts(s, n) <=> Starts(t, n)
      BY <1>1, StartsSame
    <3> QED BY <3>1 DEF Given, n
  <2>2. ASSUME NEW i \in 1..n - 1 PROVE ~QuitAt(s, i)
    <3>1. /\ i \in Nat /\ i < Len(s) /\ i < Len(t)
          /\ \A j \in 1..i + 1 : s[j] = t[j]
      BY <1>1 DEF n
    <3>2. QuitAt(s, i) <=> QuitAt(t, i)
      BY <3>1, QuitSame
    <3>3. ~QuitAt(t, i)
      BY DEF Given, n
    <3> QED BY <3>2, <3>3
  <2>3. g = n - Held(esc)
    BY DEF Given, n
  <2>4. Bytes(<< >>, s, g, g)
    BY <1>3 DEF Bytes
  <2> QED BY <1>2, <2>1, <2>2, <2>3, <2>4 DEF Scanned
<1>5. p = Scan(st, chunk)[Len(chunk)]
  OBVIOUS
<1>6. p \in Status /\ Scanned(s, Len(s), g, p)
  <2>1. LET r == Scan(st, chunk)[Len(chunk)]
        IN  r \in Status /\ Scanned(t \o chunk, Len(t \o chunk), g, r)
    BY <1>2, <1>3, <1>4, ScanScans
  <2> QED BY <1>5, <2>1
<1> HIDE DEF n, esc
<1>7. PICK h : Given(s, Len(s), p.escape, p.quit, h) /\ Bytes(p.bytes, s, g, h)
  BY <1>6, GivenScanned
<1>8. h \in 0..Len(s)
  <2>1. p.escape \in BOOLEAN /\ p.quit \in BOOLEAN
    BY <1>6 DEF Status
  <2> QED BY <1>1, <1>7, <2>1, GivenBounds
<1>9. g + Len(p.bytes) = h /\ Part(p.bytes, s, g) /\ h \in Nat
  <2>1. /\ g <= h /\ Len(p.bytes) = h - g /\ Len(s) \in Nat /\ h \in Nat /\ h <= Len(s)
        /\ \A j \in 1..Len(p.bytes) : p.bytes[j] = s[g + j]
    <3>1. /\ g <= h /\ Len(p.bytes) = h - g
          /\ \A j \in 1..Len(p.bytes) : p.bytes[j] = s[g + j]
      BY <1>7 DEF Bytes
    <3>2. Len(s) \in Nat
      BY <1>1
    <3>3. h \in Nat /\ h <= Len(s)
      BY <1>8, <3>2
    <3> QED BY <3>1, <3>2, <3>3
  <2>2. g + Len(p.bytes) = h
    BY <1>3, <2>1
  <2> QED BY <2>1, <2>2 DEF Part
<1> QED BY <1>6, <1>7, <1>9 DEF GivenWith

-----------------------------------------------------------------------------
(* The invariant. *)
(* What the shell prints. *)
Numbers(n) == [i \in 1..n |-> i]

(* The keys.  A chain leads from the a-th key typed, which the terminal   *)
(* got last, to the d-th; it is all that the scans gave, unless the sender *)
(* failed.                                                                 *)
KeysInv ==
  /\ Part(input, typed, 0)
  /\ \E a \in 0..Len(typed), d, g \in Nat :
       /\ LinksOf("client", typed, a, d)
       /\ Len(input) <= a /\ (shell # "exited" => Len(input) = a)
       /\ Given(typed, Len(typed), escape, quitting, g)
       /\ d <= g
       /\ d = g \/ (sender["client"] = "failed" /\ (cut \/ client # "running"))

(* The output.  The chain leads from the last number shown to the last     *)
(* printed, unless the sender failed.                                      *)
OutputInv ==
  /\ \A i \in 1..Len(shown) : shown[i] = i
  /\ Len(shown) <= printed
  /\ \E d \in Nat :
       /\ LinksOf("listener", Numbers(printed), Len(shown), d)
       /\ d <= printed
       /\ d = printed \/ (sender["listener"] = "failed" /\ cut)

(* The shell is killed over a whole stream: it has all the scans gave.     *)
KillInv ==
  server = "killing" /\ ~cut =>
    /\ quitting /\ loop["listener"] = "done"
    /\ Given(typed, Len(typed), escape, quitting, Len(input))

(* The inductive invariant.                                                *)
IInv == TypeInv /\ ControlInv /\ UnderInv /\ KeysInv /\ OutputInv /\ KillInv

(* The numbers up to n. *)
LEMMA NumbersAre ==
  ASSUME NEW n \in Nat
  PROVE  /\ Numbers(n) \in Seq(Nat) /\ Len(Numbers(n)) = n
         /\ \A i \in 1..n : Numbers(n)[i] = i
BY DEF Numbers

(* The lengths that the arithmetic below is about. *)
LEMMA Lengths ==
  ASSUME TypeInv
  PROVE  /\ Len(typed) \in Nat /\ Len(input) \in Nat /\ Len(shown) \in Nat
         /\ printed \in Nat /\ Len(Numbers(printed)) = printed
         /\ typed \in Seq(Keys) /\ input \in Seq(Keys)
<1>1. /\ typed \in Seq(Keys) /\ input \in Seq(Keys) /\ shown \in Seq(1..MaxOutput)
      /\ printed \in 0..MaxOutput
  BY DEF TypeInv, UserTypes, OtherTypes
<1>2. printed \in Nat
  BY <1>1
<1> QED BY <1>1, <1>2, NumbersAre

(* The invariant holds at first. *)
LEMMA DataInit == Init => IInv
<1> SUFFICES ASSUME Init PROVE IInv
  OBVIOUS
<1>1. TypeInv /\ ControlInv /\ UnderInv
  BY TypeInit, ControlInit, UnderInit
<1>2. /\ typed = << >> /\ input = << >> /\ shown = << >> /\ printed = 0
      /\ ~escape /\ ~quitting /\ server = "racing" /\ shell = "running"
      /\ \A e \in Ends : /\ frames[Other(e)] = << >> /\ Units(e) = << >>
                         /\ queue[e] = << >> \/ queue[e] = <<Resized>>
  BY EndsAre DEF Init, Units
<1>3. ASSUME NEW e \in Ends, NEW s, Len(s) \in Nat PROVE LinksOf(e, s, 0, 0)
  <2>1. Carries(<< >>, s, 0, 0)
    BY CarriesNone
  <2>2. Decoded(<< >>) = << >>
    BY DEF Decoded
  <2>3. Carries(<<Resized>>, s, 0, 0)
    <3>1. << >> \in Seq(Item(Keys)) /\ Resized \in Item(Keys)
      BY DEF Resized, Item
    <3>2. /\ Append(<< >>, Resized) = <<Resized>> /\ 0 + Len(<< >>) = 0
          /\ Resized.data = << >>
      BY DEF Resized
    <3>3. Part(<< >>, s, 0)
      BY <1>3 DEF Part
    <3>4. Carries(Append(<< >>, Resized), s, 0, 0 + Len(Resized.data))
      BY <2>1, <3>1, <3>2, <3>3, CarriesAppend
    <3> QED BY <3>2, <3>4
  <2>4. queue[e] = << >> \/ queue[e] = <<Resized>>
    BY <1>2
  <2>5. Carries(queue[e], s, 0, 0)
    BY <2>1, <2>3, <2>4
  <2>6. frames[Other(e)] = << >> /\ Units(e) = << >>
    BY <1>2
  <2> QED BY <2>1, <2>2, <2>5, <2>6 DEF LinksOf, Links
<1>4. KeysInv
  <2>1. LinksOf("client", typed, 0, 0)
    BY <1>1, <1>3, Lengths, EndsAre
  <2>2. Given(typed, Len(typed), escape, quitting, 0)
    BY <1>2 DEF Given, Held
  <2>3. Part(input, typed, 0)
    BY <1>2 DEF Part
  <2>4. Len(typed) = 0 /\ Len(input) = 0
    BY <1>2
  <2> QED BY <2>1, <2>2, <2>3, <2>4 DEF KeysInv
<1>5. OutputInv
  <2>1. LinksOf("listener", Numbers(printed), 0, 0)
    BY <1>1, <1>3, Lengths, EndsAre
  <2> QED BY <1>2, <2>1 DEF OutputInv
<1>6. KillInv
  BY <1>2 DEF KillInv
<1> QED BY <1>1, <1>4, <1>5, <1>6 DEF IInv

(* What is under way stays what it is when a queue only grows. *)
LEMMA UnderSame ==
  ASSUME UnderInv, TypeInv', UNCHANGED <<wire, buffer>>
  PROVE  UnderInv'
<1>1. ASSUME NEW e \in Ends
      PROVE  UnderWay(Values(e), frames'[Other(e)], buffer'[Other(e)] \o wire'[e], queue'[e])
  <2>1. queue'[e] \in Seq(Items(e)) /\ frames'[Other(e)] \in Seq(Frame(e))
    BY DEF TypeInv, SendTypes, ReadTypes
  <2>2. /\ queue'[e] \in Seq(Item(Values(e)))
        /\ frames'[Other(e)] \in Seq(Piece(Values(e)))
    BY <2>1, FrameIs
  <2>3. buffer'[Other(e)] \o wire'[e] = Units(e)
    BY DEF Units
  <2>4. UnderWay(Values(e), frames[Other(e)], Units(e), queue[e])
    BY DEF UnderInv
  <2> QED BY <2>2, <2>3, <2>4 DEF UnderWay
<1> QED BY <1>1 DEF UnderInv, Units

(* The steps that move what is under way. *)
LEMMA DataMoves ==
  ASSUME IInv, NEW e \in Ends, Transmit(e) \/ OnDrain(e) \/ Receive(e)
  PROVE  UnderInv' /\ KeysInv' /\ OutputInv' /\ KillInv'
<1>1. TypeInv /\ ControlInv /\ UnderInv /\ KeysInv /\ OutputInv /\ KillInv
      /\ ClosedInv /\ Arrays
  BY DEF IInv, ControlInv, TypeInv
<1>2. \A x \in Ends : Moved(x)
  BY <1>1, TransmitMoves, OnDrainMoves, ReceiveMoves
<1>3. /\ UNCHANGED <<userVars, cut, shown, input, shellVars, client, server, loop>>
      /\ \A x \in Ends : sender[x] = "failed" => sender'[x] = "failed"
  BY <1>1 DEF Transmit, OnDrain, Receive, Breaks, readVars, streamVars, sendVars, Arrays
<1>4. UnderInv'
  BY <1>2 DEF UnderInv, Moved, Units
<1>5. KeysInv'
  <2>1. PICK a \in 0..Len(typed), d, g \in Nat :
          /\ LinksOf("client", typed, a, d)
          /\ Len(input) <= a /\ (shell # "exited" => Len(input) = a)
          /\ Given(typed, Len(typed), escape, quitting, g)
          /\ d <= g
          /\ d = g \/ (sender["client"] = "failed" /\ (cut \/ client # "running"))
    BY <1>1 DEF KeysInv
  <2>2. PICK c \in a..d :
          /\ Links(frames'[Other("client")], buffer'[Other("client")] \o wire'["client"],
                   queue'["client"], typed, a, c)
          /\ \/ c = d
             \/ /\ sender'["client"] = "failed"
                /\ cut \/ (closed["client"] /\ ~Silent(queue["client"]))
    <3>1. Moved("client")
      BY <1>2, EndsAre
    <3>2. a \in 0..Len(typed) /\ d \in Nat /\ Len(typed) \in Nat
      BY <1>1, <2>1, Lengths
    <3>3. LinksOf("client", typed, a, d)
      BY <2>1
    <3> QED BY <3>1, <3>2, <3>3 DEF Moved
  <2>3. c = d \/ /\ sender'["client"] = "failed"
                 /\ cut \/ client # "running"
    BY <1>1, <2>2 DEF ClosedInv
  <2>4. c \in Nat /\ c <= g /\ (c = g \/ (sender'["client"] = "failed"
                                          /\ (cut \/ client # "running")))
    BY <1>3, <2>1, <2>2, <2>3, EndsAre
  <2>5. UNCHANGED <<typed, escape, quitting, input, shell, cut, client>>
    BY <1>3 DEF userVars, shellVars
  <2>6. Links(frames'[Other("client")], buffer'[Other("client")] \o wire'["client"],
              queue'["client"], typed', a, c)
    BY <2>2, <2>5
  <2> QED BY <1>1, <2>1, <2>4, <2>5, <2>6 DEF KeysInv, LinksOf, Units
<1>6. OutputInv'
  <2>1. PICK d \in Nat :
          /\ LinksOf("listener", Numbers(printed), Len(shown), d)
          /\ d <= printed
          /\ d = printed \/ (sender["listener"] = "failed" /\ cut)
    BY <1>1 DEF OutputInv
  <2>0. Len(shown) \in 0..Len(Numbers(printed)) /\ Len(Numbers(printed)) \in Nat
    BY <1>1, Lengths DEF OutputInv
  <2>2. PICK c \in Len(shown)..d :
          /\ Links(frames'[Other("listener")], buffer'[Other("listener")] \o wire'["listener"],
                   queue'["listener"], Numbers(printed), Len(shown), c)
          /\ \/ c = d
             \/ /\ sender'["listener"] = "failed"
                /\ cut \/ (closed["listener"] /\ ~Silent(queue["listener"]))
    BY <1>1, <1>2, <2>0, <2>1, EndsAre DEF Moved
  <2>3. c = d \/ (sender'["listener"] = "failed" /\ cut)
    BY <1>1, <2>2, NoneClose DEF ClosedInv
  <2>4. c \in Nat /\ c <= printed /\ (c = printed \/ (sender'["listener"] = "failed" /\ cut))
    BY <1>1, <1>3, <2>0, <2>1, <2>2, <2>3, EndsAre, Lengths
  <2>5. UNCHANGED <<shown, printed, cut>>
    BY <1>3 DEF shellVars
  <2>6. Links(frames'[Other("listener")], buffer'[Other("listener")] \o wire'["listener"],
              queue'["listener"], Numbers(printed'), Len(shown'), c)
    BY <2>2, <2>5
  <2> QED BY <1>1, <2>4, <2>5, <2>6 DEF OutputInv, LinksOf, Units
<1>7. KillInv'
  BY <1>1, <1>3 DEF KillInv, userVars, shellVars
<1> QED BY <1>4, <1>5, <1>6, <1>7

(* The steps that leave what is under way alone. *)
LEMMA DataControl ==
  ASSUME IInv, TypeInv', NEW e \in Ends,
         \/ ShellExits \/ StreamBreaks \/ ReceiveEnd(e) \/ OutputDrains \/ ClientEnds
         \/ ClientLeaves \/ RaceEnds \/ KilledExits \/ ServerCloses \/ ServerClosed
         \/ ServerReturns
  PROVE  UnderInv' /\ KeysInv' /\ OutputInv' /\ KillInv'
<1>1. /\ TypeInv /\ ControlInv /\ UnderInv /\ KeysInv /\ OutputInv /\ KillInv
      /\ ClosedInv /\ LoopInv /\ Arrays
  BY DEF IInv, ControlInv, TypeInv
<1>2. /\ UNCHANGED <<userVars, sendVars, wire, buffer, frames, shown, input, printed>>
      /\ cut => cut'
      /\ client # "running" => client' # "running"
      /\ shell = "exited" => shell' = "exited"
  BY DEF ShellExits, StreamBreaks, ReceiveEnd, OutputDrains, ClientEnds, ClientLeaves,
         RaceEnds, KilledExits, ServerCloses, ServerClosed, ServerReturns, Kill,
         userVars, sendVars, streamVars, readVars, shellVars
<1>3. UnderInv'
  BY <1>1, <1>2, UnderSame
<1>4. KeysInv'
  <2>1. UNCHANGED <<typed, escape, quitting, input, queue, sender, wire, buffer, frames>>
    BY <1>2 DEF userVars, sendVars
  <2>2. \A a, d : LinksOf("client", typed, a, d) => LinksOf("client", typed, a, d)'
    BY <2>1 DEF LinksOf, Units
  <2> QED BY <1>1, <1>2, <2>1, <2>2 DEF KeysInv
<1>5. OutputInv'
  <2>1. UNCHANGED <<shown, printed, queue, sender, wire, buffer, frames>>
    BY <1>2 DEF sendVars
  <2>2. \A a, d : LinksOf("listener", Numbers(printed), a, d) =>
                    LinksOf("listener", Numbers(printed), a, d)'
    BY <2>1 DEF LinksOf, Units
  <2> QED BY <1>1, <1>2, <2>1, <2>2 DEF OutputInv
<1>6. KillInv'
  <2>1. UNCHANGED <<typed, escape, quitting, input>>
    BY <1>2 DEF userVars
  <2>2. CASE server = "killing"
    <3>1. loop["listener"] = "done" => loop'["listener"] = "done"
      <4>1. \/ loop' = loop
            \/ \E x \in Ends : /\ loop[x] # "done"
                               /\ \E l : loop' = [loop EXCEPT ![x] = l]
        BY EndsAre
           DEF ShellExits, StreamBreaks, ReceiveEnd, OutputDrains, ClientEnds, ClientLeaves,
               RaceEnds, KilledExits, ServerCloses, ServerClosed, ServerReturns, Idle,
               streamVars, readVars
      <4> QED BY <1>1, <4>1, EndsAre DEF Arrays
    <3> QED BY <1>1, <1>2, <2>1, <2>2, <3>1 DEF KillInv
  <2>3. CASE server # "killing" /\ RaceEnds
    <3>1. SUFFICES ASSUME server' = "killing", ~cut'
                   PROVE  /\ quitting /\ loop'["listener"] = "done"
                          /\ Given(typed, Len(typed), escape, quitting, Len(input))
      BY <2>1 DEF KillInv
    <3>2. /\ loop["listener"] = "done" /\ shell # "exited" /\ ~cut /\ loop' = loop
      BY <2>3, <3>1 DEF RaceEnds, streamVars, readVars
    <3>3. /\ frames["listener"] = << >> /\ buffer["listener"] = << >>
          /\ closed["client"] /\ wire["client"] = << >>
      BY <1>1, <3>2, EndsAre DEF LoopInv
    <3>4. client = "running"
      BY <1>1, <3>2 DEF LoopInv, ClosedInv
    <3>5. quitting /\ Silent(queue["client"])
      BY <1>1, <3>3, <3>4 DEF ClosedInv
    <3>6. PICK a \in 0..Len(typed), d, g \in Nat :
            /\ LinksOf("client", typed, a, d)
            /\ Len(input) = a
            /\ Given(typed, Len(typed), escape, quitting, g)
            /\ d = g
      BY <1>1, <3>2, <3>4 DEF KeysInv
    <3>7. Units("client") = << >> /\ frames[Other("client")] = << >>
      BY <3>3, EndsAre DEF Units
    <3>8. a = d
      <4>1. UnderWay(Values("client"), << >>, Units("client"), queue["client"])
        BY <1>1, <3>7, EndsAre DEF UnderInv
      <4>2. Links(<< >>, Units("client"), queue["client"], typed, a, d)
        BY <3>6, <3>7 DEF LinksOf
      <4>3. a \in Nat
        BY <3>6
      <4> QED BY <3>5, <3>7, <4>1, <4>2, <4>3, LinksEnd
    <3> QED BY <3>2, <3>5, <3>6, <3>8
  <2>4. CASE server # "killing" /\ ~RaceEnds
    <3>1. server' # "killing"
      BY <2>4 DEF ShellExits, StreamBreaks, ReceiveEnd, OutputDrains, ClientEnds, ClientLeaves,
               KilledExits, ServerCloses, ServerClosed, ServerReturns
    <3> QED BY <3>1 DEF KillInv
  <2> QED BY <2>2, <2>3, <2>4
<1> QED BY <1>3, <1>4, <1>5, <1>6

(* A frame is handled. *)
LEMMA PartJoins ==
  ASSUME NEW V, NEW t \in Seq(V), NEW d \in Seq(V), NEW s, Len(s) \in Nat,
         Part(t, s, 0), Part(d, s, Len(t))
  PROVE  Part(t \o d, s, 0) /\ Len(t \o d) = Len(t) + Len(d)
<1> DEFINE u == t \o d
<1>1. /\ Len(u) = Len(t) + Len(d) /\ Len(t) \in Nat /\ Len(d) \in Nat
      /\ \A i \in 1..Len(t) : u[i] = t[i]
      /\ \A i \in 1..Len(d) : u[Len(t) + i] = d[i]
  OBVIOUS
<1> HIDE DEF u
<1>2. ASSUME NEW j \in 1..Len(u) PROVE u[j] = s[0 + j]
  <2>1. CASE j \in 1..Len(t)
    BY <1>1, <2>1 DEF Part
  <2>2. CASE j \notin 1..Len(t)
    <3> DEFINE i == j - Len(t)
    <3>1. i \in 1..Len(d) /\ j = Len(t) + i
      BY <1>1, <2>2
    <3> HIDE DEF i
    <3>2. u[j] = d[i] /\ d[i] = s[Len(t) + i]
      BY <1>1, <3>1 DEF Part
    <3>3. 0 + j = Len(t) + i
      BY <1>1, <3>1
    <3> QED BY <3>2, <3>3
  <2> QED BY <2>1, <2>2
<1>3. 0 + Len(u) <= Len(s)
  BY <1>1 DEF Part
<1>4. Part(u, s, 0)
  BY <1>2, <1>3 DEF Part
<1> QED BY <1>1, <1>4 DEF u

(* A decoded frame reaches the output or the terminal. *)
LEMMA DataReading ==
  ASSUME IInv, TypeInv', ClientHandles \/ ServerHandles
  PROVE  UnderInv' /\ KeysInv' /\ OutputInv' /\ KillInv'
<1>1. /\ TypeInv /\ UnderInv /\ KeysInv /\ OutputInv /\ KillInv /\ Arrays
  BY DEF IInv, TypeInv
<1>2. UNCHANGED <<userVars, sendVars, streamVars, buffer, shellVars, client, server>>
  BY DEF ClientHandles, ServerHandles
<1>3. UnderInv'
  BY <1>1, <1>2, UnderSame DEF streamVars
<1>4. CASE ClientHandles
  <2> DEFINE f == frames["client"]
             d0 == Head(f).data
             un == Units("listener")
             qu == queue["listener"]
             V == Values("listener")
             s == Numbers(printed)
  <2>1. /\ f # << >> /\ shown' = shown \o d0 /\ input' = input
        /\ frames' = [frames EXCEPT !["client"] = Tail(f)]
        /\ loop["client"] = "reading"
        /\ \E l \in {"reading", "draining"} : loop' = [loop EXCEPT !["client"] = l]
    BY <1>4 DEF ClientHandles
  <2>2. frames'["client"] = Tail(f) /\ frames'["listener"] = frames["listener"]
        /\ loop'["listener"] = loop["listener"]
    BY <1>1, <2>1, EndsAre DEF Arrays
  <2>3. UNCHANGED <<typed, escape, quitting, queue, sender, wire, buffer, cut, printed,
                    shell, client, server>>
    BY <1>2 DEF userVars, sendVars, streamVars, shellVars
  <2>4. KeysInv'
    <3>1. \A a, d : LinksOf("client", typed, a, d) => LinksOf("client", typed, a, d)'
      BY <2>2, <2>3, EndsAre DEF LinksOf, Units
    <3> QED BY <1>1, <2>1, <2>3, <3>1 DEF KeysInv
  <2>5. KillInv'
    BY <1>1, <2>1, <2>2, <2>3 DEF KillInv
  <2>6. PICK d \in Nat :
          /\ LinksOf("listener", s, Len(shown), d)
          /\ d <= printed
          /\ d = printed \/ (sender["listener"] = "failed" /\ cut)
    BY <1>1 DEF OutputInv
  <2>7. UnderWay(V, f, un, qu) /\ Links(f, un, qu, s, Len(shown), d)
    BY <1>1, <2>6, EndsAre DEF UnderInv, LinksOf
  <2>8. /\ Len(shown) \in Nat /\ printed \in Nat /\ Len(s) = printed
        /\ shown \in Seq(1..MaxOutput) /\ \A i \in 1..printed : s[i] = i
    BY <1>1, Lengths, NumbersAre DEF TypeInv, OtherTypes
  <2>9. d0 \in Seq(1..MaxOutput)
    <3>1. f \in Seq(Frame("listener"))
      BY <1>1, EndsAre DEF TypeInv, ReadTypes
    <3>2. Head(f) \in Frame("listener")
      BY <2>1, <3>1
    <3> QED BY <3>2 DEF Frame
  <2> HIDE DEF f, un, qu, V, s
  <2>10. /\ Part(d0, s, Len(shown)) /\ Len(d0) \in Nat
         /\ Links(Tail(f), un, qu, s, Len(shown) + Len(d0), d)
    BY <2>1, <2>7, <2>8, LinksTake
  <2> HIDE DEF d0
  <2>11. Part(shown, s, 0)
    BY <1>1, <2>8 DEF OutputInv, Part
  <2>12. Part(shown \o d0, s, 0) /\ Len(shown \o d0) = Len(shown) + Len(d0)
    BY <2>8, <2>9, <2>10, <2>11, PartJoins
  <2>13. (\A i \in 1..Len(shown') : shown'[i] = i) /\ Len(shown') <= printed
    BY <2>1, <2>8, <2>10, <2>12 DEF Part
  <2>14. Links(frames'[Other("listener")], buffer'[Other("listener")] \o wire'["listener"],
               queue'["listener"], Numbers(printed'), Len(shown'), d)
    BY <2>1, <2>2, <2>3, <2>10, <2>12, EndsAre DEF un, qu, s, Units
  <2>15. OutputInv'
    BY <2>3, <2>6, <2>13, <2>14 DEF OutputInv, LinksOf, Units
  <2> QED BY <1>3, <2>4, <2>5, <2>15
<1>5. CASE ServerHandles
  <2> DEFINE f == frames["listener"]
             d0 == Head(f).data
             un == Units("client")
             qu == queue["client"]
             V == Values("client")
  <2>1. /\ f # << >> /\ shown' = shown /\ loop["listener"] = "reading"
        /\ \/ /\ input' = IF shell = "exited" THEN input ELSE input \o d0
              /\ frames' = [frames EXCEPT !["listener"] = Tail(f)]
           \/ input' = input /\ frames' = frames
    BY <1>5 DEF ServerHandles
  <2>2. frames'["client"] = frames["client"]
        /\ \/ /\ input' = IF shell = "exited" THEN input ELSE input \o d0
              /\ frames'["listener"] = Tail(f)
           \/ input' = input /\ frames'["listener"] = f
    BY <1>1, <2>1, EndsAre DEF Arrays
  <2>3. UNCHANGED <<typed, escape, quitting, queue, sender, wire, buffer, cut, printed,
                    shell, client, server, shown>>
    BY <1>2, <2>1 DEF userVars, sendVars, streamVars, shellVars
  <2>4. OutputInv'
    <3>1. \A d : LinksOf("listener", Numbers(printed), Len(shown), d) =>
                   LinksOf("listener", Numbers(printed), Len(shown), d)'
      BY <2>2, <2>3, EndsAre DEF LinksOf, Units
    <3> QED BY <1>1, <2>3, <3>1 DEF OutputInv
  <2>5. KillInv'
    <3>1. cut \/ server # "killing"
      BY <1>1, <2>1 DEF KillInv
    <3> QED BY <2>3, <3>1 DEF KillInv
  <2>6. PICK a \in 0..Len(typed), d, g \in Nat :
          /\ LinksOf("client", typed, a, d)
          /\ Len(input) <= a /\ (shell # "exited" => Len(input) = a)
          /\ Given(typed, Len(typed), escape, quitting, g)
          /\ d <= g
          /\ d = g \/ (sender["client"] = "failed" /\ (cut \/ client # "running"))
    BY <1>1 DEF KeysInv
  <2>7. UnderWay(V, f, un, qu) /\ Links(f, un, qu, typed, a, d)
    BY <1>1, <2>6, EndsAre DEF UnderInv, LinksOf
  <2>8. /\ Len(typed) \in Nat /\ Len(input) \in Nat /\ a \in Nat
        /\ input \in Seq(Keys) /\ Part(input, typed, 0)
    BY <1>1, Lengths DEF KeysInv
  <2>9. d0 \in Seq(Keys)
    <3>1. f \in Seq(Frame("client"))
      BY <1>1, EndsAre DEF TypeInv, ReadTypes
    <3>2. Head(f) \in Frame("client")
      BY <2>1, <3>1
    <3> QED BY <3>2 DEF Frame
  <2> HIDE DEF f, un, qu, V
  <2>10. /\ Part(d0, typed, a) /\ Len(d0) \in Nat
         /\ Links(Tail(f), un, qu, typed, a + Len(d0), d)
    BY <2>1, <2>7, <2>8, LinksTake
  <2> HIDE DEF d0
  <2>11. a + Len(d0) \in 0..Len(typed)
    BY <2>8, <2>10 DEF Part
  <2>12. /\ Part(input', typed, 0)
         /\ \E b \in 0..Len(typed) :
              /\ Links(frames'["listener"], un, qu, typed, b, d)
              /\ Len(input') <= b /\ (shell # "exited" => Len(input') = b)
    <3>1. CASE input' = input /\ frames'["listener"] = f
      BY <2>6, <2>7, <2>8, <3>1
    <3>2. CASE shell = "exited" /\ input' = input /\ frames'["listener"] = Tail(f)
      BY <2>6, <2>8, <2>10, <2>11, <3>2
    <3>3. CASE shell # "exited" /\ input' = input \o d0 /\ frames'["listener"] = Tail(f)
      <4>1. Part(input \o d0, typed, 0) /\ Len(input \o d0) = a + Len(d0)
        BY <2>6, <2>8, <2>9, <2>10, <3>3, PartJoins
      <4> QED BY <2>10, <2>11, <3>3, <4>1
    <3> QED BY <2>2, <3>1, <3>2, <3>3
  <2>13. PICK b \in 0..Len(typed) :
              /\ Links(frames'["listener"], un, qu, typed, b, d)
              /\ Len(input') <= b /\ (shell # "exited" => Len(input') = b)
    BY <2>12
  <2>14. Links(frames'[Other("client")], buffer'[Other("client")] \o wire'["client"],
               queue'["client"], typed', b, d)
    BY <2>3, <2>13, EndsAre DEF un, qu, Units
  <2>15. KeysInv'
    BY <2>3, <2>6, <2>12, <2>13, <2>14 DEF KeysInv, LinksOf, Units
  <2> QED BY <1>3, <2>4, <2>5, <2>15
<1> QED BY <1>4, <1>5

-----------------------------------------------------------------------------
(* The steps that put something under way. *)
(* What else stays when a user types: the other direction. *)
LEMMA OtherWay ==
  ASSUME IInv, UNCHANGED <<sender, streamVars, readVars, shellVars, client, server>>,
         queue'["listener"] = queue["listener"]
  PROVE  OutputInv'
<1>1. UNCHANGED <<wire, buffer, frames, shown, printed, cut, sender>> /\ OutputInv
  BY DEF streamVars, readVars, shellVars, IInv
<1>2. Units("listener")' = Units("listener")
  BY <1>1 DEF Units
<1>3. \A d : LinksOf("listener", Numbers(printed), Len(shown), d) =>
               LinksOf("listener", Numbers(printed), Len(shown), d)'
  BY <1>1, <1>2 DEF LinksOf
<1> QED BY <1>1, <1>3 DEF OutputInv

(* A chunk is typed: its keys but the held ones join the chain. *)
LEMMA DataType ==
  ASSUME IInv, TypeInv', Type
  PROVE  UnderInv' /\ KeysInv' /\ OutputInv' /\ KillInv'
<1>1. /\ TypeInv /\ UnderInv /\ KeysInv /\ KillInv /\ Arrays /\ ClosedInv
  BY DEF IInv, TypeInv, ControlInv
<1>2. /\ UNCHANGED <<resizes, sender, streamVars, readVars, shellVars, client, server>>
      /\ client = "running" /\ ~quitting
  BY DEF Type
<1>3. PICK chunk \in BoundedSeq(Keys, MaxKeys - Len(typed) - resizes) :
        LET p == InteractiveBytes(chunk)
        IN  /\ typed' = typed \o chunk /\ escape' = p.escape /\ quitting' = p.quit
            /\ Enqueue("client", Sends(p))
  BY DEF Type
<1>4. PICK p : p = InteractiveBytes(chunk)
  OBVIOUS
<1>5. /\ typed' = typed \o chunk /\ escape' = p.escape /\ quitting' = p.quit
      /\ Enqueue("client", Sends(p))
  BY <1>3, <1>4
<1>6. chunk \in Seq(Keys) /\ typed \in Seq(Keys) /\ escape \in BOOLEAN
  <2>1. UserTypes
    BY <1>1 DEF TypeInv
  <2>2. MaxKeys - Len(typed) - resizes \in Int
    BY <2>1, BoundsAssumption DEF UserTypes
  <2> QED BY <2>1, <2>2, ChunkType DEF UserTypes
<1>7. /\ Len(typed) \in Nat /\ Len(typed') \in Nat /\ Len(typed) <= Len(typed')
      /\ \A i \in 1..Len(typed) : typed[i] = typed'[i]
  BY <1>5, <1>6
<1>8. queue'["listener"] = queue["listener"]
      /\ queue'["client"] = IF sender["client"] = "failed" THEN queue["client"]
                            ELSE queue["client"] \o Sends(p)
  BY <1>1, <1>5, EndsAre DEF Arrays, Enqueue
<1>9. UnderInv'
  BY <1>1, <1>2, UnderSame DEF streamVars, readVars
<1>10. OutputInv'
  BY <1>2, <1>8, OtherWay
<1>11. KillInv'
  BY <1>1, <1>2 DEF KillInv, streamVars
<1>12. PICK a \in 0..Len(typed), d, g \in Nat :
         /\ LinksOf("client", typed, a, d)
         /\ Len(input) <= a /\ (shell # "exited" => Len(input) = a)
         /\ Given(typed, Len(typed), escape, quitting, g)
         /\ d <= g
         /\ d = g \/ (sender["client"] = "failed" /\ (cut \/ client # "running"))
  BY <1>1 DEF KeysInv
<1>13. /\ p \in Status
       /\ \E h \in Nat : /\ Given(typed', Len(typed'), p.escape, p.quit, h)
                         /\ g + Len(p.bytes) = h
                         /\ Part(p.bytes, typed', g)
  <2>1. PICK st : st = ScanStart
    OBVIOUS
  <2>2. st \in Status /\ ~st.quit /\ st.bytes = << >>
    BY <1>6, <2>1 DEF ScanStart, Status
  <2>3. Given(typed, Len(typed), st.escape, st.quit, g)
    BY <1>2, <1>12, <2>1 DEF Given, ScanStart
  <2>4. p = Scan(st, chunk)[Len(chunk)]
    BY <1>4, <2>1 DEF InteractiveBytes
  <2>5. PICK t : t = typed \o chunk
    OBVIOUS
  <2>6. p \in Status /\ GivenWith(p, t, g)
    BY <1>6, <2>2, <2>3, <2>4, <2>5, GivenNext
  <2> QED BY <1>5, <2>5, <2>6 DEF GivenWith
<1>14. PICK h \in Nat : /\ Given(typed', Len(typed'), escape', quitting', h)
                        /\ g + Len(p.bytes) = h
                        /\ Part(p.bytes, typed', g)
  BY <1>5, <1>13
<1> DEFINE f == frames["listener"]
           un == Units("client")
           qu == queue["client"]
           V == Values("client")
<1>15. UnderWay(V, f, un, qu) /\ Links(f, un, qu, typed, a, d)
  BY <1>1, <1>12, EndsAre DEF UnderInv, LinksOf
<1>16. /\ frames'[Other("client")] = f /\ Units("client")' = un
       /\ sender' = sender /\ cut' = cut /\ client' = client /\ input' = input
       /\ shell' = shell
  BY <1>2, EndsAre DEF Units, streamVars, readVars, shellVars
<1> HIDE DEF f, un, qu, V
<1>17. Links(f, un, qu, typed', a, d)
  BY <1>7, <1>15, LinksLonger
<1>18. Part(input', typed', 0) /\ a \in 0..Len(typed')
  <2>1. Part(input, typed, 0) /\ Len(input) \in Nat
    BY <1>1, Lengths DEF KeysInv
  <2>2. \A j \in 1..Len(input) : j \in 1..Len(typed) /\ 0 + j = j
    BY <1>7, <2>1 DEF Part
  <2>3. \A j \in 1..Len(input) : input[j] = typed'[0 + j]
    BY <1>7, <2>1, <2>2 DEF Part
  <2>4. 0 + Len(input) <= Len(typed')
    BY <1>7, <2>1 DEF Part
  <2> QED BY <1>7, <1>12, <1>16, <2>3, <2>4 DEF Part
<1>19. \E e \in Nat : /\ Links(f, un, queue'["client"], typed', a, e)
                      /\ e <= h
                      /\ e = h \/ (sender["client"] = "failed" /\ cut)
  <2>1. CASE sender["client"] = "failed"
    <3>1. cut
      BY <1>1, <1>2, <2>1 DEF ClosedInv
    <3>2. d <= h
      BY <1>12, <1>13, <1>14 DEF Status
    <3>3. queue'["client"] = qu
      BY <1>8, <2>1 DEF qu
    <3> QED BY <1>12, <1>17, <2>1, <3>1, <3>2, <3>3
  <2>2. CASE sender["client"] # "failed"
    <3>1. d = g
      BY <1>12, <2>2
    <3>2. queue'["client"] = qu \o Sends(p)
      BY <1>8, <2>2 DEF qu
    <3>3. Links(f, un, queue'["client"], typed', a, h)
      <4> DEFINE D == Data(p.bytes)
                 T == Item(V)
      <4>1. /\ D \in T /\ Closing \in T /\ D.data = p.bytes /\ Closing.data = << >>
        BY <1>13, FrameIs DEF Data, Closing, Item, Status, Values, V
      <4>2. \/ Sends(p) = << >> /\ p.bytes = << >>
            \/ Sends(p) = <<D>>
            \/ Sends(p) = <<Closing>> /\ p.bytes = << >>
            \/ Sends(p) = <<D, Closing>>
        <5> HIDE DEF T
        <5>1. \/ ~p.quit /\ Sends(p) = << >> /\ p.bytes = << >>
              \/ ~p.quit /\ Sends(p) = <<Data(p.bytes)>>
              \/ p.quit /\ Sends(p) = <<Closing>> /\ p.bytes = << >>
              \/ p.quit /\ Sends(p) = <<Data(p.bytes), Closing>>
          BY <1>13, SendsAre, Zenon
        <5> QED BY <5>1
      <4> HIDE DEF D, T
      <4>3. qu \in Seq(T)
        BY <1>15 DEF UnderWay, T
      <4>4. /\ qu \o << >> = qu /\ qu \o <<D>> = Append(qu, D)
            /\ qu \o <<Closing>> = Append(qu, Closing)
            /\ qu \o <<D, Closing>> = Append(Append(qu, D), Closing)
        BY <4>1, <4>3, Appends
      <4>5. p.bytes = << >> => h = d
        BY <1>14, <3>1
      <4>6. Links(f, un, Append(qu, D), typed', a, h) /\ UnderWay(V, f, un, Append(qu, D))
        <5>1. Part(D.data, typed', d) /\ d + Len(D.data) = h /\ a \in Nat
          BY <1>12, <1>14, <3>1, <4>1
        <5>2. D \in Item(V)
          BY <4>1 DEF T
        <5>3. /\ Links(f, un, Append(qu, D), typed', a, d + Len(D.data))
              /\ UnderWay(V, f, un, Append(qu, D))
          BY <1>12, <1>15, <1>17, <5>1, <5>2, LinksGive
        <5> QED BY <5>1, <5>3
      <4>7. ASSUME NEW q, NEW e \in Nat, UnderWay(V, f, un, q), Links(f, un, q, typed', a, e)
            PROVE  Links(f, un, Append(q, Closing), typed', a, e)
        <5>1. e \in a..Len(typed')
          BY <1>7, <1>18, <4>7, LinksBounds
        <5>2. Part(Closing.data, typed', e) /\ e + Len(Closing.data) = e /\ a \in Nat
          BY <1>7, <1>12, <4>1, <4>7, <5>1 DEF Part
        <5>3. Closing \in Item(V)
          BY <4>1 DEF T
        <5>4. Links(f, un, Append(q, Closing), typed', a, e + Len(Closing.data))
          BY <4>7, <5>2, <5>3, LinksGive
        <5> QED BY <5>2, <5>4
      <4>8. p.bytes = << >> => Links(f, un, Append(qu, Closing), typed', a, h)
        BY <1>12, <1>15, <1>17, <4>5, <4>7
      <4>9. Links(f, un, Append(Append(qu, D), Closing), typed', a, h)
        BY <4>6, <4>7
      <4>10. p.bytes = << >> => Links(f, un, qu, typed', a, h)
        BY <1>17, <4>5
      <4> QED BY <3>2, <4>2, <4>4, <4>6, <4>8, <4>9, <4>10
    <3> QED BY <3>3
  <2> QED BY <2>1, <2>2
<1>20. PICK e \in Nat : /\ Links(f, un, queue'["client"], typed', a, e)
                        /\ e <= h
                        /\ e = h \/ (sender["client"] = "failed" /\ cut)
  BY <1>19
<1>21. LinksOf("client", typed, a, e)'
  BY <1>16, <1>20 DEF LinksOf
<1>22. KeysInv'
  BY <1>12, <1>14, <1>16, <1>18, <1>20, <1>21 DEF KeysInv
<1> QED BY <1>9, <1>10, <1>11, <1>22

(* A resize joins the chain and carries nothing. *)
LEMMA DataResize ==
  ASSUME IInv, TypeInv', Resize
  PROVE  UnderInv' /\ KeysInv' /\ OutputInv' /\ KillInv'
<1>1. /\ TypeInv /\ UnderInv /\ KeysInv /\ KillInv /\ Arrays
  BY DEF IInv, TypeInv
<1>2. UNCHANGED <<typed, escape, quitting, sender, streamVars, readVars, shellVars,
                  client, server>>
      /\ Enqueue("client", <<Resized>>)
  BY DEF Resize
<1>3. queue'["listener"] = queue["listener"]
      /\ queue'["client"] = IF sender["client"] = "failed" THEN queue["client"]
                            ELSE queue["client"] \o <<Resized>>
  BY <1>1, <1>2, EndsAre DEF Arrays, Enqueue
<1>4. UnderInv'
  BY <1>1, <1>2, UnderSame DEF streamVars, readVars
<1>5. OutputInv'
  BY <1>2, <1>3, OtherWay
<1>6. KillInv'
  BY <1>1, <1>2 DEF KillInv, streamVars, readVars
<1>7. KeysInv'
  <2>1. PICK a \in 0..Len(typed), d, g \in Nat :
          /\ LinksOf("client", typed, a, d)
          /\ Len(input) <= a /\ (shell # "exited" => Len(input) = a)
          /\ Given(typed, Len(typed), escape, quitting, g)
          /\ d <= g
          /\ d = g \/ (sender["client"] = "failed" /\ (cut \/ client # "running"))
    BY <1>1 DEF KeysInv
  <2> DEFINE f == frames["listener"]
             un == Units("client")
             qu == queue["client"]
             V == Values("client")
  <2>2. UnderWay(V, f, un, qu) /\ Links(f, un, qu, typed, a, d)
    BY <1>1, <2>1, EndsAre DEF UnderInv, LinksOf
  <2>3. /\ frames'[Other("client")] = f /\ Units("client")' = un
        /\ UNCHANGED <<typed, escape, quitting, sender, cut, client, input, shell>>
    BY <1>2, EndsAre DEF Units, streamVars, readVars, shellVars
  <2>4. queue'["client"] = IF sender["client"] = "failed" THEN qu ELSE qu \o <<Resized>>
    BY <1>3
  <2>5. Resized \in Item(V) /\ Resized.data = << >>
    BY DEF Resized, Item
  <2>6. Len(typed) \in Nat
    BY <1>1, Lengths
  <2> HIDE DEF f, un, qu, V
  <2>7. d \in a..Len(typed)
    BY <2>1, <2>2, <2>6, LinksBounds
  <2>8. Part(Resized.data, typed, d) /\ d + Len(Resized.data) = d /\ a \in Nat
    BY <2>1, <2>5, <2>6, <2>7 DEF Part
  <2>9. Links(f, un, Append(qu, Resized), typed, a, d + Len(Resized.data))
    BY <2>1, <2>2, <2>5, <2>8, LinksGive
  <2>10. qu \o <<Resized>> = Append(qu, Resized)
    BY <2>2, <2>5, Appends DEF UnderWay
  <2>11. Links(f, un, queue'["client"], typed, a, d)
    BY <2>2, <2>4, <2>8, <2>9, <2>10
  <2>12. LinksOf("client", typed, a, d)'
    BY <2>3, <2>11 DEF LinksOf
  <2> QED BY <1>1, <2>1, <2>3, <2>12 DEF KeysInv
<1> QED BY <1>4, <1>5, <1>6, <1>7

(* What the shell prints joins the chain. *)
LEMMA DataOnData ==
  ASSUME IInv, TypeInv', OnData
  PROVE  UnderInv' /\ KeysInv' /\ OutputInv' /\ KillInv'
<1>1. /\ TypeInv /\ UnderInv /\ KeysInv /\ OutputInv /\ KillInv /\ Arrays /\ ClosedInv
  BY DEF IInv, TypeInv, ControlInv
<1>2. /\ UNCHANGED <<userVars, sender, streamVars, readVars, shell, client, server>>
      /\ Enqueue("listener", <<Data(<<printed + 1>>)>>)
      /\ printed' = printed + 1
  BY DEF OnData
<1>3. queue'["client"] = queue["client"]
      /\ queue'["listener"] = IF sender["listener"] = "failed" THEN queue["listener"]
                              ELSE queue["listener"] \o <<Data(<<printed + 1>>)>>
  BY <1>1, <1>2, EndsAre DEF Arrays, Enqueue
<1>4. UnderInv'
  BY <1>1, <1>2, UnderSame DEF streamVars, readVars
<1>5. KillInv'
  BY <1>1, <1>2 DEF KillInv, userVars, streamVars, readVars
<1>6. KeysInv'
  <2>1. UNCHANGED <<typed, escape, quitting, sender, cut, client, input, shell, wire,
                    buffer, frames>>
    BY <1>2 DEF userVars, streamVars, readVars
  <2>2. Units("client")' = Units("client")
    BY <2>1 DEF Units
  <2>3. \A a, d : LinksOf("client", typed, a, d) => LinksOf("client", typed, a, d)'
    BY <1>3, <2>1, <2>2 DEF LinksOf
  <2> QED BY <1>1, <2>1, <2>3 DEF KeysInv
<1>7. OutputInv'
  <2> DEFINE f == frames["client"]
             un == Units("listener")
             qu == queue["listener"]
             V == Values("listener")
             n == printed
             s == Numbers(n)
             t == Numbers(n + 1)
             D == Data(<<n + 1>>)
             a == Len(shown)
  <2>1. PICK d \in Nat :
          /\ LinksOf("listener", s, a, d)
          /\ d <= n
          /\ d = n \/ (sender["listener"] = "failed" /\ cut)
    BY <1>1 DEF OutputInv
  <2>2. UnderWay(V, f, un, qu) /\ Links(f, un, qu, s, a, d)
    BY <1>1, <2>1, EndsAre DEF UnderInv, LinksOf
  <2>3. /\ frames'[Other("listener")] = f /\ Units("listener")' = un
        /\ UNCHANGED <<sender, cut, shown>>
    BY <1>2, EndsAre DEF Units, streamVars, readVars
  <2>4. n \in Nat /\ a \in Nat /\ n + 1 \in Nat
    BY <1>1, Lengths
  <2>5. /\ Len(s) = n /\ Len(t) = n + 1 /\ \A i \in 1..n : s[i] = t[i]
        /\ t[n + 1] = n + 1
    <3>1. (\A i \in 1..n : s[i] = i) /\ Len(s) = n
      BY <2>4, NumbersAre
    <3>2. (\A i \in 1..n + 1 : t[i] = i) /\ Len(t) = n + 1
      BY <2>4, NumbersAre
    <3>3. \A i \in 1..n : i \in 1..n + 1
      BY <2>4
    <3> QED BY <2>4, <3>1, <3>2, <3>3
  <2>6. D \in Item(V) /\ D.data = <<n + 1>>
    <3>1. n + 1 \in 1..MaxOutput
      BY <1>1, BoundsAssumption DEF OnData, TypeInv, OtherTypes
    <3>2. <<n + 1>> \in Seq(V)
      BY <3>1 DEF Values
    <3> QED BY <3>2 DEF Data, Item
  <2>7. queue'["listener"] = IF sender["listener"] = "failed" THEN qu ELSE qu \o <<D>>
    BY <1>3
  <2>8. /\ \A i \in 1..a : shown[i] = i
        /\ a <= n /\ printed' = n + 1
    BY <1>1, <1>2 DEF OutputInv
  <2> HIDE DEF f, un, qu, V, s, t, D
  <2>9. Links(f, un, qu, t, a, d)
    <3>1. Len(s) \in Nat /\ Len(t) \in Nat /\ Len(s) <= Len(t)
      BY <2>4, <2>5
    <3>2. \A i \in 1..Len(s) : s[i] = t[i]
      BY <2>5
    <3> QED BY <2>2, <3>1, <3>2, LinksLonger
  <2>10. \E e \in Nat : /\ Links(f, un, queue'["listener"], t, a, e)
                        /\ e <= n + 1
                        /\ e = n + 1 \/ (sender["listener"] = "failed" /\ cut)
    <3>1. CASE sender["listener"] = "failed"
      <4>1. d <= n + 1 /\ cut
        BY <1>1, <2>1, <2>4, <3>1 DEF ClosedInv
      <4> QED BY <2>7, <2>9, <3>1, <4>1
    <3>2. CASE sender["listener"] # "failed"
      <4>1. d = n
        BY <2>1, <3>2
      <4>2. Part(D.data, t, d) /\ d + Len(D.data) = n + 1
        <5>1. Len(D.data) = 1 /\ D.data[1] = n + 1
          BY <2>6
        <5> QED BY <2>4, <2>5, <4>1, <5>1 DEF Part
      <4>3. Links(f, un, Append(qu, D), t, a, d + Len(D.data))
        BY <2>2, <2>4, <2>6, <2>9, <4>2, LinksGive
      <4>4. qu \o <<D>> = Append(qu, D)
        BY <2>2, <2>6, Appends DEF UnderWay
      <4>5. Links(f, un, queue'["listener"], t, a, n + 1)
        BY <2>7, <3>2, <4>2, <4>3, <4>4
      <4> QED BY <2>4, <4>5
    <3> QED BY <3>1, <3>2
  <2>11. PICK e \in Nat : /\ Links(f, un, queue'["listener"], t, a, e)
                          /\ e <= n + 1
                          /\ e = n + 1 \/ (sender["listener"] = "failed" /\ cut)
    BY <2>10
  <2>12. Numbers(printed)' = t
    BY <2>8 DEF t
  <2>13. LinksOf("listener", Numbers(printed), Len(shown), e)'
    BY <2>3, <2>11, <2>12 DEF LinksOf
  <2>14. \A i \in 1..Len(shown') : shown'[i] = i
    BY <2>3, <2>8
  <2>15. Len(shown') <= printed'
    BY <2>3, <2>4, <2>8
  <2>16. e <= printed' /\ (e = printed' \/ (sender'["listener"] = "failed" /\ cut'))
    BY <2>3, <2>8, <2>11
  <2> QED BY <2>11, <2>13, <2>14, <2>15, <2>16 DEF OutputInv
<1> QED BY <1>4, <1>5, <1>6, <1>7

(* A stuttering step keeps what is under way. *)
LEMMA DataSame ==
  ASSUME IInv, UNCHANGED vars
  PROVE  UnderInv' /\ KeysInv' /\ OutputInv' /\ KillInv'
<1>1. /\ UNCHANGED <<typed, escape, quitting, sender, cut, client, server, input, shell,
                     queue, wire, buffer, frames, shown, printed, loop>>
      /\ UnderInv /\ KeysInv /\ OutputInv /\ KillInv
  BY DEF IInv, vars, userVars, sendVars, streamVars, readVars, shellVars
<1>2. \A e : Units(e)' = Units(e)
  BY <1>1 DEF Units
<1>3. UnderInv'
  BY <1>1, <1>2 DEF UnderInv
<1>4. KeysInv'
  <2>1. \A a, d : LinksOf("client", typed, a, d) => LinksOf("client", typed, a, d)'
    BY <1>1, <1>2 DEF LinksOf
  <2> QED BY <1>1, <2>1 DEF KeysInv
<1>5. OutputInv'
  <2>1. \A d : LinksOf("listener", Numbers(printed), Len(shown), d) =>
                 LinksOf("listener", Numbers(printed), Len(shown), d)'
    BY <1>1, <1>2 DEF LinksOf
  <2> QED BY <1>1, <2>1 DEF OutputInv
<1>6. KillInv'
  BY <1>1 DEF KillInv
<1> QED BY <1>3, <1>4, <1>5, <1>6

(* Every step keeps the invariant. *)
LEMMA IInvStep == IInv /\ [Next]_vars => IInv'
<1> SUFFICES ASSUME IInv, [Next]_vars PROVE IInv'
  OBVIOUS
<1>1. TypeInv' /\ ControlInv'
  BY TypeStep, ControlStep DEF IInv
<1>2. UnderInv' /\ KeysInv' /\ OutputInv' /\ KillInv'
  BY <1>1, Steps, DataSame, DataType, DataResize, DataOnData, DataReading, DataMoves,
     DataControl
<1> QED BY <1>1, <1>2 DEF IInv

-----------------------------------------------------------------------------
(* How the sessions end. *)
(* Who goes on when, and what a sender or a session has done before it     *)
(* stopped.                                                                *)
GoesInv ==
  /\ loop["listener"] # "draining"
  /\ server # "racing" => shell # "running"
  /\ quitting => \/ HasClose(queue["client"]) \/ closed["client"]
                 \/ sender["client"] = "failed"
  /\ loop["client"] = "failed" => cut
  /\ loop["listener"] = "failed" => cut \/ server # "racing"
  /\ server \in {"closing", "waiting", "returned"} => closed["listener"]
  /\ FailsOnlyIfCut

(* A decoder keeps less than a frame. *)
KeptInv == \A e \in Ends : Len(buffer[e]) <= 1

GoesOnInv == IInv /\ GoesInv /\ KeptInv

(* Nobody has stopped at first. *)
LEMMA GoesInit == Init => GoesInv /\ KeptInv
BY EndsAre DEF Init, GoesInv, KeptInv, FailsOnlyIfCut

(* The decoder keeps less than a frame. *)
LEMMA KeptStep ==
  ASSUME IInv, KeptInv, [Next]_vars
  PROVE  KeptInv'
<1>1. TypeInv /\ Arrays
  BY DEF IInv, TypeInv
<1>2. CASE buffer' = buffer
  BY <1>2 DEF KeptInv
<1>3. ASSUME NEW e \in Ends, Receive(e) PROVE KeptInv'
  <2>1. PICK n \in 1..Len(wire[Other(e)]) : Push(e, SubSeq(wire[Other(e)], 1, n))
    BY <1>3 DEF Receive
  <2> DEFINE w == SubSeq(wire[Other(e)], 1, n)
             all == buffer[e] \o w
             h == Len(all) \div 2
             T == Piece(Values(Other(e))) \X {1, 2}
  <2>2. buffer' = [buffer EXCEPT ![e] = SubSeq(all, 2 * h + 1, Len(all))]
    BY <2>1 DEF Push
  <2>3. buffer[e] \in Seq(T) /\ wire[Other(e)] \in Seq(T)
    BY <1>1, EndsAre, UnderTypes
  <2>4. w \in Seq(T)
    BY <2>3
  <2>5. all \in Seq(T)
    BY <2>3, <2>4
  <2> HIDE DEF w, all, h, T
  <2>6. Len(all) \in Nat
    BY <2>5
  <2>7. h \in Nat /\ 2 * h <= Len(all) /\ Len(all) <= 2 * h + 1
    BY <2>6, Halves DEF h
  <2>8. Len(SubSeq(all, 2 * h + 1, Len(all))) <= 1
    BY <2>5, <2>6, <2>7
  <2> QED BY <1>1, <2>2, <2>8 DEF KeptInv, Arrays
<1>4. buffer' = buffer \/ \E e \in Ends : Receive(e)
  BY Steps DEF vars, Type, Resize, OnData, ClientHandles, ServerHandles, Transmit, OnDrain,
     ShellExits, StreamBreaks, ReceiveEnd, OutputDrains, ClientEnds, ClientLeaves, RaceEnds,
     KilledExits, ServerCloses, ServerClosed, ServerReturns, readVars
<1> QED BY <1>2, <1>3, <1>4

(* A quit is in the queue until it closes the stream. *)
LEMMA GoesTransmit ==
  ASSUME IInv, GoesInv, NEW e \in Ends, Transmit(e)
  PROVE  GoesInv'
<1>1. TypeInv /\ Arrays /\ closed \in [Ends -> BOOLEAN] /\ queue[e] \in Seq(Items(e))
  BY DEF IInv, TypeInv, OtherTypes, SendTypes
<1>2. /\ queue[e] # << >> /\ sender[e] = "ok"
      /\ UNCHANGED <<userVars, cut, readVars, shellVars, client, server>>
  BY DEF Transmit
<1>3. \/ /\ Head(queue[e]) = Closing
         /\ closed' = [closed EXCEPT ![e] = TRUE] /\ sender' = sender
         /\ \A x \in Ends : x # e => queue'[x] = queue[x]
      \/ /\ closed' = closed
         /\ sender' = [sender EXCEPT ![e] = "failed"]
         /\ \A x \in Ends : x # e => queue'[x] = queue[x]
      \/ /\ Head(queue[e]) # Closing /\ closed' = closed
         /\ \E v \in {"ok", "full"} : sender' = [sender EXCEPT ![e] = v]
         /\ queue' = [queue EXCEPT ![e] = Tail(queue[e])]
  BY <1>1, <1>2 DEF Transmit, Breaks, Arrays
<1>4. /\ \A x \in Ends : closed[x] => closed'[x]
      /\ \A x \in Ends : sender[x] = "failed" => sender'[x] = "failed"
  BY <1>1, <1>2, <1>3 DEF Arrays
<1>5. HasClose(queue["client"]) =>
        HasClose(queue'["client"]) \/ closed'["client"] \/ sender'["client"] = "failed"
  <2>1. CASE e # "client"
    <3>1. queue'["client"] = queue["client"]
      BY <1>1, <1>3, <2>1, EndsAre DEF Arrays
    <3> QED BY <3>1
  <2>2. CASE e = "client"
    <3> DEFINE q == queue["client"]
    <3>1. CASE Head(q) # Closing /\ queue'["client"] = Tail(q)
      <4>1. q \in Seq(Items(e)) /\ q # << >>
        BY <1>1, <1>2, <2>2
      <4> HIDE DEF q
      <4>2. /\ Len(q) \in Nat /\ Len(Tail(q)) = Len(q) - 1 /\ Head(q) = q[1]
            /\ \A i \in 1..Len(Tail(q)) : Tail(q)[i] = q[i + 1]
        BY <4>1
      <4>3. ASSUME NEW i \in 1..Len(q), q[i] = Closing PROVE HasClose(Tail(q))
        <5>1. i # 1
          BY <3>1, <4>2, <4>3
        <5>2. i - 1 \in 1..Len(Tail(q)) /\ (i - 1) + 1 = i
          BY <4>2, <5>1
        <5>3. Tail(q)[i - 1] = Closing
          BY <4>2, <4>3, <5>2
        <5> QED BY <5>2, <5>3 DEF HasClose
      <4> QED BY <3>1, <4>3 DEF HasClose, q
    <3>2. CASE closed'["client"] \/ sender'["client"] = "failed"
      BY <3>2
    <3> QED BY <1>1, <1>3, <2>2, <3>1, <3>2 DEF Arrays
  <2> QED BY <2>1, <2>2
<1> QED BY <1>2, <1>4, <1>5, EndsAre
        DEF GoesInv, FailsOnlyIfCut, userVars, readVars, shellVars

(* A sender fails only over a stream that was cut. *)
LEMMA GoesOnDrain ==
  ASSUME IInv, GoesInv, NEW e \in Ends, OnDrain(e)
  PROVE  GoesInv'
<1>1. Arrays
  BY DEF IInv, TypeInv
<1>2. /\ sender[e] = "full"
      /\ UNCHANGED <<userVars, streamVars, readVars, shellVars, client, server>>
      /\ \/ sender' = [sender EXCEPT ![e] = "ok"] /\ queue' = queue
         \/ sender' = [sender EXCEPT ![e] = "failed"] /\ queue' = [queue EXCEPT ![e] = << >>]
  BY DEF OnDrain, Breaks
<1>3. \/ queue'["client"] = queue["client"] /\ sender["client"] # "failed"
      \/ queue'["client"] = queue["client"] /\ sender'["client"] = sender["client"]
      \/ sender'["client"] = "failed"
  BY <1>1, <1>2, EndsAre DEF Arrays
<1> QED BY <1>2, <1>3
        DEF GoesInv, FailsOnlyIfCut, userVars, streamVars, readVars, shellVars

(* What is added to a queue leaves a close() in it; a quit adds one. *)
LEMMA GoesEnqueue ==
  ASSUME IInv, GoesInv, Type \/ Resize \/ OnData
  PROVE  GoesInv'
<1>1. /\ TypeInv /\ Arrays /\ UserTypes
      /\ queue["client"] \in Seq(Items("client"))
  BY EndsAre DEF IInv, TypeInv, SendTypes
<1>2. UNCHANGED <<sender, streamVars, readVars, shell, client, server>>
  BY DEF Type, Resize, OnData, shellVars
<1>3. quitting' => \/ HasClose(queue'["client"]) \/ closed["client"]
                   \/ sender["client"] = "failed"
  <2>1. CASE OnData
    <3>1. quitting' = quitting /\ queue'["client"] = queue["client"]
      BY <1>1, <2>1, EndsAre DEF OnData, userVars, Enqueue, Arrays
    <3> QED BY <3>1 DEF GoesInv
  <2>2. CASE Resize
    <3>1. quitting' = quitting
          /\ queue'["client"] = IF sender["client"] = "failed" THEN queue["client"]
                                ELSE queue["client"] \o <<Resized>>
      BY <1>1, <2>2, EndsAre DEF Resize, Enqueue, Arrays
    <3>2. Resized \in Items("client")
      BY FrameIs DEF Items
    <3>3. queue["client"] \o <<Resized>> = Append(queue["client"], Resized)
      BY <1>1, <3>2, Appends
    <3>4. HasClose(queue["client"]) => HasClose(Append(queue["client"], Resized))
      BY <1>1, AppendClose
    <3> QED BY <3>1, <3>3, <3>4 DEF GoesInv
  <2>3. CASE Type
    <3>1. PICK chunk \in BoundedSeq(Keys, MaxKeys - Len(typed) - resizes) :
            LET p == InteractiveBytes(chunk)
            IN  quitting' = p.quit /\ Enqueue("client", Sends(p))
      BY <2>3 DEF Type
    <3>2. PICK p : p = InteractiveBytes(chunk)
      OBVIOUS
    <3>3. p \in Status
      <4>1. MaxKeys - Len(typed) - resizes \in Int
        BY <1>1, BoundsAssumption DEF UserTypes
      <4>2. chunk \in Seq(Keys)
        BY <4>1, ChunkType
      <4>3. ScanStart \in Status
        BY <1>1 DEF ScanStart, Status, UserTypes
      <4> QED BY <3>2, <4>2, <4>3, ScanType DEF InteractiveBytes
    <3>4. quitting' = p.quit
          /\ queue'["client"] = IF sender["client"] = "failed" THEN queue["client"]
                                ELSE queue["client"] \o Sends(p)
      BY <1>1, <3>1, <3>2, EndsAre DEF Enqueue, Arrays
    <3> DEFINE q == queue["client"]
               D == Data(p.bytes)
               T == Items("client")
    <3>5. q \in Seq(T) /\ D \in T /\ Closing \in T
      <4>1. p.bytes \in Seq(Values("client"))
        BY <3>3 DEF Status, Values
      <4> QED BY <1>1, <4>1, FrameIs DEF Items
    <3>6. p.quit => Sends(p) = <<Closing>> \/ Sends(p) = <<D, Closing>>
      BY <3>3, SendsAre
    <3> HIDE DEF q, D, T
    <3>7. /\ q \o <<Closing>> = Append(q, Closing)
          /\ q \o <<D, Closing>> = Append(Append(q, D), Closing)
          /\ Append(q, D) \in Seq(T)
      BY <3>5, Appends
    <3>8. HasClose(Append(q, Closing)) /\ HasClose(Append(Append(q, D), Closing))
      BY <3>5, <3>7, AppendClose
    <3>9. p.quit => HasClose(q \o Sends(p))
      BY <3>6, <3>7, <3>8
    <3> QED BY <3>4, <3>9 DEF q
  <2> QED BY <2>1, <2>2, <2>3
<1> QED BY <1>2, <1>3 DEF GoesInv, FailsOnlyIfCut, streamVars, readVars

(* A clean end finds no part of a frame. *)
LEMMA GoesReceiveEnd ==
  ASSUME IInv, GoesInv, KeptInv, NEW e \in Ends, ReceiveEnd(e)
  PROVE  GoesInv'
<1>1. TypeInv /\ Arrays /\ UnderInv
  BY DEF IInv, TypeInv
<1>2. /\ UNCHANGED <<userVars, sendVars, streamVars, shellVars, client, server>>
      /\ cut \/ (closed[Other(e)] /\ wire[Other(e)] = << >>)
      /\ \E v \in {"done", "failed"} :
           /\ loop' = [loop EXCEPT ![e] = v]
           /\ v = "failed" => buffer[e] # << >> \/ cut
  BY DEF ReceiveEnd
<1>3. wire[Other(e)] = << >> => buffer[e] = << >>
  <2> DEFINE T == Piece(Values(Other(e))) \X {1, 2}
             bu == buffer[e]
  <2>1. /\ Other(e) \in Ends /\ Other(Other(e)) = e
    BY EndsAre
  <2>2. Even(Units(Other(e)))
    BY <1>1, <2>1 DEF UnderInv, UnderWay
  <2>3. bu \in Seq(T)
    BY <1>1, <2>1, UnderTypes
  <2>4. Len(bu) <= 1
    BY DEF KeptInv
  <2>5. ASSUME wire[Other(e)] = << >> PROVE Even(bu)
    <3>1. Units(Other(e)) = bu \o << >>
      BY <2>1, <2>5 DEF Units
    <3> HIDE DEF bu, T
    <3>2. bu \o << >> = bu
      BY <2>3
    <3> QED BY <2>2, <3>1, <3>2
  <2> HIDE DEF bu, T
  <2>6. Len(bu) \in Nat /\ (Len(bu) = 0 => bu = << >>)
    BY <2>3
  <2>7. 1 % 2 # 0
    OBVIOUS
  <2>8. wire[Other(e)] = << >> => bu = << >>
    BY <2>4, <2>5, <2>6, <2>7 DEF Even
  <2> QED BY <2>8 DEF bu
<1>4. \E v \in {"done", "failed"} : loop' = [loop EXCEPT ![e] = v]
                                    /\ (v = "failed" => cut)
  BY <1>2, <1>3
<1>5. /\ loop'["listener"] # "draining"
      /\ loop'["client"] = "failed" => cut
      /\ loop'["listener"] = "failed" => cut \/ server # "racing"
  BY <1>1, <1>4, EndsAre DEF GoesInv, Arrays
<1> QED BY <1>2, <1>5
        DEF GoesInv, FailsOnlyIfCut, userVars, sendVars, streamVars, shellVars

(* A loop that receives goes on. *)
LEMMA GoesReceive ==
  ASSUME IInv, GoesInv, NEW e \in Ends, Receive(e)
  PROVE  GoesInv'
BY DEF Receive, GoesInv, FailsOnlyIfCut, userVars, sendVars, shellVars

(* Only a resize of a terminal that is gone fails a loop. *)
LEMMA GoesReading ==
  ASSUME IInv, GoesInv, ClientHandles \/ ServerHandles
  PROVE  GoesInv'
<1>1. Arrays
  BY DEF IInv, TypeInv
<1>2. UNCHANGED <<userVars, sendVars, streamVars, shellVars, client, server>>
  BY DEF ClientHandles, ServerHandles
<1>3. CASE ClientHandles
  <2>1. \E l \in {"reading", "draining"} : loop' = [loop EXCEPT !["client"] = l]
    BY <1>3 DEF ClientHandles
  <2>2. loop'["client"] # "failed" /\ loop'["listener"] = loop["listener"]
    BY <1>1, <2>1, EndsAre DEF Arrays
  <2> QED BY <1>2, <2>2
          DEF GoesInv, FailsOnlyIfCut, userVars, sendVars, streamVars, shellVars
<1>4. CASE ServerHandles
  <2>1. \/ loop' = loop
        \/ server # "racing" /\ loop' = [loop EXCEPT !["listener"] = "failed"]
    BY <1>4 DEF ServerHandles
  <2>2. /\ loop'["client"] = loop["client"]
        /\ \/ loop'["listener"] = loop["listener"]
           \/ server # "racing" /\ loop'["listener"] = "failed"
    BY <1>1, <2>1, EndsAre DEF Arrays
  <2> QED BY <1>2, <2>2
          DEF GoesInv, FailsOnlyIfCut, userVars, sendVars, streamVars, shellVars
<1> QED BY <1>3, <1>4

(* The sessions come to their ends, and fail only with the stream. *)
LEMMA GoesControl ==
  ASSUME IInv, GoesInv,
         \/ ShellExits \/ StreamBreaks \/ OutputDrains \/ ClientEnds \/ ClientLeaves
         \/ RaceEnds \/ KilledExits \/ ServerCloses \/ ServerClosed \/ ServerReturns
  PROVE  GoesInv'
<1>1. Arrays /\ ClosedInv /\ TypeInv
  BY DEF IInv, TypeInv, ControlInv
<1>2. CASE ShellExits \/ StreamBreaks \/ ClientLeaves
  <2>1. /\ UNCHANGED <<userVars, sendVars, closed, readVars, client, server>>
        /\ \/ shell' = "exited" /\ cut' = cut
           \/ shell' = shell /\ cut' = TRUE
    BY <1>2 DEF ShellExits, StreamBreaks, ClientLeaves, streamVars, shellVars
  <2> QED BY <2>1 DEF GoesInv, FailsOnlyIfCut, userVars, sendVars, readVars
<1>3. CASE OutputDrains
  <2>1. loop'["client"] = "reading" /\ loop'["listener"] = loop["listener"]
    BY <1>1, <1>3, EndsAre DEF OutputDrains, Arrays
  <2> QED BY <1>3, <2>1
          DEF OutputDrains, GoesInv, FailsOnlyIfCut, userVars, sendVars, streamVars, shellVars
<1>4. CASE ClientEnds
  <2>1. closed'["client"] /\ closed'["listener"] = closed["listener"]
    BY <1>1, <1>4, EndsAre DEF ClientEnds, Arrays
  <2>2. client' = "threw" => cut
    BY <1>4 DEF ClientEnds, GoesInv
  <2> QED BY <1>4, <2>1, <2>2
          DEF ClientEnds, GoesInv, FailsOnlyIfCut, userVars, sendVars, readVars, shellVars
<1>5. CASE RaceEnds
  <2>1. /\ UNCHANGED <<userVars, sendVars, streamVars, readVars, client>>
        /\ server' \in {"killing", "threw", "draining"}
        /\ server' = "threw" => loop["listener"] = "failed" /\ server = "racing"
        /\ shell' # "running"
    BY <1>5 DEF RaceEnds, Kill
  <2> QED BY <2>1 DEF GoesInv, FailsOnlyIfCut, userVars, sendVars, streamVars, readVars
<1>6. CASE KilledExits \/ ServerClosed \/ ServerReturns
  BY <1>6 DEF KilledExits, ServerClosed, ServerReturns, GoesInv, FailsOnlyIfCut, userVars,
              sendVars, streamVars, readVars, shellVars
<1>7. CASE ServerCloses
  <2>1. /\ UNCHANGED <<userVars, sendVars, cut, readVars, shellVars, client>>
        /\ server = "draining"
        /\ \/ server' = "threw" /\ cut /\ closed' = closed
           \/ /\ server' \in {"waiting", "closing"}
              /\ closed' = [closed EXCEPT !["listener"] = TRUE]
    BY <1>1, <1>7 DEF ServerCloses, ClosedInv
  <2>2. /\ closed'["client"] = closed["client"]
        /\ server' \in {"waiting", "closing"} => closed'["listener"]
    BY <1>1, <2>1, EndsAre DEF Arrays
  <2> QED BY <2>1, <2>2
          DEF GoesInv, FailsOnlyIfCut, userVars, sendVars, readVars, shellVars
<1> QED BY <1>2, <1>3, <1>4, <1>5, <1>6, <1>7

(* A stuttering step stops nobody. *)
LEMMA GoesSame ==
  ASSUME GoesInv, UNCHANGED vars
  PROVE  GoesInv'
BY DEF GoesInv, FailsOnlyIfCut, vars, userVars, sendVars, streamVars, readVars, shellVars

(* Every step keeps all of it. *)
LEMMA GoesOnStep == GoesOnInv /\ [Next]_vars => GoesOnInv'
<1> SUFFICES ASSUME GoesOnInv, [Next]_vars PROVE GoesOnInv'
  OBVIOUS
<1>1. IInv /\ GoesInv /\ KeptInv
  BY DEF GoesOnInv
<1>2. IInv' /\ KeptInv'
  BY <1>1, IInvStep, KeptStep
<1>3. GoesInv'
  BY <1>1, Steps, GoesSame, GoesTransmit, GoesOnDrain, GoesEnqueue, GoesReceiveEnd,
     GoesReceive, GoesReading, GoesControl
<1> QED BY <1>2, <1>3 DEF GoesOnInv

(***************************************************************************)
(* Some step of Runtime can be taken: its guards, one after the other.     *)
(***************************************************************************)
CanGo ==
  \/ \E e \in Ends :
       \/ queue[e] # << >> /\ sender[e] = "ok"
       \/ sender[e] = "full"
       \/ Idle(e) /\ (cut \/ closed[Other(e)] \/ wire[Other(e)] # << >>)
       \/ loop[e] = "reading" /\ frames[e] # << >>
  \/ loop["client"] = "draining"
  \/ client = "running" /\ loop["client"] \in {"done", "failed"}
  \/ client # "running" /\ ~cut
  \/ server = "racing" /\ (loop["listener"] \in {"done", "failed"} \/ shell = "exited")
  \/ server = "killing" /\ shell = "exited"
  \/ server = "draining" /\ (sender["listener"] = "failed" \/ Drained)
  \/ server = "closing"
  \/ server = "waiting" /\ loop["listener"] \in {"done", "failed"}
  \/ shell = "killed"

(* A session that is to end has ended, or something can be done for it: no *)
(* end of it waits for a step that nobody will take.                       *)
NobodyWaits ==
  quitting \/ client # "running" => CanGo \/ (client # "running" /\ shell = "exited")

(* The invariant gives a step that can be taken, guard by guard. *)
LEMMA Waits == GoesOnInv => NobodyWaits
<1> SUFFICES ASSUME GoesOnInv, quitting \/ client # "running", ~CanGo
             PROVE  client # "running" /\ shell = "exited"
  BY DEF NobodyWaits
<1>1. /\ TypeInv /\ ClosedInv /\ GoesInv /\ LoopTypes /\ OtherTypes /\ SendTypes
  BY DEF GoesOnInv, IInv, TypeInv, ControlInv
<1>2. /\ \A e \in Ends : loop[e] \in {"reading", "draining", "done", "failed"}
      /\ \A e \in Ends : sender[e] \in {"ok", "full", "failed"}
      /\ shell \in {"running", "killed", "exited"}
      /\ server \in {"racing", "killing", "draining", "closing", "waiting", "returned",
                     "threw"}
  BY <1>1 DEF LoopTypes, OtherTypes, SendTypes
<1>3. ASSUME NEW e \in Ends, cut \/ closed[Other(e)] \/ wire[Other(e)] # << >>
      PROVE  loop[e] # "reading"
  BY <1>3 DEF CanGo, Idle
<1>4. loop["listener"] # "draining" /\ loop["client"] # "draining"
  BY <1>1 DEF GoesInv, CanGo
<1>5. CASE client # "running"
  <2>1. cut
    BY <1>5 DEF CanGo
  <2>2. loop["listener"] \in {"done", "failed"}
    BY <1>2, <1>3, <1>4, <2>1, EndsAre
  <2>3. server # "racing"
    BY <2>2 DEF CanGo
  <2>4. shell # "running" /\ shell # "killed"
    BY <1>1, <2>3 DEF GoesInv, CanGo
  <2> QED BY <1>2, <1>5, <2>4
<1>6. CASE client = "running"
  <2>1. loop["client"] = "reading"
    BY <1>2, <1>4, <1>6, EndsAre DEF CanGo
  <2>2. ~cut /\ ~closed["listener"]
    BY <1>3, <2>1, EndsAre
  <2>3. closed["client"]
    <3>1. \/ HasClose(queue["client"]) \/ closed["client"]
          \/ sender["client"] = "failed"
      BY <1>1, <1>6 DEF GoesInv
    <3>2. HasClose(queue["client"]) => sender["client"] = "failed"
      <4>1. queue["client"] # << >> => sender["client"] = "failed"
        BY <1>2, EndsAre DEF CanGo
      <4> QED BY <4>1, NoneClose
    <3>3. sender["client"] = "failed" => closed["client"]
      BY <1>1, <2>2 DEF ClosedInv
    <3> QED BY <3>1, <3>2, <3>3
  <2>4. loop["listener"] \in {"done", "failed"}
    BY <1>2, <1>3, <1>4, <2>3, EndsAre
  <2>5. server \notin {"racing", "closing", "waiting"}
    BY <2>4 DEF CanGo
  <2>6. server # "killing"
    BY <1>1, <1>2 DEF GoesInv, CanGo
  <2>7. server # "draining"
    <3>1. sender["listener"] = "failed" \/ Drained
      BY <1>2, EndsAre DEF CanGo, Drained
    <3> QED BY <3>1 DEF CanGo
  <2>8. server # "returned" /\ server # "threw"
    BY <1>1, <2>2 DEF GoesInv, FailsOnlyIfCut
  <2> QED BY <1>2, <2>5, <2>6, <2>7, <2>8
<1> QED BY <1>5, <1>6

-----------------------------------------------------------------------------
(* What is left to do. *)
(* What there is left to do by itself in one direction, and at both ends.  *)
SenderLeft(s) == IF s = "full" THEN 1 ELSE 0
LoopLeft(l) == IF l = "reading" THEN 1 ELSE IF l = "draining" THEN 2 ELSE 0
UnderWayLeft(q, w, b, f) == 6 * Len(q) + 2 * Len(w) + Len(b) + 2 * Len(f)

(* What is left to do in the direction from end e. *)
Side(e) ==
  UnderWayLeft(queue[e], wire[e], buffer[Other(e)], frames[Other(e)])
    + (SenderLeft(sender[e]) + LoopLeft(loop[Other(e)]))

ShellLeft(s) == IF s = "running" THEN 2 ELSE IF s = "killed" THEN 1 ELSE 0
ServerLeft(s) ==
  CASE s = "racing" -> 5 [] s = "killing" -> 4 [] s = "draining" -> 3
    [] s = "closing" -> 2 [] s = "waiting" -> 1 [] OTHER -> 0
ClientLeft(c) == IF c = "running" THEN 1 ELSE 0
CutLeft(c) == IF c THEN 0 ELSE 1

Sessions == (ShellLeft(shell) + ServerLeft(server)) + (ClientLeft(client) + CutLeft(cut))

Left == (Side("client") + Side("listener")) + Sessions

(* Every step of Runtime uses something up: an item becomes two units on   *)
(* the wire, two units a frame, a frame what is shown or typed, and each   *)
(* session comes nearer to its end.                                        *)
UsesUp == [][Runtime => Left \in Nat /\ Left' < Left]_vars

(* What is left under way is a number. *)
LEMMA LeftNat ==
  ASSUME NEW q, NEW w, NEW b, NEW f,
         Len(q) \in Nat, Len(w) \in Nat, Len(b) \in Nat, Len(f) \in Nat
  PROVE  UnderWayLeft(q, w, b, f) \in Nat
<1>1. ASSUME NEW i \in Nat, NEW j \in Nat, NEW k \in Nat, NEW l \in Nat
      PROVE  6 * i + 2 * j + k + 2 * l \in Nat
  OBVIOUS
<1> QED BY <1>1 DEF UnderWayLeft

(* What is left of the sessions is a number. *)
LEMMA SessionsNat == Sessions \in Nat
BY DEF Sessions, ShellLeft, ServerLeft, ClientLeft, CutLeft

(* What is left in a direction is a number. *)
LEMMA SideNat ==
  ASSUME TypeInv, NEW e \in Ends
  PROVE  Side(e) \in Nat
<1>1. /\ wire[e] \in Seq(Unit(e)) /\ buffer[Other(e)] \in Seq(Unit(e))
      /\ queue[e] \in Seq(Items(e)) /\ frames[Other(e)] \in Seq(Frame(e))
  BY DEF TypeInv, WireTypes, ReadTypes, SendTypes
<1>2. /\ Len(queue[e]) \in Nat /\ Len(wire[e]) \in Nat
      /\ Len(buffer[Other(e)]) \in Nat /\ Len(frames[Other(e)]) \in Nat
  BY <1>1
<1>3. SenderLeft(sender[e]) \in Nat /\ LoopLeft(loop[Other(e)]) \in Nat
  BY DEF SenderLeft, LoopLeft
<1> QED BY <1>2, <1>3, LeftNat DEF Side

(* And it is a number after a step. *)
LEMMA SideNatNext ==
  ASSUME TypeInv', NEW e \in Ends
  PROVE  Side(e)' \in Nat
<1>1. /\ wire'[e] \in Seq(Unit(e)) /\ buffer'[Other(e)] \in Seq(Unit(e))
      /\ queue'[e] \in Seq(Items(e)) /\ frames'[Other(e)] \in Seq(Frame(e))
  BY DEF TypeInv, WireTypes, ReadTypes, SendTypes
<1>2. /\ Len(queue'[e]) \in Nat /\ Len(wire'[e]) \in Nat
      /\ Len(buffer'[Other(e)]) \in Nat /\ Len(frames'[Other(e)]) \in Nat
  BY <1>1
<1>3. SenderLeft(sender'[e]) \in Nat /\ LoopLeft(loop'[Other(e)]) \in Nat
  BY DEF SenderLeft, LoopLeft
<1>4. UnderWayLeft(queue'[e], wire'[e], buffer'[Other(e)], frames'[Other(e)]) \in Nat
  BY <1>2, LeftNat
<1> QED BY <1>3, <1>4 DEF Side

(* It is enough to look at one direction, or at the sessions. *)
LEMMA OneSide ==
  ASSUME TypeInv, TypeInv', NEW x \in Ends, Side(x)' < Side(x),
         Side(Other(x))' = Side(Other(x)), Sessions' = Sessions
  PROVE  Left' < Left
<1>1. /\ Side("client") \in Nat /\ Side("listener") \in Nat /\ Sessions \in Nat
      /\ Side("client")' \in Nat /\ Side("listener")' \in Nat
  BY SideNat, SideNatNext, SessionsNat, EndsAre
<1>2. \/ /\ Side("client")' < Side("client") /\ Side("listener")' = Side("listener")
      \/ /\ Side("listener")' < Side("listener") /\ Side("client")' = Side("client")
  BY EndsAre
<1> QED BY <1>1, <1>2 DEF Left

(* Only the sessions move. *)
LEMMA OnlySessions ==
  ASSUME TypeInv, Side("client")' = Side("client"), Side("listener")' = Side("listener"),
         Sessions' \in Nat, Sessions' < Sessions
  PROVE  Left' < Left
<1>1. Side("client") \in Nat /\ Side("listener") \in Nat /\ Sessions \in Nat
  BY SideNat, SessionsNat, EndsAre
<1> QED BY <1>1 DEF Left

(* The sender takes an item, passes it on, or loses its queue. *)
LEMMA LeftSend ==
  ASSUME NEW T, NEW q \in Seq(T), q # << >>, NEW U, NEW w \in Seq(U), NEW it,
         <<it, 1>> \in U, <<it, 2>> \in U, NEW b, NEW f, Len(b) \in Nat, Len(f) \in Nat
  PROVE  /\ UnderWayLeft(Tail(q), w, b, f) + 6 = UnderWayLeft(q, w, b, f)
         /\ UnderWayLeft(<< >>, w, b, f) + 6 <= UnderWayLeft(q, w, b, f)
         /\ UnderWayLeft(Tail(q), w \o Encode(it), b, f) + 2 = UnderWayLeft(q, w, b, f)
<1>1. /\ Len(q) \in Nat /\ Len(q) >= 1 /\ Len(Tail(q)) = Len(q) - 1 /\ Len(w) \in Nat
      /\ Len(<< >>) = 0
  OBVIOUS
<1>2. Len(w \o Encode(it)) = Len(w) + 2
  <2>1. PICK u : u = Encode(it)
    OBVIOUS
  <2>2. u \in Seq(U) /\ Len(u) = 2
    BY <2>1 DEF Encode
  <2>3. Len(w \o u) = Len(w) + Len(u)
    BY <2>2, ConcatIs DEF Joined
  <2> QED BY <2>1, <2>2, <2>3
<1>3. PICK i, j, k, l \in Nat : /\ i = Len(q) /\ j = Len(w) /\ k = Len(b) /\ l = Len(f)
                                /\ i >= 1
  BY <1>1
<1>4. /\ UnderWayLeft(q, w, b, f) = 6 * i + 2 * j + k + 2 * l
      /\ UnderWayLeft(<< >>, w, b, f) = 6 * 0 + 2 * j + k + 2 * l
      /\ UnderWayLeft(Tail(q), w, b, f) = 6 * (i - 1) + 2 * j + k + 2 * l
      /\ UnderWayLeft(Tail(q), w \o Encode(it), b, f) = 6 * (i - 1) + 2 * (j + 2) + k + 2 * l
  BY <1>1, <1>2, <1>3 DEF UnderWayLeft
<1> QED BY <1>3, <1>4

(* The decoder takes a chunk: two units are more than a frame. *)
LEMMA LeftPush ==
  ASSUME NEW T, NEW b \in Seq(T), NEW w \in Seq(T), NEW n \in 1..Len(w), NEW q,
         Len(q) \in Nat,
         NEW all, all = b \o SubSeq(w, 1, n), NEW h, h = Len(all) \div 2,
         NEW fr, Len(fr) = h
  PROVE  UnderWayLeft(q, SubSeq(w, n + 1, Len(w)), SubSeq(all, 2 * h + 1, Len(all)), fr)
           < UnderWayLeft(q, w, b, << >>)
<1>1. /\ Len(w) \in Nat /\ n \in Nat /\ n >= 1 /\ n <= Len(w) /\ Len(b) \in Nat
      /\ SubSeq(w, 1, n) \in Seq(T) /\ Len(SubSeq(w, 1, n)) = n
      /\ Len(SubSeq(w, n + 1, Len(w))) = Len(w) - n
  OBVIOUS
<1>2. all \in Seq(T) /\ Len(all) = Len(b) + n
  BY <1>1
<1>3. h \in Nat /\ 2 * h <= Len(all)
  BY <1>1, <1>2, Halves
<1>4. Len(SubSeq(all, 2 * h + 1, Len(all))) = Len(all) - 2 * h
  <2>1. 2 * h \in 0..Len(all)
    BY <1>1, <1>2, <1>3
  <2> QED BY <1>2, <2>1, RestIs
<1>5. PICK i, j, k \in Nat : i = Len(q) /\ j = Len(w) /\ k = Len(b) /\ n <= j
  BY <1>1
<1>6. /\ UnderWayLeft(q, w, b, << >>) = 6 * i + 2 * j + k + 2 * 0
      /\ UnderWayLeft(q, SubSeq(w, n + 1, Len(w)), SubSeq(all, 2 * h + 1, Len(all)), fr)
           = 6 * i + 2 * (j - n) + ((k + n) - 2 * h) + 2 * h
  <2>1. Len(<< >>) = 0
    OBVIOUS
  <2> QED BY <1>1, <1>2, <1>4, <1>5, <2>1 DEF UnderWayLeft
<1> QED BY <1>1, <1>3, <1>5, <1>6

(* A loop takes a frame. *)
LEMMA LeftTake ==
  ASSUME NEW T, NEW f \in Seq(T), f # << >>, NEW q, NEW w, NEW b,
         Len(q) \in Nat, Len(w) \in Nat, Len(b) \in Nat
  PROVE  UnderWayLeft(q, w, b, Tail(f)) + 2 = UnderWayLeft(q, w, b, f)
<1>1. Len(f) \in Nat /\ Len(Tail(f)) = Len(f) - 1
  OBVIOUS
<1>2. PICK i, j, k, l \in Nat : i = Len(q) /\ j = Len(w) /\ k = Len(b) /\ l = Len(f)
  BY <1>1
<1>3. /\ UnderWayLeft(q, w, b, f) = 6 * i + 2 * j + k + 2 * l
      /\ UnderWayLeft(q, w, b, Tail(f)) = 6 * i + 2 * j + k + 2 * (l - 1)
  BY <1>1, <1>2 DEF UnderWayLeft
<1> QED BY <1>2, <1>3

(* The lengths of what is under way from an end. *)
LEMMA WayTypes ==
  ASSUME TypeInv, NEW e \in Ends
  PROVE  /\ queue[e] \in Seq(Items(e)) /\ wire[e] \in Seq(Unit(e))
         /\ buffer[Other(e)] \in Seq(Unit(e)) /\ frames[Other(e)] \in Seq(Frame(e))
         /\ Len(queue[e]) \in Nat /\ Len(wire[e]) \in Nat
         /\ Len(buffer[Other(e)]) \in Nat /\ Len(frames[Other(e)]) \in Nat
         /\ UnderWayLeft(queue[e], wire[e], buffer[Other(e)], frames[Other(e)]) \in Nat
<1>1. /\ queue[e] \in Seq(Items(e)) /\ wire[e] \in Seq(Unit(e))
      /\ buffer[Other(e)] \in Seq(Unit(e)) /\ frames[Other(e)] \in Seq(Frame(e))
  BY DEF TypeInv, WireTypes, ReadTypes, SendTypes
<1>2. /\ Len(queue[e]) \in Nat /\ Len(wire[e]) \in Nat
      /\ Len(buffer[Other(e)]) \in Nat /\ Len(frames[Other(e)]) \in Nat
  BY <1>1
<1> QED BY <1>1, <1>2, LeftNat

(* The sender passes an item on. *)
LEMMA UsesTransmit ==
  ASSUME TypeInv, TypeInv', NEW e \in Ends, Transmit(e)
  PROVE  Left' < Left
<1>1. /\ queue[e] # << >> /\ sender[e] = "ok"
      /\ UNCHANGED <<userVars, cut, readVars, shellVars, client, server>>
  BY DEF Transmit
<1> DEFINE q == queue[e]
           w == wire[e]
           b == buffer[Other(e)]
           f == frames[Other(e)]
           U == Unit(e)
<1>2. /\ q \in Seq(Items(e)) /\ w \in Seq(U) /\ Len(b) \in Nat /\ Len(f) \in Nat
      /\ UnderWayLeft(q, w, b, f) \in Nat /\ Arrays /\ q # << >>
  BY <1>1, WayTypes DEF TypeInv
<1>3. PICK it : it = Head(q)
  OBVIOUS
<1>4. it # Closing => <<it, 1>> \in U /\ <<it, 2>> \in U
  <2>1. it \in Items(e)
    BY <1>2, <1>3
  <2> QED BY <2>1 DEF Items, Unit
<1>5. \/ /\ queue' = [queue EXCEPT ![e] = Tail(q)] /\ sender' = sender /\ wire' = wire
      \/ /\ queue' = [queue EXCEPT ![e] = << >>] /\ wire' = wire
         /\ sender' = [sender EXCEPT ![e] = "failed"]
      \/ /\ it # Closing /\ queue' = [queue EXCEPT ![e] = Tail(q)]
         /\ wire' = [wire EXCEPT ![e] = w \o Encode(it)]
         /\ \E v \in {"ok", "full"} : sender' = [sender EXCEPT ![e] = v]
  BY <1>1, <1>2, <1>3 DEF Transmit, Breaks, Arrays
<1>6. /\ buffer'[Other(e)] = b /\ frames'[Other(e)] = f /\ loop'[Other(e)] = loop[Other(e)]
  BY <1>1 DEF readVars
<1>7. Side(Other(e))' = Side(Other(e)) /\ Sessions' = Sessions
  <2>1. Other(e) \in Ends /\ Other(e) # e
    BY EndsAre
  <2>2. /\ queue'[Other(e)] = queue[Other(e)] /\ wire'[Other(e)] = wire[Other(e)]
        /\ sender'[Other(e)] = sender[Other(e)]
    BY <1>2, <1>5, <2>1 DEF Arrays
  <2>3. UNCHANGED <<buffer, frames, loop, shell, server, client, cut>>
    BY <1>1 DEF readVars, shellVars
  <2> QED BY <2>2, <2>3 DEF Side, Sessions
<1>8. \/ queue'[e] = Tail(q) /\ wire'[e] = w /\ sender'[e] = "ok"
      \/ queue'[e] = << >> /\ wire'[e] = w /\ sender'[e] = "failed"
      \/ /\ queue'[e] = Tail(q) /\ it # Closing /\ wire'[e] = w \o Encode(it)
         /\ sender'[e] \in {"ok", "full"}
  BY <1>1, <1>2, <1>5 DEF Arrays
<1> DEFINE n == UnderWayLeft(queue'[e], wire'[e], buffer'[Other(e)], frames'[Other(e)])
           m == UnderWayLeft(q, w, b, f)
<1>9. n + SenderLeft(sender'[e]) < m /\ n \in Nat
  <2> HIDE DEF q, w, b, f, U
  <2>1. n \in Nat
    <3>1. /\ wire'[e] \in Seq(Unit(e)) /\ buffer'[Other(e)] \in Seq(Unit(e))
          /\ queue'[e] \in Seq(Items(e)) /\ frames'[Other(e)] \in Seq(Frame(e))
      BY DEF TypeInv, WireTypes, ReadTypes, SendTypes
    <3>2. /\ Len(queue'[e]) \in Nat /\ Len(wire'[e]) \in Nat
          /\ Len(buffer'[Other(e)]) \in Nat /\ Len(frames'[Other(e)]) \in Nat
      BY <3>1
    <3> QED BY <3>2, LeftNat
  <2> HIDE DEF m
  <2>2. m = UnderWayLeft(q, w, b, f) /\ m \in Nat
    BY <1>2 DEF m
  <2>3. CASE queue'[e] = Tail(q) /\ wire'[e] = w /\ sender'[e] = "ok"
    <3>1. n = UnderWayLeft(Tail(q), w, b, f)
      BY <1>6, <2>3
    <3>2. n + 6 = m
      <4>1. \A x : x = UnderWayLeft(Tail(q), w, b, f) => x + 6 = UnderWayLeft(q, w, b, f)
        <5>1. PICK V : <<it, 1>> \in V /\ <<it, 2>> \in V /\ w \in Seq(V)
          <6>1. w \in Seq(U \cup {<<it, 1>>, <<it, 2>>})
            BY <1>2
          <6> QED BY <6>1
        <5> QED BY <1>2, <5>1, LeftSend
      <4> QED BY <2>2, <3>1, <4>1
    <3>3. SenderLeft(sender'[e]) = 0
      BY <2>3 DEF SenderLeft
    <3> HIDE DEF n
    <3> QED BY <2>1, <2>2, <3>2, <3>3
  <2>4. CASE queue'[e] = << >> /\ wire'[e] = w /\ sender'[e] = "failed"
    <3>1. n = UnderWayLeft(<< >>, w, b, f)
      BY <1>6, <2>4
    <3>2. n + 6 <= m
      <4>1. \A x : x = UnderWayLeft(<< >>, w, b, f) => x + 6 <= UnderWayLeft(q, w, b, f)
        <5>1. PICK V : <<it, 1>> \in V /\ <<it, 2>> \in V /\ w \in Seq(V)
          <6>1. w \in Seq(U \cup {<<it, 1>>, <<it, 2>>})
            BY <1>2
          <6> QED BY <6>1
        <5> QED BY <1>2, <5>1, LeftSend
      <4> QED BY <2>2, <3>1, <4>1
    <3>3. SenderLeft(sender'[e]) = 0
      BY <2>4 DEF SenderLeft
    <3> HIDE DEF n
    <3> QED BY <2>1, <2>2, <3>2, <3>3
  <2>5. CASE /\ queue'[e] = Tail(q) /\ it # Closing /\ wire'[e] = w \o Encode(it)
             /\ sender'[e] \in {"ok", "full"}
    <3>1. n = UnderWayLeft(Tail(q), w \o Encode(it), b, f)
      BY <1>6, <2>5
    <3>2. n + 2 = m
      <4>1. UnderWayLeft(Tail(q), w \o Encode(it), b, f) + 2 = UnderWayLeft(q, w, b, f)
        BY <1>2, <1>4, <2>5, LeftSend
      <4> QED BY <2>2, <3>1, <4>1
    <3>3. SenderLeft(sender'[e]) \in {0, 1}
      BY DEF SenderLeft
    <3> HIDE DEF n
    <3> QED BY <2>1, <2>2, <3>2, <3>3
  <2> QED BY <1>8, <2>3, <2>4, <2>5
<1>10. Side(e)' < Side(e)
  <2>1. /\ Side(e)' = n + (SenderLeft(sender'[e]) + LoopLeft(loop'[Other(e)]))
        /\ Side(e) = m + (SenderLeft(sender[e]) + LoopLeft(loop[Other(e)]))
    BY DEF Side
  <2>2. LoopLeft(loop'[Other(e)]) = LoopLeft(loop[Other(e)])
    BY <1>6
  <2>3. /\ SenderLeft(sender'[e]) \in Nat /\ SenderLeft(sender[e]) = 0
        /\ LoopLeft(loop[Other(e)]) \in Nat
    BY <1>1 DEF SenderLeft, LoopLeft
  <2>4. m \in Nat
    BY <1>2
  <2> HIDE DEF n, m
  <2> QED BY <1>9, <2>1, <2>2, <2>3, <2>4
<1> QED BY <1>7, <1>10, OneSide

(* A sender that waited goes on. *)
LEMMA UsesOnDrain ==
  ASSUME TypeInv, TypeInv', NEW e \in Ends, OnDrain(e)
  PROVE  Left' < Left
<1> DEFINE q == queue[e]
           w == wire[e]
           b == buffer[Other(e)]
           f == frames[Other(e)]
<1>1. /\ sender[e] = "full"
      /\ UNCHANGED <<wire, cut, buffer, frames, loop, shell, client, server>>
      /\ \/ sender' = [sender EXCEPT ![e] = "ok"] /\ queue' = queue
         \/ sender' = [sender EXCEPT ![e] = "failed"] /\ queue' = [queue EXCEPT ![e] = << >>]
  BY DEF OnDrain, Breaks, streamVars, readVars, shellVars
<1>2. Arrays /\ Len(q) \in Nat /\ Len(w) \in Nat /\ Len(b) \in Nat /\ Len(f) \in Nat
  BY WayTypes DEF TypeInv
<1>3. Other(e) \in Ends /\ Other(e) # e
  BY EndsAre
<1>4. /\ queue'[Other(e)] = queue[Other(e)] /\ sender'[Other(e)] = sender[Other(e)]
      /\ queue'[e] = q \/ queue'[e] = << >>
      /\ sender'[e] \in {"ok", "failed"}
  BY <1>1, <1>2, <1>3 DEF Arrays
<1>5. Side(Other(e))' = Side(Other(e)) /\ Sessions' = Sessions
  BY <1>1, <1>4 DEF Side, Sessions
<1>6. /\ UnderWayLeft(queue'[e], w, b, f) <= UnderWayLeft(q, w, b, f)
      /\ UnderWayLeft(queue'[e], w, b, f) \in Nat /\ UnderWayLeft(q, w, b, f) \in Nat
  <2> HIDE DEF q, w, b, f
  <2>1. UnderWayLeft(q, w, b, f) \in Nat
    BY <1>2, LeftNat
  <2>2. /\ UnderWayLeft(<< >>, w, b, f) <= UnderWayLeft(q, w, b, f)
        /\ UnderWayLeft(<< >>, w, b, f) \in Nat
    <3>1. PICK i, j, k, l \in Nat : i = Len(q) /\ j = Len(w) /\ k = Len(b) /\ l = Len(f)
      BY <1>2
    <3>2. /\ UnderWayLeft(q, w, b, f) = 6 * i + 2 * j + k + 2 * l
          /\ UnderWayLeft(<< >>, w, b, f) = 6 * 0 + 2 * j + k + 2 * l
      <4>1. Len(<< >>) = 0
        OBVIOUS
      <4> QED BY <3>1, <4>1 DEF UnderWayLeft
    <3>3. << >> = << >> /\ Len(<< >>) \in Nat
      OBVIOUS
    <3> QED BY <1>2, <3>1, <3>2, <3>3, LeftNat
  <2> QED BY <1>4, <2>1, <2>2
<1>7. SenderLeft(sender[e]) = 1 /\ SenderLeft(sender'[e]) = 0
      /\ LoopLeft(loop[Other(e)]) \in Nat
  BY <1>1, <1>4 DEF SenderLeft, LoopLeft
<1>8. Side(e)' < Side(e)
  <2>1. /\ Side(e)' = UnderWayLeft(queue'[e], w, b, f)
                        + (SenderLeft(sender'[e]) + LoopLeft(loop[Other(e)]))
        /\ Side(e) = UnderWayLeft(q, w, b, f)
                       + (SenderLeft(sender[e]) + LoopLeft(loop[Other(e)]))
    BY <1>1 DEF Side
  <2> HIDE DEF q, w, b, f
  <2> QED BY <1>6, <1>7, <2>1
<1> QED BY <1>5, <1>8, OneSide

(* A chunk is received. *)
LEMMA UsesReceive ==
  ASSUME TypeInv, TypeInv', NEW e \in Ends, Receive(e)
  PROVE  Left' < Left
<1> DEFINE x == Other(e)
           w == wire[x]
           q == queue[x]
           b == buffer[e]
           f == frames[e]
<1>1. PICK n \in 1..Len(w) :
        /\ Push(e, SubSeq(w, 1, n))
        /\ wire' = [wire EXCEPT ![x] = SubSeq(w, n + 1, Len(w))]
  BY DEF Receive, TypeInv, Arrays
<1>2. /\ f = << >> /\ UNCHANGED <<queue, sender, loop, shell, client, server, cut>>
  BY DEF Receive, Idle, sendVars, shellVars
<1>3. x \in Ends /\ x # e /\ Other(x) = e /\ e \in Ends
  BY EndsAre
<1>4. /\ w \in Seq(Unit(x)) /\ b \in Seq(Unit(x)) /\ Len(q) \in Nat /\ Arrays
      /\ UnderWayLeft(q, w, b, f) \in Nat
  BY <1>3, WayTypes DEF TypeInv
<1> DEFINE all == b \o SubSeq(w, 1, n)
           h == Len(all) \div 2
           fr == [i \in 1..h |-> all[2 * i][1]]
<1>5. /\ frames' = [frames EXCEPT ![e] = fr]
      /\ buffer' = [buffer EXCEPT ![e] = SubSeq(all, 2 * h + 1, Len(all))]
  BY <1>1 DEF Push
<1>6. /\ frames'[e] = fr /\ buffer'[e] = SubSeq(all, 2 * h + 1, Len(all))
      /\ frames'[x] = frames[x] /\ buffer'[x] = buffer[x]
      /\ wire'[x] = SubSeq(w, n + 1, Len(w)) /\ wire'[e] = wire[e]
  BY <1>1, <1>3, <1>4, <1>5 DEF Arrays
<1>7. Side(e)' = Side(e) /\ Sessions' = Sessions
  BY <1>2, <1>6 DEF Side, Sessions
<1>8. Len(fr) = h
  <2>1. all \in Seq(Unit(x))
    <3>1. n \in 1..Len(w)
      OBVIOUS
    <3>2. SubSeq(w, 1, n) \in Seq(Unit(x))
      BY <1>4, <3>1
    <3> HIDE DEF w, b, x
    <3> QED BY <1>4, <3>2
  <2> HIDE DEF all
  <2>2. Len(all) \in Nat
    BY <2>1
  <2>3. h \in Nat
    BY <2>2, Halves
  <2> HIDE DEF h
  <2> QED BY <2>3
<1>9. Side(x)' < Side(x)
  <2> DEFINE old == UnderWayLeft(q, w, b, f)
             new == UnderWayLeft(q, SubSeq(w, n + 1, Len(w)),
                                 SubSeq(all, 2 * h + 1, Len(all)), fr)
             rest == SenderLeft(sender[x]) + LoopLeft(loop[e])
  <2>1. Side(x) = old + rest
    BY <1>3 DEF Side
  <2>2. Side(x)' = new + rest
    BY <1>2, <1>3, <1>6 DEF Side
  <2>3. new < old
    <3> HIDE DEF w, q, b, f, x, fr
    <3>1. PICK a, k : a = all /\ k = h
      OBVIOUS
    <3> HIDE DEF all, h
    <3>2. UnderWayLeft(q, SubSeq(w, n + 1, Len(w)), SubSeq(a, 2 * k + 1, Len(a)), fr)
            < UnderWayLeft(q, w, b, << >>)
      BY <1>4, <1>8, <3>1, LeftPush DEF all, h
    <3> QED BY <1>2, <3>1, <3>2
  <2>4. rest \in Nat
    BY DEF SenderLeft, LoopLeft
  <2>5. old \in Nat
    BY <1>4
  <2>6. new \in Nat
    <3>1. Side(x)' \in Nat
      BY <1>3, SideNatNext
    <3>2. new = UnderWayLeft(queue'[x], wire'[x], buffer'[Other(x)], frames'[Other(x)])
      BY <1>2, <1>3, <1>6
    <3>3. /\ wire'[x] \in Seq(Unit(x)) /\ buffer'[Other(x)] \in Seq(Unit(x))
          /\ queue'[x] \in Seq(Items(x)) /\ frames'[Other(x)] \in Seq(Frame(x))
      BY <1>3 DEF TypeInv, WireTypes, ReadTypes, SendTypes
    <3>4. /\ Len(queue'[x]) \in Nat /\ Len(wire'[x]) \in Nat
          /\ Len(buffer'[Other(x)]) \in Nat /\ Len(frames'[Other(x)]) \in Nat
      BY <3>3
    <3>5. UnderWayLeft(queue'[x], wire'[x], buffer'[Other(x)], frames'[Other(x)]) \in Nat
      BY <3>4, LeftNat
    <3> QED BY <3>2, <3>5
  <2> HIDE DEF old, new, rest
  <2> QED BY <2>1, <2>2, <2>3, <2>4, <2>5, <2>6
<1>10. Side(Other(x))' = Side(Other(x))
  BY <1>3, <1>7
<1> HIDE DEF x
<1> QED BY <1>3, <1>7, <1>9, <1>10, OneSide

(* A loop takes a frame: the client's may then wait for its output. *)
LEMMA UsesTaking ==
  ASSUME TypeInv, TypeInv', NEW e \in Ends, frames[e] # << >>,
         loop[e] = "reading", loop'[e] \in {"reading", "draining"},
         loop'[Other(e)] = loop[Other(e)],
         frames' = [frames EXCEPT ![e] = Tail(frames[e])],
         UNCHANGED <<sendVars, streamVars, buffer, shellVars, client, server>>
  PROVE  Left' < Left
<1> DEFINE x == Other(e)
<1>1. x \in Ends /\ x # e /\ Other(x) = e
  BY EndsAre
<1>2. /\ frames[e] \in Seq(Frame(x)) /\ Len(queue[x]) \in Nat
      /\ Len(wire[x]) \in Nat /\ Len(buffer[e]) \in Nat /\ Arrays
      /\ UnderWayLeft(queue[x], wire[x], buffer[e], frames[e]) \in Nat
  BY <1>1, WayTypes DEF TypeInv
<1>3. frames'[e] = Tail(frames[e]) /\ frames'[x] = frames[x]
  BY <1>1, <1>2 DEF Arrays
<1>4. UNCHANGED <<queue, sender, wire, cut, buffer, shell, client, server>>
  BY DEF sendVars, streamVars, shellVars
<1>5. Side(e)' = Side(e) /\ Sessions' = Sessions
  BY <1>3, <1>4 DEF Side, Sessions
<1> DEFINE old == UnderWayLeft(queue[x], wire[x], buffer[e], frames[e])
           new == UnderWayLeft(queue[x], wire[x], buffer[e], Tail(frames[e]))
<1>6. new + 2 = old /\ old \in Nat
  <2>1. PICK f : f = frames[e]
    OBVIOUS
  <2>2. UnderWayLeft(queue[x], wire[x], buffer[e], Tail(f)) + 2
          = UnderWayLeft(queue[x], wire[x], buffer[e], f)
    BY <1>2, <2>1, LeftTake
  <2> QED BY <1>2, <2>1, <2>2
<1>7. new \in Nat
  <2>1. Len(Tail(frames[e])) \in Nat
    <3>1. Tail(frames[e]) \in Seq(Frame(x))
      BY <1>2
    <3> QED BY <3>1
  <2> QED BY <1>2, <2>1, LeftNat
<1>8. /\ Side(x) = old + (SenderLeft(sender[x]) + LoopLeft(loop[e]))
      /\ Side(x)' = new + (SenderLeft(sender[x]) + LoopLeft(loop'[e]))
  BY <1>1, <1>3, <1>4 DEF Side
<1>9. /\ LoopLeft(loop[e]) = 1 /\ LoopLeft(loop'[e]) \in {1, 2}
      /\ SenderLeft(sender[x]) \in Nat
  BY DEF LoopLeft, SenderLeft
<1>10. Side(x)' < Side(x)
  <2> HIDE DEF old, new
  <2> QED BY <1>6, <1>7, <1>8, <1>9
<1>11. Side(Other(x))' = Side(Other(x))
  BY <1>1, <1>5
<1> HIDE DEF x
<1> QED BY <1>1, <1>5, <1>10, <1>11, OneSide

(* A loop goes on or ends. *)
LEMMA UsesLoop ==
  ASSUME TypeInv, TypeInv', NEW e \in Ends, LoopLeft(loop'[e]) < LoopLeft(loop[e]),
         loop'[Other(e)] = loop[Other(e)],
         UNCHANGED <<sendVars, streamVars, buffer, frames, shellVars, client, server>>
  PROVE  Left' < Left
<1> DEFINE x == Other(e)
           way == UnderWayLeft(queue[x], wire[x], buffer[e], frames[e])
<1>1. x \in Ends /\ x # e /\ Other(x) = e
  BY EndsAre
<1>2. way \in Nat
  BY <1>1, WayTypes
<1>3. UNCHANGED <<queue, sender, wire, cut, buffer, frames, shell, client, server>>
  BY DEF sendVars, streamVars, shellVars
<1>4. Side(e)' = Side(e) /\ Sessions' = Sessions
  BY <1>3 DEF Side, Sessions
<1>5. /\ Side(x) = way + (SenderLeft(sender[x]) + LoopLeft(loop[e]))
      /\ Side(x)' = way + (SenderLeft(sender[x]) + LoopLeft(loop'[e]))
  BY <1>1, <1>3 DEF Side
<1>6. /\ SenderLeft(sender[x]) \in Nat /\ LoopLeft(loop[e]) \in Nat
      /\ LoopLeft(loop'[e]) \in Nat
  BY DEF SenderLeft, LoopLeft
<1>7. Side(x)' < Side(x)
  <2> HIDE DEF way
  <2> QED BY <1>2, <1>5, <1>6
<1>8. Side(Other(x))' = Side(Other(x))
  BY <1>1, <1>4
<1> HIDE DEF x
<1> QED BY <1>1, <1>4, <1>7, <1>8, OneSide

(* A frame is handled, or a loop goes on or ends. *)
LEMMA UsesReading ==
  ASSUME TypeInv, TypeInv', NEW e \in Ends,
         ReceiveEnd(e) \/ ClientHandles \/ OutputDrains \/ ServerHandles
  PROVE  Left' < Left
<1>1. Arrays
  BY DEF TypeInv
<1>2. CASE ReceiveEnd(e)
  <2>1. /\ loop[e] = "reading" /\ loop'[e] \in {"done", "failed"}
        /\ loop'[Other(e)] = loop[Other(e)]
        /\ UNCHANGED <<sendVars, streamVars, buffer, frames, shellVars, client, server>>
    BY <1>1, <1>2, EndsAre DEF ReceiveEnd, Idle, Arrays
  <2>2. LoopLeft(loop'[e]) < LoopLeft(loop[e])
    BY <2>1 DEF LoopLeft
  <2> QED BY <2>1, <2>2, UsesLoop
<1>3. CASE OutputDrains
  <2>1. /\ loop["client"] = "draining" /\ loop'["client"] = "reading"
        /\ loop'[Other("client")] = loop[Other("client")]
        /\ UNCHANGED <<sendVars, streamVars, buffer, frames, shellVars, client, server>>
    BY <1>1, <1>3, EndsAre DEF OutputDrains, Arrays
  <2>2. LoopLeft(loop'["client"]) < LoopLeft(loop["client"])
    BY <2>1 DEF LoopLeft
  <2> QED BY <2>1, <2>2, UsesLoop, EndsAre
<1>4. CASE ClientHandles
  <2>1. /\ frames["client"] # << >> /\ loop["client"] = "reading"
        /\ loop'["client"] \in {"reading", "draining"}
        /\ loop'[Other("client")] = loop[Other("client")]
        /\ frames' = [frames EXCEPT !["client"] = Tail(frames["client"])]
        /\ UNCHANGED <<sendVars, streamVars, buffer, shellVars, client, server>>
    BY <1>1, <1>4, EndsAre DEF ClientHandles, Arrays
  <2> QED BY <2>1, UsesTaking, EndsAre
<1>5. CASE ServerHandles
  <2>1. /\ frames["listener"] # << >> /\ loop["listener"] = "reading"
        /\ UNCHANGED <<sendVars, streamVars, buffer, shellVars, client, server>>
    BY <1>5 DEF ServerHandles
  <2>2. \/ /\ frames' = [frames EXCEPT !["listener"] = Tail(frames["listener"])]
           /\ loop' = loop
        \/ frames' = frames /\ loop' = [loop EXCEPT !["listener"] = "failed"]
    BY <1>5 DEF ServerHandles
  <2>3. CASE /\ frames' = [frames EXCEPT !["listener"] = Tail(frames["listener"])]
             /\ loop' = loop
    BY <2>1, <2>3, UsesTaking, EndsAre
  <2>4. CASE frames' = frames /\ loop' = [loop EXCEPT !["listener"] = "failed"]
    <3>1. /\ loop'["listener"] = "failed"
          /\ loop'[Other("listener")] = loop[Other("listener")]
      BY <1>1, <2>4, EndsAre DEF Arrays
    <3>2. LoopLeft(loop'["listener"]) < LoopLeft(loop["listener"])
      BY <2>1, <3>1 DEF LoopLeft
    <3> QED BY <2>1, <2>4, <3>1, <3>2, UsesLoop, EndsAre
  <2> QED BY <2>2, <2>3, <2>4
<1> QED BY <1>2, <1>3, <1>4, <1>5

(* A session comes nearer to its end. *)
LEMMA UsesSessions ==
  ASSUME TypeInv,
         \/ ClientEnds \/ ClientLeaves \/ RaceEnds \/ KilledExits \/ ServerCloses
         \/ ServerClosed \/ ServerReturns \/ (shell = "killed" /\ ShellExits)
  PROVE  Left' < Left
<1>1. UNCHANGED <<queue, sender, wire, buffer, frames, loop>>
  BY DEF ClientEnds, ClientLeaves, StreamBreaks, RaceEnds, KilledExits, ServerCloses,
     ServerClosed, ServerReturns, ShellExits, sendVars, streamVars, readVars
<1>2. Side("client")' = Side("client") /\ Side("listener")' = Side("listener")
  BY <1>1 DEF Side
<1>3. /\ ShellLeft(shell) \in Nat /\ ServerLeft(server) \in Nat
      /\ ClientLeft(client) \in Nat /\ CutLeft(cut) \in Nat
      /\ ShellLeft(shell') \in Nat /\ ServerLeft(server') \in Nat
      /\ ClientLeft(client') \in Nat /\ CutLeft(cut') \in Nat
  BY DEF ShellLeft, ServerLeft, ClientLeft, CutLeft
<1>4. \/ /\ ShellLeft(shell') < ShellLeft(shell)
         /\ UNCHANGED <<server, client, cut>>
      \/ /\ ServerLeft(server') < ServerLeft(server)
         /\ ShellLeft(shell') <= ShellLeft(shell) /\ UNCHANGED <<client, cut>>
      \/ ClientLeft(client') < ClientLeft(client) /\ UNCHANGED <<shell, server, cut>>
      \/ CutLeft(cut') < CutLeft(cut) /\ UNCHANGED <<shell, server, client>>
  <2>1. CASE shell = "killed" /\ ShellExits
    BY <2>1 DEF ShellExits, ShellLeft, streamVars
  <2>2. CASE ClientEnds
    BY <2>2 DEF ClientEnds, ClientLeft, shellVars
  <2>3. CASE ClientLeaves
    BY <2>3 DEF ClientLeaves, StreamBreaks, CutLeft, shellVars
  <2>4. CASE RaceEnds
    <3>1. /\ server = "racing" /\ server' \in {"killing", "threw", "draining"}
          /\ UNCHANGED <<client, cut>>
          /\ \/ shell' = shell
             \/ shell = "running" /\ shell' = "killed"
      BY <2>4 DEF RaceEnds, Kill, streamVars
    <3>2. ServerLeft(server') < ServerLeft(server)
      BY <3>1 DEF ServerLeft
    <3>3. ShellLeft(shell') <= ShellLeft(shell)
      BY <3>1 DEF ShellLeft
    <3> QED BY <3>1, <3>2, <3>3
  <2>5. CASE KilledExits \/ ServerCloses \/ ServerClosed \/ ServerReturns
    <3>1. /\ \/ server = "killing" /\ server' = "draining"
             \/ server = "draining" /\ server' \in {"threw", "waiting", "closing"}
             \/ server = "closing" /\ server' \in {"waiting", "threw"}
             \/ server = "waiting" /\ server' = "returned"
          /\ UNCHANGED <<shell, client, cut>>
      BY <2>5 DEF KilledExits, ServerCloses, ServerClosed, ServerReturns, streamVars,
         shellVars
    <3>2. ServerLeft(server') < ServerLeft(server)
      BY <3>1 DEF ServerLeft
    <3>3. ShellLeft(shell') <= ShellLeft(shell)
      BY <3>1 DEF ShellLeft
    <3> QED BY <3>1, <3>2, <3>3
  <2> QED BY <2>1, <2>2, <2>3, <2>4, <2>5
<1>5. Sessions' \in Nat /\ Sessions' < Sessions
  BY <1>3, <1>4 DEF Sessions
<1> QED BY <1>2, <1>5, OnlySessions

(* Whatever happens by itself. *)
LEMMA UsesRuntime ==
  ASSUME TypeInv, TypeInv', Runtime
  PROVE  Left' < Left
<1>1. CASE \E e \in Ends : Transmit(e) \/ OnDrain(e) \/ Receive(e)
  BY <1>1, UsesTransmit, UsesOnDrain, UsesReceive
<1>2. CASE (\E e \in Ends : ReceiveEnd(e)) \/ ClientHandles \/ OutputDrains \/ ServerHandles
  BY <1>2, UsesReading, EndsAre
<1>3. CASE \/ ClientEnds \/ ClientLeaves \/ RaceEnds \/ KilledExits \/ ServerCloses
           \/ ServerClosed \/ ServerReturns \/ (shell = "killed" /\ ShellExits)
  BY <1>3, UsesSessions
<1> QED BY <1>1, <1>2, <1>3 DEF Runtime, Sending, Receiving

(* What is left is a number. *)
LEMMA LeftIsNat == TypeInv => Left \in Nat
BY SideNat, SessionsNat, EndsAre DEF Left

-----------------------------------------------------------------------------
(* The theorems. *)
(***************************************************************************)
(* The invariant: types, the order in which the two ends close, and what   *)
(* is under way in each direction.                                         *)
(***************************************************************************)
THEOREM Invariant == Spec => []IInv
<1>1. Init => IInv
  BY DataInit
<1>2. IInv /\ [Next]_vars => IInv'
  BY IInvStep
<1> QED BY <1>1, <1>2, PTL DEF Spec

(* Every variable keeps its type. *)
THEOREM TypeCorrect == Spec => []TypeOK
<1>1. IInv => TypeOK
  BY TypesOK DEF IInv
<1> QED BY <1>1, Invariant, PTL

(* A part that begins at the start is a prefix. *)
LEMMA PartIsPrefix ==
  ASSUME NEW V, NEW s \in Seq(V), NEW t \in Seq(V), Part(s, t, 0)
  PROVE  IsPrefix(s, t)
<1>1. /\ Len(s) \in Nat /\ Len(t) \in Nat /\ Len(s) <= Len(t)
      /\ \A i \in 1..Len(s) : s[i] = t[i]
  BY DEF Part
<1> DEFINE u == SubSeq(s, 1, Len(s))
           v == SubSeq(t, 1, Len(s))
<1>2. /\ u \in Seq(V) /\ Len(u) = Len(s) /\ \A i \in 1..Len(s) : u[i] = s[i]
  OBVIOUS
<1>3. /\ v \in Seq(V) /\ Len(v) = Len(s) /\ \A i \in 1..Len(s) : v[i] = t[i]
  BY <1>1
<1> HIDE DEF u, v
<1>4. u = v
  BY <1>1, <1>2, <1>3
<1> QED BY <1>1, <1>4 DEF IsPrefix, u, v

(* What the scans of all that was typed have given ends before the quit.   *)
LEMMA GivenQuits ==
  ASSUME NEW s \in Seq(Keys), NEW esc \in BOOLEAN, NEW quit \in BOOLEAN, NEW g,
         Given(s, Len(s), esc, quit, g)
  PROVE  /\ quit <=> \E i \in 1..Len(s) : QuitAt(s, i)
         /\ \A i \in 1..Len(s) : QuitAt(s, i) => g < i
         /\ quit => \E i \in 1..Len(s) : QuitAt(s, i) /\ g = i - 1
<1>0. Len(s) \in Nat
  OBVIOUS
<1>1. CASE quit
  <2>1. PICK f \in 1..Len(s) - 1 : FirstQuit(s, f) /\ g = f - 1
    BY <1>1 DEF Given
  <2>2. f \in 1..Len(s) /\ QuitAt(s, f)
    BY <1>0, <2>1 DEF FirstQuit
  <2>3. ASSUME NEW i \in 1..Len(s), QuitAt(s, i) PROVE g < i
    <3>1. ~(i \in 1..f - 1)
      BY <2>1, <2>3 DEF FirstQuit
    <3> QED BY <1>0, <2>1, <3>1
  <2> QED BY <1>1, <2>1, <2>2, <2>3
<1>2. CASE ~quit
  <2>1. \A i \in 1..Len(s) - 1 : ~QuitAt(s, i)
    BY <1>2 DEF Given
  <2>2. \A i \in 1..Len(s) : ~QuitAt(s, i)
    <3>1. \A i \in 1..Len(s) : QuitAt(s, i) => i < Len(s)
      BY DEF QuitAt
    <3> QED BY <1>0, <2>1, <3>1
  <2> QED BY <1>2, <2>2
<1> QED BY <1>1, <1>2

(* The invariant gives the order of the keys. *)
LEMMA InOrder == IInv => KeysInOrder
<1> SUFFICES ASSUME IInv PROVE KeysInOrder
  OBVIOUS
<1>1. TypeInv /\ UnderInv /\ KeysInv /\ UserTypes
  BY DEF IInv, TypeInv
<1>2. typed \in Seq(Keys) /\ input \in Seq(Keys) /\ Len(typed) \in Nat /\ Len(input) \in Nat
  BY <1>1, Lengths
<1>3. IsPrefix(input, typed)
  <2>1. Part(input, typed, 0)
    BY <1>1 DEF KeysInv
  <2> QED BY <1>2, <2>1, PartIsPrefix
<1>4. PICK a \in 0..Len(typed), d, g \in Nat :
        /\ LinksOf("client", typed, a, d)
        /\ Len(input) <= a
        /\ Given(typed, Len(typed), escape, quitting, g)
        /\ d <= g
  BY <1>1 DEF KeysInv
<1>5. /\ quitting <=> \E i \in 1..Len(typed) : QuitAt(typed, i)
      /\ \A i \in 1..Len(typed) : QuitAt(typed, i) => g < i
  <2>1. escape \in BOOLEAN /\ quitting \in BOOLEAN
    BY <1>1 DEF UserTypes
  <2> QED BY <1>2, <1>4, <2>1, GivenQuits
<1>6. d \in a..Len(typed)
  <2>1. UnderWay(Values("client"), frames[Other("client")], Units("client"), queue["client"])
    BY <1>1, EndsAre DEF UnderInv
  <2> QED BY <1>2, <1>4, <2>1, LinksBounds DEF LinksOf
<1>7. \A i \in 1..Len(typed) : QuitAt(typed, i) => Len(input) < i
  BY <1>2, <1>4, <1>5, <1>6
<1> QED BY <1>3, <1>5, <1>7 DEF KeysInOrder

(***************************************************************************)
(* The shell gets what was typed, in order and unchanged, up to the first  *)
(* escape key with a q, however the keys fall into chunks, the frames are  *)
(* split and the sender is held up.                                        *)
(***************************************************************************)
THEOREM KeysArrive == Spec => []KeysInOrder
BY InOrder, Invariant, PTL

(* The invariant gives the keys before a quit. *)
LEMMA BeforeQuit == IInv => KeysBeforeQuit
<1> SUFFICES ASSUME IInv, server = "killing", ~cut
             PROVE  \E i \in 1..Len(typed) : QuitAt(typed, i) /\ Len(input) = i - 1
  BY DEF KeysBeforeQuit
<1>1. TypeInv /\ UserTypes /\ quitting
      /\ Given(typed, Len(typed), escape, quitting, Len(input))
  BY DEF IInv, TypeInv, KillInv
<1>2. typed \in Seq(Keys) /\ escape \in BOOLEAN /\ quitting \in BOOLEAN
  BY <1>1 DEF UserTypes
<1> QED BY <1>1, <1>2, GivenQuits

(* A shell is killed over a whole stream only once it has everything that  *)
(* was typed before the quit.                                              *)
THEOREM NothingCutOff == Spec => []KeysBeforeQuit
BY BeforeQuit, Invariant, PTL

(* The invariant gives the output. *)
LEMMA Shows == IInv => OutputShown
<1> SUFFICES ASSUME IInv PROVE OutputShown
  OBVIOUS
<1>1. TypeInv /\ UnderInv /\ OutputInv /\ ClosedInv /\ LoopInv
  BY DEF IInv, ControlInv
<1>2. \A i \in 1..Len(shown) : shown[i] = i
  BY <1>1 DEF OutputInv
<1>3. ASSUME client = "returned", ~cut PROVE Len(shown) = printed
  <2>1. /\ frames["client"] = << >> /\ buffer["client"] = << >>
        /\ closed["listener"] /\ wire["listener"] = << >>
    BY <1>1, <1>3, EndsAre DEF LoopInv
  <2>2. queue["listener"] = << >>
    BY <1>1, <2>1 DEF ClosedInv
  <2>3. PICK d \in Nat : /\ LinksOf("listener", Numbers(printed), Len(shown), d)
                         /\ d = printed
    BY <1>1, <1>3 DEF OutputInv
  <2>4. Units("listener") = << >> /\ frames[Other("listener")] = << >>
    BY <2>1, EndsAre DEF Units
  <2>5. UnderWay(Values("listener"), << >>, Units("listener"), queue["listener"])
    BY <1>1, <2>4, EndsAre DEF UnderInv
  <2>6. Links(<< >>, Units("listener"), queue["listener"], Numbers(printed), Len(shown), d)
    BY <2>3, <2>4 DEF LinksOf
  <2>7. Silent(queue["listener"]) /\ Len(shown) \in Nat
    BY <1>1, <2>2, NoneClose, Lengths
  <2>8. Len(shown) = d
    BY <2>4, <2>5, <2>6, <2>7, LinksEnd
  <2> QED BY <2>3, <2>8
<1> QED BY <1>2, <1>3 DEF OutputShown

(***************************************************************************)
(* The client shows what the shell printed in order, and all of it before  *)
(* it returns over a stream that did not break.                            *)
(***************************************************************************)
THEOREM OutputArrives == Spec => []OutputShown
BY Shows, Invariant, PTL

(***************************************************************************)
(* A session fails only over a stream that breaks.                         *)
(***************************************************************************)
THEOREM FailsWithTheStream == Spec => []FailsOnlyIfCut
<1>1. Init => GoesOnInv
  BY DataInit, GoesInit DEF GoesOnInv
<1>2. GoesOnInv /\ [Next]_vars => GoesOnInv'
  BY GoesOnStep
<1>3. GoesOnInv => FailsOnlyIfCut
  BY DEF GoesOnInv, GoesInv
<1> QED BY <1>1, <1>2, <1>3, PTL DEF Spec

(***************************************************************************)
(* After the quit, or once the client has gone, the session is never stuck *)
(* before the client and the shell are gone: something can be done.        *)
(***************************************************************************)
THEOREM NeverStuck == Spec => []NobodyWaits
<1>1. Init => GoesOnInv
  BY DataInit, GoesInit DEF GoesOnInv
<1>2. GoesOnInv /\ [Next]_vars => GoesOnInv'
  BY GoesOnStep
<1> QED BY <1>1, <1>2, Waits, PTL DEF Spec

(***************************************************************************)
(* What happens by itself runs out: each of its steps uses up some of what *)
(* is left to do, which is a number.  So it cannot go on for ever unless   *)
(* somebody types, resizes or prints, each of which is bounded.            *)
(***************************************************************************)
THEOREM RunsOut == Spec => UsesUp
<1>1. IInv /\ [Next]_vars /\ Runtime => Left \in Nat /\ Left' < Left
  <2> SUFFICES ASSUME IInv, [Next]_vars, Runtime PROVE Left \in Nat /\ Left' < Left
    OBVIOUS
  <2>1. TypeInv /\ TypeInv'
    BY TypeStep DEF IInv
  <2> QED BY <2>1, UsesRuntime, LeftIsNat
<1>2. IInv /\ [Next]_vars => [Runtime => Left \in Nat /\ Left' < Left]_vars
  BY <1>1
<1> QED BY <1>2, Invariant, PTL DEF Spec, UsesUp

=============================================================================
