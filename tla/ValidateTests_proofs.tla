------------------------- MODULE ValidateTests_proofs -------------------------
(***************************************************************************)
(* Proofs about 'netlab validate', for any nodes and any list of tests: no *)
(* node is given up early, every failure shows in the exit status, and the *)
(* summary is the number of results of each kind.                          *)
(***************************************************************************)
EXTENDS ValidateTests, FiniteSetTheorems, SequenceTheorems, TLAPS

-----------------------------------------------------------------------------
(* What a message or an attempt may do *)

Key == Node \cup {Whole}
Value == {"none", "pass", "skip", "warning", "fail", "error"}
Kind == {"passed", "failed", "warning", "skip"}

Books == [count : [Kind \cup {"count"} -> Nat], results : [DOMAIN suite -> [Key -> Value]]]
Sums(c) == c.count = c.passed + c.failed + c.warning

\* Messages about k: they overwrite its result only, and counters only grow.
Message(b, c, k) ==
  /\ c \in Books /\ Sums(c.count)
  /\ \A x \in Kind : c.count[x] >= b.count[x]
  /\ \A i \in DOMAIN suite : \A j \in Key : <<i, j>> # <<t, k>> => c.results[i][j] = b.results[i][j]

Troubles(b) == b.count.failed + b.count.warning

\* The counter a result belongs to.
KindOf(v, k, r) ==
  IF r = "skip" THEN "skip"
  ELSE IF r = "warning" \/ (r = "error" /\ v.warning) THEN "warning"
  ELSE IF r \in {"fail", "error"} THEN "failed"
  ELSE IF r = "pass" /\ (Asks(v, "config") \/ (v.judge # "nothing" /\ k # Whole)) THEN "passed"
  ELSE "none"

\* The result of k is counted once.
Tallied(b, c, k) ==
  \A x \in Kind : c.count[x] = b.count[x] + IF KindOf(test, k, c.results[t][k]) = x THEN 1 ELSE 0

\* The node n of the test is asked: after the deadline, or while there is a wait
\* time.
Asked(n, b, report) ==
  /\ suite \in Suites /\ t \in DOMAIN suite /\ ~IsConfig
  /\ n \in Range(test.nodes) /\ b \in Books /\ Sums(b.count)
  /\ report \in BOOLEAN
  /\ ~report => test.wait > 0 \/ test.device_wait > 0

\* The outcome of an attempt at n.
Sound(n, b, report, o) ==
  /\ Message(b, o.book, n)
  /\ o.proc \in BOOLEAN /\ o.ok \in {"none", "true", "false"} /\ o.seen \in {"none", "good", "bad"}
  /\ ~o.proc => ~report
  /\ o.proc /\ o.seen = "bad" /\ ~Unseen(test) =>
       /\ report \/ o.book.results[t][n] = "error"
       /\ test.expect_fail \/ Troubles(o.book) > Troubles(b)
  /\ Plain(test) /\ b.results[t][n] = "none" =>
       /\ Tallied(b, o.book, n)
       /\ ~o.proc => o.book.results[t][n] = "none"
       /\ KindOf(test, n, o.book.results[t][n]) = "failed" => o.ok = "false"
       /\ o.ok = "true" /\ test.judge # "nothing" => o.book.results[t][n] # "none"

-----------------------------------------------------------------------------
(* The inductive invariant *)

Started == phase \in {"begin", "round", "end"}

Shape ==
  /\ Started => Len(verdicts) = t - 1 /\ exit = Never
  /\ phase # "round" => queue = {} /\ remaining = {}
  /\ phase \in {"round", "end"} => t \in DOMAIN suite
  /\ phase = "round" =>
       /\ ~IsConfig
       /\ Distinct(test) => queue \subseteq remaining
       /\ stop_time > clock => test.wait > 0 \/ test.device_wait > 0

Left(n) == phase = "round" /\ \E i \in remaining : test.nodes[i] = n

\* Without a failure or a warning every node has answered well, or is asked again.
Clean ==
  Troubles(Book) = 0 => \A i \in DOMAIN suite : \A n \in Node :
    /\ Distinct(suite[i]) /\ ~suite[i].expect_fail /\ ~Unseen(suite[i]) =>
         last[i][n] # "bad" \/ (i = t /\ Left(n))
    /\ Plain(suite[i]) => results[i][n] \notin {"fail", "warning", "error"}

\* A failure has made its test fail.
Blamed ==
  (\A v \in Range(suite) : Plain(v)) /\ TEST_COUNT.failed > 0 =>
    "false" \in Range(verdicts) \/ (phase \in {"round", "end"} /\ ret_value = "false")

Unused(i, k) == results[i][k] = "none"

\* The cells that are written next are empty.
Empty ==
  /\ \A i \in DOMAIN suite : (IF phase = "begin" THEN i >= t ELSE i > t) => \A k \in Key : Unused(i, k)
  /\ phase = "round" => Unused(t, Whole) /\ (Plain(test) => \A n \in Node : Left(n) => Unused(t, n))

\* A test has a result of its own, and its nodes have some.
Owners ==
  \A i \in DOMAIN suite : Plain(suite[i]) =>
    LET Answered == \E n \in Node : ~Unused(i, n) IN
    /\ results[i][Whole] \notin {"none", "pass"} \/ Asks(suite[i], "config") => ~Answered
    /\ suite[i].judge # "nothing" /\ ~Asks(suite[i], "config") =>
         /\ results[i][Whole] = "pass" => Answered
         /\ i = t /\ phase = "round" /\ ret_value = "true" => Answered

Counted(x) == {e \in (DOMAIN suite) \X Key : KindOf(suite[e[1]], e[2], results[e[1]][e[2]]) = x}

Tally == (\A v \in Range(suite) : Plain(v)) => \A x \in Kind : TEST_COUNT[x] = Cardinality(Counted(x))

Exits ==
  /\ exit = 0 => phase = "exit" /\ Troubles(Book) = 0
  /\ exit = 1 /\ (\A v \in Range(suite) : Plain(v)) => "false" \in Range(verdicts)

IInv == TypeOK /\ Shape /\ LastChance /\ Clean /\ Blamed /\ Empty /\ Owners /\ Tally /\ Exits

-----------------------------------------------------------------------------
(* Lemmas about messages *)

\* What a list of tests is made of.
LEMMA SuiteType ==
  ASSUME suite \in Suites
  PROVE  /\ suite \in Seq(Test) /\ Len(suite) \in Nat /\ DOMAIN suite = 1..Len(suite)
         /\ \A i \in DOMAIN suite :
              /\ suite[i] \in Test
              /\ suite[i].nodes \in Seq(Node) /\ DOMAIN suite[i].nodes = 1..Len(suite[i].nodes)
              /\ \A j \in DOMAIN suite[i].nodes : suite[i].nodes[j] \in Node
  <1>1. suite \in Seq(Test)
    BY ValidateAssumption
  <1>2. \A i \in DOMAIN suite : suite[i] \in Test
    BY <1>1
  <1>3. \A i \in DOMAIN suite : suite[i].nodes \in Seq(Node)
    BY <1>2 DEF Test
  <1> QED
    BY <1>1, <1>2, <1>3

\* What a book is made of.
LEMMA BookType ==
  ASSUME NEW b \in Books, NEW i \in DOMAIN suite, NEW k \in Key
  PROVE  /\ b.results[i][k] \in Value
         /\ \A x \in Kind \cup {"count"} : b.count[x] \in Nat
         /\ {b.count.passed, b.count.failed, b.count.warning, b.count.skip, b.count.count} \subseteq Nat
  BY DEF Books, Kind

\* Messages about the same key one after the other.
LEMMA MessageTrans ==
  ASSUME NEW k \in Key, NEW b \in Books, NEW c, NEW d, Message(b, c, k), Message(c, d, k)
  PROVE  Message(b, d, k)
  <1>1. \A x \in Kind : b.count[x] \in Nat /\ c.count[x] \in Nat /\ d.count[x] \in Nat
    BY DEF Books, Message
  <1>2. \A x \in Kind : d.count[x] >= b.count[x]
    BY <1>1 DEF Message
  <1> QED
    BY <1>2 DEF Message

\* A result is overwritten unless it is an error.
LEMMA RecordSteps ==
  ASSUME t \in DOMAIN suite, NEW b \in Books, Sums(b.count), NEW k \in Key, NEW r \in Value
  PROVE  /\ Record(b, k, r) \in Books /\ Record(b, k, r).count = b.count
         /\ Record(b, k, r).results[t][k] = IF b.results[t][k] = "error" THEN "error" ELSE r
         /\ Message(b, Record(b, k, r), k)
  <1> DEFINE s == IF b.results[t][k] = "error" THEN "error" ELSE r
             g == [b.results EXCEPT ![t][k] = s]
             c == [count |-> b.count, results |-> g]
  <1>1. b.results \in [DOMAIN suite -> [Key -> Value]] /\ b.count \in [Kind \cup {"count"} -> Nat]
    BY DEF Books
  <1>2. Record(b, k, r) = c
    <2>1. b = [count |-> b.count, results |-> b.results]
      BY DEF Books
    <2>2. \A f, h : [[count |-> f, results |-> h] EXCEPT !.results[t][k] = IF @ = "error" THEN @ ELSE r] =
                    [count |-> f, results |-> [h EXCEPT ![t][k] = IF h[t][k] = "error" THEN h[t][k] ELSE r]]
      OBVIOUS
    <2> QED
      BY <2>1, <2>2 DEF Record
  <1>3. s \in Value
    BY DEF Value
  <1>4. g \in [DOMAIN suite -> [Key -> Value]]
    BY <1>1, <1>3
  <1>5. \A i \in DOMAIN suite : \A j \in Key : g[i][j] = IF <<i, j>> = <<t, k>> THEN s ELSE b.results[i][j]
    BY <1>1
  <1>6. \A x \in Kind : b.count[x] \in Nat
    BY <1>1
  <1> HIDE DEF s, g
  <1>7. c \in Books
    BY <1>1, <1>4 DEF Books
  <1>8. Message(b, c, k)
    BY <1>5, <1>6, <1>7 DEF Message
  <1> QED
    BY <1>2, <1>5, <1>7, <1>8 DEF s

\* One more of a kind.
LEMMA CountSteps ==
  ASSUME t \in DOMAIN suite, NEW b \in Books, Sums(b.count), NEW k \in Key
  PROVE  /\ Failed(b) \in Books /\ Failed(b).results = b.results /\ Message(b, Failed(b), k)
         /\ Troubles(Failed(b)) = Troubles(b) + 1
         /\ \A x \in Kind : Failed(b).count[x] =
              b.count[x] + IF x = (IF test.warning THEN "warning" ELSE "failed") THEN 1 ELSE 0
         /\ Passed(b) \in Books /\ Passed(b).results = b.results /\ Message(b, Passed(b), k)
         /\ \A x \in Kind : Passed(b).count[x] = b.count[x] + IF x = "passed" THEN 1 ELSE 0
  <1>1. /\ b \in [count : [Kind \cup {"count"} -> Nat], results : [DOMAIN suite -> [Key -> Value]]]
        /\ b.count \in [Kind \cup {"count"} -> Nat]
    BY DEF Books
  <1>2. \A x \in Kind \cup {"count"} : b.count[x] \in Nat
    BY <1>1
  <1>3. /\ Failed(b) \in Books /\ Failed(b).results = b.results
        /\ \A x \in Kind : Failed(b).count[x] =
             b.count[x] + IF x = (IF test.warning THEN "warning" ELSE "failed") THEN 1 ELSE 0
        /\ Failed(b).count.count = b.count.count + 1
    <2> DEFINE f == IF test.warning THEN [b.count EXCEPT !.count = @ + 1, !.warning = @ + 1]
                                    ELSE [b.count EXCEPT !.count = @ + 1, !.failed = @ + 1]
    <2>1. Failed(b) = [count |-> f, results |-> b.results]
      BY <1>1 DEF Failed, Kind
    <2>2. f \in [Kind \cup {"count"} -> Nat]
      <3>1. b.count.count + 1 \in Nat /\ b.count.passed + 1 \in Nat /\ b.count.failed + 1 \in Nat /\ b.count.warning + 1 \in Nat
        BY <1>2 DEF Kind
      <3> QED
        BY <1>1, <3>1
    <2>3. /\ \A x \in Kind : f[x] = b.count[x] + IF x = (IF test.warning THEN "warning" ELSE "failed") THEN 1 ELSE 0
          /\ f.count = b.count.count + 1
      BY <1>1, <1>2 DEF Kind
    <2> HIDE DEF f
    <2> QED
      BY <1>1, <2>1, <2>2, <2>3 DEF Books
  <1>4. /\ Passed(b) \in Books /\ Passed(b).results = b.results
        /\ \A x \in Kind : Passed(b).count[x] = b.count[x] + IF x = "passed" THEN 1 ELSE 0
        /\ Passed(b).count.count = b.count.count + 1
    <2> DEFINE f == [b.count EXCEPT !.count = @ + 1, !.passed = @ + 1]
    <2>1. Passed(b) = [count |-> f, results |-> b.results]
      <3>1. Passed(b) = [b EXCEPT !.count = f]
        BY <1>1 DEF Passed
      <3>2. [b EXCEPT !.count = f] = [count |-> f, results |-> b.results]
        BY <1>1
      <3> QED
        BY <3>1, <3>2
    <2>2. f \in [Kind \cup {"count"} -> Nat]
      <3>1. b.count.count + 1 \in Nat /\ b.count.passed + 1 \in Nat /\ b.count.failed + 1 \in Nat /\ b.count.warning + 1 \in Nat
        BY <1>2 DEF Kind
      <3> QED
        BY <1>1, <3>1
    <2>3. /\ \A x \in Kind : f[x] = b.count[x] + IF x = "passed" THEN 1 ELSE 0
          /\ f.count = b.count.count + 1
      BY <1>1, <1>2 DEF Kind
    <2> HIDE DEF f
    <2> QED
      BY <1>1, <2>1, <2>2, <2>3 DEF Books
  <1>5. Troubles(Failed(b)) = Troubles(b) + 1 /\ Sums(Failed(b).count)
    BY <1>2, <1>3 DEF Kind, Troubles, Sums
  <1>6. Sums(Passed(b).count)
    BY <1>2, <1>4 DEF Kind, Sums
  <1>7. Message(b, Failed(b), k)
    BY <1>2, <1>3, <1>5 DEF Message
  <1>8. Message(b, Passed(b), k)
    BY <1>2, <1>4, <1>6 DEF Message
  <1> QED
    BY <1>3, <1>4, <1>5, <1>7, <1>8

\* Two messages in a row, and what a further message may change.
LEMMA MessageThen ==
  ASSUME t \in DOMAIN suite, NEW b \in Books, NEW c, NEW k \in Key, Message(b, c, k)
  PROVE  /\ c \in Books /\ Sums(c.count) /\ Troubles(c) >= Troubles(b)
         /\ Troubles(b) \in Nat /\ Troubles(c) \in Nat
         /\ \A d : Message(c, d, k) => Message(b, d, k)
  <1>1. c \in Books /\ Sums(c.count) /\ (\A d : Message(c, d, k) => Message(b, d, k))
    BY MessageTrans DEF Message
  <1>2. \A x \in Kind : b.count[x] \in Nat /\ c.count[x] \in Nat /\ c.count[x] >= b.count[x]
    BY <1>1, BookType DEF Message
  <1>3. /\ {b.count.failed, b.count.warning, c.count.failed, c.count.warning} \subseteq Nat
        /\ c.count.failed >= b.count.failed /\ c.count.warning >= b.count.warning
    BY <1>2 DEF Kind
  <1> QED
    BY <1>1, <1>3 DEF Troubles

\* A result for which there is a counter is written with it.
LEMMA SkipSteps ==
  ASSUME t \in DOMAIN suite, NEW b \in Books, Sums(b.count), NEW k \in Key
  PROVE  /\ Message(b, Skip(b, k), k)
         /\ b.results[t][k] = "none" => Skip(b, k).results[t][k] = "skip" /\ Tallied(b, Skip(b, k), k)
  <1> DEFINE c == Record(b, k, "skip")
             f == [c.count EXCEPT !.skip = @ + 1]
             d == Skip(b, k)
  <1>1. /\ c \in Books /\ c.count = b.count /\ Message(b, c, k) /\ Sums(c.count)
        /\ c.results[t][k] = IF b.results[t][k] = "error" THEN "error" ELSE "skip"
    <2>1. "skip" \in Value
      BY DEF Value
    <2> QED
      BY <2>1, RecordSteps
  <1>2. c.count \in [Kind \cup {"count"} -> Nat] /\ c.count.skip + 1 \in Nat
    BY <1>1 DEF Books, Kind
  <1> HIDE DEF c
  <1>3. d = [count |-> f, results |-> c.results]
    <2>1. d = [c EXCEPT !.count = f]
      BY <1>1, <1>2 DEF Skip, Books, c
    <2>2. c \in [count : [Kind \cup {"count"} -> Nat], results : [DOMAIN suite -> [Key -> Value]]]
      BY <1>1 DEF Books
    <2> HIDE DEF f
    <2>3. [c EXCEPT !.count = f] = [count |-> f, results |-> c.results]
      BY <2>2
    <2> QED
      BY <2>1, <2>3
  <1>4. /\ f \in [Kind \cup {"count"} -> Nat]
        /\ \A x \in Kind : f[x] = b.count[x] + IF x = "skip" THEN 1 ELSE 0
        /\ Sums(f)
    BY <1>1, <1>2 DEF Kind, Sums
  <1> HIDE DEF f, d
  <1>5. d \in Books /\ Message(c, d, k)
    <2>1. d \in Books
      BY <1>1, <1>3, <1>4 DEF Books
    <2>2. \A x \in Kind : b.count[x] \in Nat
      BY BookType
    <2> QED
      BY <1>1, <1>3, <1>4, <2>1, <2>2 DEF Message
  <1>6. Message(b, d, k)
    BY <1>1, <1>5, MessageThen
  <1>7. ASSUME b.results[t][k] = "none"
        PROVE  d.results[t][k] = "skip" /\ Tallied(b, d, k)
    <2>1. d.results[t][k] = "skip" /\ KindOf(test, k, d.results[t][k]) = "skip"
      BY <1>1, <1>3, <1>7 DEF KindOf
    <2> QED
      BY <1>3, <1>4, <2>1 DEF Tallied
  <1> QED
    BY <1>6, <1>7 DEF d

\* A success is counted with its result.
LEMMA PassSteps ==
  ASSUME t \in DOMAIN suite, NEW b \in Books, Sums(b.count), NEW k \in Key
  PROVE  /\ Message(b, Pass(b, k), k)
         /\ b.results[t][k] = "none" =>
              /\ Pass(b, k).results[t][k] = "pass"
              /\ Asks(test, "config") \/ (test.judge # "nothing" /\ k # Whole) => Tallied(b, Pass(b, k), k)
  <1> DEFINE c == Record(b, k, "pass")
  <1>1. /\ c \in Books /\ c.count = b.count /\ Message(b, c, k) /\ Sums(c.count)
        /\ c.results[t][k] = IF b.results[t][k] = "error" THEN "error" ELSE "pass"
    <2>1. "pass" \in Value
      BY DEF Value
    <2> QED
      BY <2>1, RecordSteps
  <1>2. /\ Passed(c).results = c.results /\ Message(c, Passed(c), k)
        /\ \A x \in Kind : Passed(c).count[x] = c.count[x] + IF x = "passed" THEN 1 ELSE 0
    BY <1>1, CountSteps
  <1>3. Message(b, Passed(c), k)
    BY <1>1, <1>2, MessageThen
  <1>4. Pass(b, k) = Passed(c)
    BY DEF Pass
  <1> HIDE DEF c
  <1>5. ASSUME b.results[t][k] = "none", Asks(test, "config") \/ (test.judge # "nothing" /\ k # Whole)
        PROVE  Tallied(b, Passed(c), k)
    <2>1. KindOf(test, k, Passed(c).results[t][k]) = "passed"
      BY <1>1, <1>2, <1>5 DEF KindOf
    <2> QED
      BY <1>1, <1>2, <2>1 DEF Tallied
  <1> QED
    BY <1>1, <1>2, <1>3, <1>4, <1>5

\* A failure or an error is counted with its result.
LEMMA FailSteps ==
  ASSUME t \in DOMAIN suite, NEW b \in Books, Sums(b.count), NEW k \in Key, NEW r \in {"fail", "warning", "error"},
         test.warning \in BOOLEAN,
         r = "fail" => ~test.warning, r = "warning" => test.warning
  PROVE  LET c == Failed(Record(b, k, r)) IN
         /\ Message(b, c, k) /\ Troubles(c) = Troubles(b) + 1
         /\ r = "error" => c.results[t][k] = "error"
         /\ b.results[t][k] = "none" => c.results[t][k] = r /\ Tallied(b, c, k)
  <1> DEFINE d == Record(b, k, r)
             c == Failed(d)
             kind == IF test.warning THEN "warning" ELSE "failed"
  <1>1. /\ d \in Books /\ d.count = b.count /\ Message(b, d, k) /\ Sums(d.count)
        /\ d.results[t][k] = IF b.results[t][k] = "error" THEN "error" ELSE r
    <2>1. r \in Value
      BY DEF Value
    <2> QED
      BY <2>1, RecordSteps
  <1>2. /\ c.results = d.results /\ Message(d, c, k) /\ Troubles(c) = Troubles(d) + 1
        /\ \A x \in Kind : c.count[x] = d.count[x] + IF x = kind THEN 1 ELSE 0
    BY <1>1, CountSteps
  <1> HIDE DEF d, c
  <1>3. Message(b, c, k) /\ Troubles(d) = Troubles(b)
    BY <1>1, <1>2, MessageThen DEF Troubles
  <1>4. ASSUME b.results[t][k] = "none"
        PROVE  c.results[t][k] = r /\ Tallied(b, c, k)
    <2>1. c.results[t][k] = r /\ KindOf(test, k, c.results[t][k]) = kind
      BY <1>1, <1>2, <1>4 DEF KindOf
    <2> QED
      BY <1>1, <1>2, <2>1 DEF Tallied
  <1> QED
    BY <1>1, <1>2, <1>3, <1>4 DEF c, d

\* The messages of failures and errors.
LEMMA TroubleSteps ==
  ASSUME t \in DOMAIN suite, NEW b \in Books, Sums(b.count), NEW k \in Key, test.warning \in BOOLEAN
  PROVE  /\ Message(b, TestFail(b, k), k)
         /\ Message(b, Fail(b, k), k) /\ Troubles(Fail(b, k)) = Troubles(b) + 1
         /\ Message(b, Error(b, k), k) /\ Troubles(Error(b, k)) = Troubles(b) + 1
         /\ Error(b, k).results[t][k] = "error"
         /\ b.results[t][k] = "none" =>
              /\ Fail(b, k).results[t][k] \in {"fail", "warning"} /\ Tallied(b, Fail(b, k), k)
              /\ Tallied(b, Error(b, k), k)
  <1> DEFINE r == IF test.warning THEN "warning" ELSE "fail"
             c == Record(b, k, "fail")
  <1>1. /\ r \in {"fail", "warning", "error"} /\ (r = "fail" => ~test.warning) /\ (r = "warning" => test.warning)
        /\ r \in Value /\ TestFail(b, k) = Record(b, k, r) /\ Fail(b, k) = Failed(Record(b, k, r))
        /\ r \in {"fail", "warning"}
    BY DEF Value, TestFail, Fail
  <1> HIDE DEF r
  <1>2. Message(b, Record(b, k, r), k)
    BY <1>1, RecordSteps
  <1>3. LET f == Failed(Record(b, k, r)) IN
        /\ Message(b, f, k) /\ Troubles(f) = Troubles(b) + 1
        /\ b.results[t][k] = "none" => f.results[t][k] = r /\ Tallied(b, f, k)
    BY <1>1, FailSteps
  <1>4. LET e == Failed(Record(b, k, "error")) IN
        /\ Message(b, e, k) /\ Troubles(e) = Troubles(b) + 1 /\ e.results[t][k] = "error"
        /\ b.results[t][k] = "none" => Tallied(b, e, k)
    BY FailSteps
  <1>5. /\ c \in Books /\ Sums(c.count) /\ Message(b, c, k) /\ c.count = b.count
    <2>1. "fail" \in Value
      BY DEF Value
    <2> QED
      BY <2>1, RecordSteps
  <1>6. LET e == Failed(Record(c, k, "error")) IN
        /\ Message(c, e, k) /\ Troubles(e) = Troubles(c) + 1 /\ e.results[t][k] = "error"
        /\ \A x \in Kind : e.count[x] = b.count[x] + IF x = (IF test.warning THEN "warning" ELSE "failed") THEN 1 ELSE 0
    <2> DEFINE d == Record(c, k, "error")
    <2>1. "error" \in Value
      BY DEF Value
    <2>2. d \in Books /\ Sums(d.count) /\ d.count = b.count
      BY <1>5, <2>1, RecordSteps
    <2> HIDE DEF c
    <2>3. LET e == Failed(d) IN Message(c, e, k) /\ Troubles(e) = Troubles(c) + 1 /\ e.results[t][k] = "error"
      BY <1>5, FailSteps
    <2> HIDE DEF d
    <2>4. \A x \in Kind : Failed(d).count[x] = d.count[x] + IF x = (IF test.warning THEN "warning" ELSE "failed") THEN 1 ELSE 0
      BY <2>2, CountSteps
    <2> QED
      BY <2>2, <2>3, <2>4 DEF d
  <1>7. Error(b, k) = Failed(Record(c, k, "error")) /\ Troubles(c) = Troubles(b)
    BY <1>5 DEF Error, Troubles
  <1>8. Message(b, Error(b, k), k)
    BY <1>5, <1>6, <1>7, MessageThen
  <1>9. Tallied(b, Error(b, k), k)
    BY <1>6, <1>7 DEF Tallied, KindOf
  <1> QED
    BY <1>1, <1>2, <1>3, <1>6, <1>7, <1>8, <1>9

-----------------------------------------------------------------------------
(* Lemmas about attempts *)

\* What is known while a node is asked.
LEMMA AskedFacts ==
  ASSUME NEW n, NEW b, NEW report, Asked(n, b, report)
  PROVE  /\ t \in DOMAIN suite /\ test \in Test /\ n \in Node /\ n \in Key /\ n # Whole
         /\ b \in Books /\ Sums(b.count) /\ report \in BOOLEAN
         /\ test.warning \in BOOLEAN /\ test.expect_fail \in BOOLEAN /\ test.pass \in BOOLEAN
         /\ test.judge \in Judges /\ test.action[n] \in Actions
         /\ ~Asks(test, "config")
         /\ Asks(test, test.action[n])
         /\ test.action[n] = "wait" => test.judge = "nothing"
         /\ Troubles(b) \in Nat
         /\ \A x \in Kind : b.count[x] \in Nat
  <1>1. /\ suite \in Suites /\ t \in DOMAIN suite /\ n \in Range(test.nodes)
        /\ b \in Books /\ Sums(b.count) /\ report \in BOOLEAN /\ ~IsConfig
    BY DEF Asked
  <1>2. test \in Test /\ \A j \in DOMAIN test.nodes : test.nodes[j] \in Node
    BY <1>1, SuiteType DEF test
  <1>3. n \in Node /\ n \in Key /\ n # Whole
    BY <1>1, <1>2, ValidateAssumption DEF Range, Key
  <1>4. /\ test.warning \in BOOLEAN /\ test.expect_fail \in BOOLEAN /\ test.pass \in BOOLEAN
        /\ test.judge \in Judges /\ test.action \in [Node -> Actions]
    BY <1>2 DEF Test
  <1>5. ~Asks(test, "config") /\ Asks(test, test.action[n])
    BY <1>1 DEF Asks, IsConfig
  <1>6. test.action[n] = "wait" => test.judge = "nothing"
    BY <1>1, <1>3, ValidateAssumption DEF test
  <1>7. \A x \in Kind : b.count[x] \in Nat
    BY <1>1, <1>3, BookType
  <1>8. Troubles(b) \in Nat
    BY <1>7 DEF Troubles, Kind
  <1> QED
    BY <1>1, <1>2, <1>3, <1>4, <1>5, <1>6, <1>7, <1>8

\* Nothing is written.
LEMMA SilentSteps ==
  ASSUME NEW n, NEW b, NEW report, Asked(n, b, report)
  PROVE  /\ Message(b, b, n)
         /\ b.results[t][n] = "none" => Tallied(b, b, n)
  <1>1. b \in Books /\ Sums(b.count) /\ \A x \in Kind : b.count[x] \in Nat
    BY AskedFacts
  <1>2. Message(b, b, n)
    BY <1>1 DEF Message
  <1>3. ASSUME b.results[t][n] = "none"
        PROVE  Tallied(b, b, n)
    <2>1. KindOf(test, n, "none") = "none"
      BY DEF KindOf
    <2>2. "none" \notin Kind
      BY DEF Kind
    <2> QED
      BY <1>1, <1>3, <2>1, <2>2 DEF Tallied
  <1> QED
    BY <1>2, <1>3

\* An outcome that is not a failed check.
LEMMA GoodOutcome ==
  ASSUME NEW n, NEW b, NEW report, Asked(n, b, report), NEW c, Message(b, c, n),
         NEW ok \in {"none", "true"}, NEW seen \in {"none", "good", "bad"},
         seen = "bad" => Unseen(test),
         Plain(test) /\ b.results[t][n] = "none" =>
           /\ Tallied(b, c, n) /\ KindOf(test, n, c.results[t][n]) # "failed"
           /\ ok = "true" /\ test.judge # "nothing" => c.results[t][n] # "none"
  PROVE  Sound(n, b, report, Outcome(c, TRUE, ok, seen))
  BY DEF Sound, Outcome

\* A failed check.
LEMMA RejectedOutcome ==
  ASSUME NEW n, NEW b, NEW report, Asked(n, b, report), NEW c, Message(b, c, n),
         report => test.expect_fail \/ Troubles(c) > Troubles(b),
         Plain(test) /\ b.results[t][n] = "none" =>
           Tallied(b, c, n) /\ (~report => c.results[t][n] = "none")
  PROVE  Sound(n, b, report, Rejected(c, report))
  <1> DEFINE o == Rejected(c, report)
  <1>1. /\ report \in BOOLEAN /\ o.book = c /\ o.seen = "bad"
        /\ o.proc = report /\ o.ok = IF report THEN "false" ELSE "none"
    BY AskedFacts DEF Rejected, Outcome
  <1>2. ~report /\ Plain(test) /\ b.results[t][n] = "none" => KindOf(test, n, c.results[t][n]) # "failed"
    BY DEF KindOf
  <1> HIDE DEF o
  <1>3. ASSUME report
        PROVE  Sound(n, b, report, o)
    <2>1. o.proc = TRUE /\ o.ok = "false" /\ o.book = c /\ o.seen = "bad"
      BY <1>1, <1>3
    <2> QED
      BY <1>3, <2>1 DEF Sound
  <1>4. ASSUME ~report
        PROVE  Sound(n, b, report, o)
    <2>1. o.proc = FALSE /\ o.ok = "none" /\ o.book = c /\ o.seen = "bad"
      BY <1>1, <1>4
    <2> QED
      BY <1>2, <1>4, <2>1 DEF Sound
  <1> QED
    BY <1>3, <1>4 DEF o

\* An error.
LEMMA ErrorOutcome ==
  ASSUME NEW n, NEW b, NEW report, Asked(n, b, report)
  PROVE  Sound(n, b, report, Outcome(Error(b, n), TRUE, "false", "bad"))
  <1>1. /\ Message(b, Error(b, n), n) /\ Troubles(Error(b, n)) > Troubles(b)
        /\ Error(b, n).results[t][n] = "error"
        /\ b.results[t][n] = "none" => Tallied(b, Error(b, n), n)
    BY AskedFacts, TroubleSteps
  <1> QED
    BY <1>1 DEF Sound, Outcome

\* The check follows other messages, in a test that is not plain.
LEMMA SoundAfter ==
  ASSUME NEW n, NEW b, NEW report, Asked(n, b, report), NEW c, Message(b, c, n), NEW o, Sound(n, c, report, o), ~Plain(test)
  PROVE  Sound(n, b, report, o)
  <1>1. n \in Key /\ t \in DOMAIN suite /\ b \in Books
    BY AskedFacts
  <1>2. /\ c \in Books /\ Troubles(c) \in Nat /\ Troubles(b) \in Nat /\ Troubles(c) >= Troubles(b)
        /\ Message(b, o.book, n) /\ o.book \in Books
    BY <1>1, MessageThen DEF Sound, Message
  <1>3. Troubles(o.book) \in Nat
    BY <1>1, <1>2, MessageThen
  <1>4. Troubles(o.book) > Troubles(c) => Troubles(o.book) > Troubles(b)
    BY <1>2, <1>3
  <1> QED
    BY <1>2, <1>4 DEF Sound

\* The check of an expression.
LEMMA ExpressionSound ==
  ASSUME NEW n, NEW b, NEW report, Asked(n, b, report), test.judge = "valid", NEW o \in Expression(n, b, report)
  PROVE  Sound(n, b, report, o)
  <1>1. o = Outcome(Pass(b, n), TRUE, "true", "good") \/ o = Rejected(IF report THEN Fail(b, n) ELSE b, report)
    BY DEF Expression
  <1>2. CASE o = Outcome(Pass(b, n), TRUE, "true", "good")
    <2>1. /\ Message(b, Pass(b, n), n)
          /\ b.results[t][n] = "none" => Tallied(b, Pass(b, n), n) /\ Pass(b, n).results[t][n] = "pass"
      BY AskedFacts, PassSteps
    <2>2. KindOf(test, n, "pass") # "failed"
      BY DEF KindOf
    <2> QED
      BY <1>2, <2>1, <2>2, GoodOutcome
  <1>3. CASE o = Rejected(IF report THEN Fail(b, n) ELSE b, report)
    <2> DEFINE c == IF report THEN Fail(b, n) ELSE b
    <2>1. /\ Message(b, c, n) /\ (report => Troubles(c) > Troubles(b))
          /\ b.results[t][n] = "none" => Tallied(b, c, n)
          /\ ~report => c = b
      BY AskedFacts, TroubleSteps, SilentSteps
    <2> HIDE DEF c
    <2> QED
      BY <1>3, <2>1, RejectedOutcome DEF c
  <1> QED
    BY <1>1, <1>2, <1>3

\* The result of a plugin.
LEMMA PluginSound ==
  ASSUME NEW n, NEW b, NEW report, Asked(n, b, report), test.judge = "plugin", NEW o \in Plugin(n, b, report)
  PROVE  Sound(n, b, report, o)
  <1> DEFINE bad == TestFail(b, n)
             worse == Record(bad, n, "error")
  <1>1. \/ o = Outcome(b, TRUE, "none", "none")
        \/ o = Outcome(Skip(b, n), TRUE, "none", "none")
        \/ o = Outcome(Pass(b, n), TRUE, "true", "good")
        \/ ~report /\ o = Rejected(b, report)
        \/ report /\ test.expect_fail /\ o = Rejected(bad, report)
        \/ report /\ ~test.expect_fail /\ o = Rejected(Failed(bad), report)
        \/ report /\ ~test.expect_fail /\ o = Rejected(Failed(worse), report)
    BY AskedFacts DEF Plugin
  <1>2. CASE o = Outcome(b, TRUE, "none", "none")
    <2>1. b.results[t][n] = "none" => KindOf(test, n, b.results[t][n]) # "failed"
      BY DEF KindOf
    <2> QED
      BY <1>2, <2>1, SilentSteps, GoodOutcome
  <1>3. CASE o = Outcome(Skip(b, n), TRUE, "none", "none")
    <2>1. /\ Message(b, Skip(b, n), n)
          /\ b.results[t][n] = "none" => Tallied(b, Skip(b, n), n) /\ Skip(b, n).results[t][n] = "skip"
      BY AskedFacts, SkipSteps
    <2>2. KindOf(test, n, "skip") # "failed"
      BY DEF KindOf
    <2> QED
      BY <1>3, <2>1, <2>2, GoodOutcome
  <1>4. CASE o = Outcome(Pass(b, n), TRUE, "true", "good")
    <2>1. /\ Message(b, Pass(b, n), n)
          /\ b.results[t][n] = "none" => Tallied(b, Pass(b, n), n) /\ Pass(b, n).results[t][n] = "pass"
      BY AskedFacts, PassSteps
    <2>2. KindOf(test, n, "pass") # "failed"
      BY DEF KindOf
    <2> QED
      BY <1>4, <2>1, <2>2, GoodOutcome
  <1>5. CASE ~report /\ o = Rejected(b, report)
    BY <1>5, SilentSteps, RejectedOutcome
  <1>6. CASE report /\ test.expect_fail /\ o = Rejected(bad, report)
    <2>1. ~Plain(test)
      BY <1>6 DEF Plain
    <2>2. Message(b, bad, n)
      BY AskedFacts, TroubleSteps
    <2> QED
      BY <1>6, <2>1, <2>2, RejectedOutcome
  <1>7. CASE report /\ ~test.expect_fail /\ o = Rejected(Failed(bad), report)
    <2>1. Failed(bad) = Fail(b, n)
      BY DEF Fail
    <2>2. /\ Message(b, Fail(b, n), n) /\ Troubles(Fail(b, n)) > Troubles(b)
          /\ b.results[t][n] = "none" => Tallied(b, Fail(b, n), n)
      BY AskedFacts, TroubleSteps
    <2> QED
      BY <1>7, <2>1, <2>2, RejectedOutcome
  <1>8. CASE report /\ ~test.expect_fail /\ o = Rejected(Failed(worse), report)
    <2> DEFINE kind == IF test.warning THEN "warning" ELSE "failed"
    <2>1. bad \in Books /\ Sums(bad.count) /\ Message(b, bad, n) /\ bad.count = b.count
      <3>1. Message(b, bad, n)
        BY AskedFacts, TroubleSteps
      <3>2. bad \in Books /\ Sums(bad.count)
        BY <3>1 DEF Message
      <3>3. (IF test.warning THEN "warning" ELSE "fail") \in Value
        BY DEF Value
      <3> QED
        BY <3>1, <3>2, <3>3, AskedFacts, RecordSteps DEF TestFail
    <2> HIDE DEF bad
    <2>2. worse \in Books /\ Sums(worse.count) /\ worse.count = bad.count
      <3>1. "error" \in Value
        BY DEF Value
      <3> QED
        BY <2>1, <3>1, AskedFacts, RecordSteps
    <2>3. /\ Message(bad, Failed(worse), n) /\ Failed(worse).results[t][n] = "error"
          /\ Troubles(Failed(worse)) = Troubles(bad) + 1
      BY <2>1, AskedFacts, FailSteps
    <2> HIDE DEF worse
    <2>4. \A x \in Kind : Failed(worse).count[x] = worse.count[x] + IF x = kind THEN 1 ELSE 0
      BY <2>2, AskedFacts, CountSteps
    <2>5. KindOf(test, n, "error") = kind
      BY DEF KindOf
    <2>6. Tallied(b, Failed(worse), n)
      BY <2>1, <2>2, <2>3, <2>4, <2>5 DEF Tallied
    <2>7. Message(b, Failed(worse), n)
      BY <2>1, <2>3, AskedFacts, MessageThen
    <2>8. Troubles(Failed(worse)) > Troubles(b)
      BY <2>1, <2>3, AskedFacts DEF Troubles
    <2> QED
      BY <1>8, <2>6, <2>7, <2>8, RejectedOutcome
  <1> QED
    BY <1>1, <1>2, <1>3, <1>4, <1>5, <1>6, <1>7, <1>8

\* What becomes of an answer, or of an absent one nobody looks at.
LEMMA JudgeSound ==
  ASSUME NEW n, NEW b, NEW report, Asked(n, b, report), NEW seen \in {"good", "bad"},
         seen = "bad" /\ test.judge = "nothing" => Unseen(test), NEW o \in Judge(n, b, report, seen)
  PROVE  Sound(n, b, report, o)
  <1>1. test.judge \in {"valid", "undefined", "plugin", "nothing"}
    BY AskedFacts DEF Judges
  <1>2. CASE test.judge = "valid"
    <2>1. o \in Expression(n, b, report)
      BY <1>2 DEF Judge
    <2> QED
      BY <1>2, <2>1, ExpressionSound
  <1>3. CASE test.judge = "undefined"
    <2>1. o = Outcome(Skip(b, n), TRUE, "none", "none")
      BY <1>3 DEF Judge
    <2>2. /\ Message(b, Skip(b, n), n)
          /\ b.results[t][n] = "none" => Tallied(b, Skip(b, n), n) /\ Skip(b, n).results[t][n] = "skip"
      BY AskedFacts, SkipSteps
    <2>3. KindOf(test, n, "skip") # "failed"
      BY DEF KindOf
    <2> QED
      BY <2>1, <2>2, <2>3, GoodOutcome
  <1>4. CASE test.judge = "plugin"
    <2>1. o \in Plugin(n, b, report)
      BY <1>4 DEF Judge
    <2> QED
      BY <1>4, <2>1, PluginSound
  <1>5. CASE test.judge = "nothing"
    <2> DEFINE d == Record(b, n, "pass")
               c == IF test.pass THEN d ELSE b
    <2>1. o = Outcome(c, TRUE, "none", seen)
      BY <1>5 DEF Judge
    <2>2. /\ d.count = b.count /\ Message(b, d, n)
          /\ b.results[t][n] = "none" => d.results[t][n] = "pass"
      <3>1. "pass" \in Value
        BY DEF Value
      <3> QED
        BY <3>1, AskedFacts, RecordSteps
    <2> HIDE DEF d
    <2>3. /\ Message(b, c, n)
          /\ b.results[t][n] = "none" => c.count = b.count /\ c.results[t][n] \in {"none", "pass"}
      BY <2>2, SilentSteps
    <2> HIDE DEF c
    <2>4. b.results[t][n] = "none" => KindOf(test, n, c.results[t][n]) = "none"
      BY <1>5, <2>3, AskedFacts DEF KindOf
    <2>5. b.results[t][n] = "none" => Tallied(b, c, n)
      BY <2>3, <2>4, AskedFacts DEF Tallied, Kind
    <2>6. seen = "bad" => Unseen(test)
      BY <1>5
    <2>7. Sound(n, b, report, Outcome(c, TRUE, "none", seen))
      BY <2>3, <2>4, <2>5, <2>6, GoodOutcome
    <2> QED
      BY <2>1, <2>7
  <1> QED
    BY <1>1, <1>2, <1>3, <1>4, <1>5

\* The outcome of show and ansible.
LEMMA ShowSound ==
  ASSUME NEW n, NEW b, NEW report, Asked(n, b, report), NEW o \in Show(n, b, report)
  PROVE  Sound(n, b, report, o)
  <1>1. CASE o = Outcome(Error(b, n), TRUE, "false", "bad")
    BY <1>1, ErrorOutcome
  <1>2. CASE o \in Judge(n, b, report, "good")
    BY <1>2, JudgeSound
  <1> QED
    BY <1>1, <1>2 DEF Show

\* The outcome of exec.
LEMMA ExecSound ==
  ASSUME NEW n, NEW b, NEW report, Asked(n, b, report), test.action[n] = "exec", NEW o \in Exec(n, b, report)
  PROVE  Sound(n, b, report, o)
  <1> DEFINE e == Record(b, n, "error")
  <1>1. \/ o \in Judge(n, b, report, "good")
        \/ \E c \in {b} \cup IF test.judge = "plugin" THEN {e} ELSE {} :
             \/ report /\ o = Outcome(Error(c, n), TRUE, "false", "bad")
             \/ ~report /\ o \in Judge(n, c, report, "bad")
    BY AskedFacts DEF Exec
  <1>2. /\ e \in Books /\ Sums(e.count) /\ Message(b, e, n)
        /\ Asked(n, e, report)
    <2>1. "error" \in Value
      BY DEF Value
    <2>2. e \in Books /\ Message(b, e, n) /\ e.count = b.count
      BY <2>1, AskedFacts, RecordSteps
    <2> HIDE DEF e
    <2> QED
      BY <2>2 DEF Asked
  <1>3. ~report /\ test.judge = "nothing" => Unseen(test)
    BY AskedFacts DEF Unseen, Asked
  <1>4. test.judge = "plugin" => ~Plain(test)
    BY AskedFacts DEF Plain
  <1> HIDE DEF e
  <1>5. CASE o \in Judge(n, b, report, "good")
    BY <1>5, JudgeSound
  <1>6. CASE o = Outcome(Error(b, n), TRUE, "false", "bad")
    BY <1>6, ErrorOutcome
  <1>7. CASE ~report /\ o \in Judge(n, b, report, "bad")
    BY <1>3, <1>7, JudgeSound
  <1>8. CASE test.judge = "plugin" /\ o = Outcome(Error(e, n), TRUE, "false", "bad")
    <2>1. Sound(n, e, report, o)
      BY <1>2, <1>8, ErrorOutcome
    <2> QED
      BY <1>2, <1>4, <1>8, <2>1, SoundAfter
  <1>9. CASE test.judge = "plugin" /\ ~report /\ o \in Judge(n, e, report, "bad")
    <2>1. Sound(n, e, report, o)
      BY <1>2, <1>9, JudgeSound
    <2> QED
      BY <1>2, <1>4, <1>9, <2>1, SoundAfter
  <1> QED
    BY <1>1, <1>5, <1>6, <1>7, <1>8, <1>9

\* Failed checks of suzieq: the node is counted, perhaps after a bad record.
LEMMA SuzieqRejected ==
  ASSUME NEW n, NEW b, NEW report, Asked(n, b, report), ~Plain(test), NEW c, Message(b, c, n)
  PROVE  /\ Message(b, IF report THEN Fail(c, n) ELSE c, n)
         /\ Sound(n, b, report, Rejected(IF report THEN Fail(c, n) ELSE c, report))
  <1> DEFINE d == IF report THEN Fail(c, n) ELSE c
  <1>1. n \in Key /\ t \in DOMAIN suite /\ b \in Books /\ test.warning \in BOOLEAN
    BY AskedFacts
  <1>2. c \in Books /\ Sums(c.count) /\ Troubles(c) >= Troubles(b) /\ Troubles(c) \in Nat /\ Troubles(b) \in Nat
    BY <1>1, MessageThen
  <1>3. /\ report => Message(c, d, n) /\ Troubles(d) = Troubles(c) + 1
        /\ ~report => d = c
    BY <1>1, <1>2, TroubleSteps
  <1> HIDE DEF d
  <1>4. Message(b, d, n)
    BY <1>1, <1>3, MessageThen
  <1>5. report => Troubles(d) > Troubles(b)
    BY <1>2, <1>3
  <1>6. Sound(n, b, report, Rejected(d, report))
    BY <1>4, <1>5, RejectedOutcome
  <1> QED
    BY <1>4, <1>6 DEF d

\* The records of suzieq.
LEMMA RecordsSound ==
  ASSUME NEW n, NEW b, NEW report, Asked(n, b, report), ~Plain(test), NEW o \in Records(n, b, report)
  PROVE  Sound(n, b, report, o)
  <1>1. n \in Key /\ t \in DOMAIN suite /\ b \in Books /\ Sums(b.count) /\ report \in BOOLEAN
        /\ test.warning \in BOOLEAN
    BY AskedFacts
  <1>2. CASE test.judge = "undefined"
    <2>1. o = Rejected(IF report THEN Fail(Skip(b, n), n) ELSE Skip(b, n), report)
      BY <1>2 DEF Records
    <2>2. Message(b, Skip(b, n), n)
      BY <1>1, SkipSteps
    <2> QED
      BY <2>1, <2>2, SuzieqRejected
  <1>3. CASE test.judge # "undefined"
    <2>1. PICK c \in {b, Fail(b, n)} :
            o \in {Outcome(Pass(c, n), TRUE, "true", "good"), Rejected(IF report THEN Fail(c, n) ELSE c, report)}
      BY <1>3 DEF Records
    <2>2. Message(b, c, n)
      BY <1>1, SilentSteps, TroubleSteps
    <2>3. c \in Books /\ Sums(c.count)
      BY <2>2 DEF Message
    <2>4. CASE o = Outcome(Pass(c, n), TRUE, "true", "good")
      <3>1. Message(b, Pass(c, n), n)
        BY <1>1, <2>2, <2>3, PassSteps, MessageThen
      <3> QED
        BY <2>4, <3>1, GoodOutcome
    <2>5. CASE o = Rejected(IF report THEN Fail(c, n) ELSE c, report)
      BY <2>2, <2>5, SuzieqRejected
    <2> QED
      BY <2>1, <2>4, <2>5
  <1> QED
    BY <1>2, <1>3

\* The outcome of suzieq.
LEMMA SuzieqSound ==
  ASSUME NEW n, NEW b, NEW report, Asked(n, b, report), test.action[n] = "suzieq", NEW o \in Suzieq(n, b, report)
  PROVE  Sound(n, b, report, o)
  <1> DEFINE failed == Record(b, n, "fail")
  <1>1. /\ n \in Key /\ t \in DOMAIN suite /\ b \in Books /\ Sums(b.count) /\ report \in BOOLEAN
        /\ test.warning \in BOOLEAN /\ test.pass \in BOOLEAN
    BY AskedFacts
  <1>2. ~Plain(test) /\ (test.judge = "nothing" => Unseen(test))
    BY AskedFacts DEF Plain, Unseen
  <1>3. failed \in Books /\ Message(b, failed, n) /\ Sums(failed.count) /\ Message(b, b, n)
    <2>1. "fail" \in Value
      BY DEF Value
    <2> QED
      BY <1>1, <2>1, RecordSteps, SilentSteps
  <1> HIDE DEF failed
  <1>4. \/ \E c \in {b, failed} : o = Rejected(IF report THEN Fail(c, n) ELSE c, report)
        \/ test.judge = "nothing" /\ \E c \in {b, failed} : \E seen \in {"good", "bad"} :
             o = Outcome(IF test.pass THEN Record(c, n, "pass") ELSE c, TRUE, "true", seen)
        \/ o \in Records(n, b, report)
        \/ o = Rejected(IF report THEN Fail(Fail(failed, n), n) ELSE failed, report)
        \/ o = Outcome(b, TRUE, "none", "good")
    BY DEF Suzieq, failed
  <1>5. ASSUME NEW c \in {b, failed}, o = Rejected(IF report THEN Fail(c, n) ELSE c, report)
        PROVE  Sound(n, b, report, o)
    BY <1>2, <1>3, <1>5, SuzieqRejected
  <1>6. ASSUME test.judge = "nothing", NEW c \in {b, failed}, NEW seen \in {"good", "bad"},
               o = Outcome(IF test.pass THEN Record(c, n, "pass") ELSE c, TRUE, "true", seen)
        PROVE  Sound(n, b, report, o)
    <2> DEFINE d == IF test.pass THEN Record(c, n, "pass") ELSE c
    <2>1. Message(b, d, n)
      <3>1. "pass" \in Value
        BY DEF Value
      <3>2. c \in Books /\ Sums(c.count) /\ Message(b, c, n)
        BY <1>1, <1>3
      <3>3. Message(c, Record(c, n, "pass"), n)
        BY <1>1, <3>1, <3>2, RecordSteps
      <3> QED
        BY <1>1, <3>2, <3>3, MessageThen
    <2> HIDE DEF d
    <2>2. Sound(n, b, report, Outcome(d, TRUE, "true", seen))
      BY <1>2, <1>6, <2>1, GoodOutcome
    <2> QED
      BY <1>6, <2>2 DEF d
  <1>7. CASE o \in Records(n, b, report)
    BY <1>2, <1>7, RecordsSound
  <1>8. CASE o = Rejected(IF report THEN Fail(Fail(failed, n), n) ELSE failed, report)
    <2> DEFINE c == IF report THEN Fail(failed, n) ELSE failed
    <2>1. Message(b, c, n)
      BY <1>2, <1>3, SuzieqRejected
    <2>2. o = Rejected(IF report THEN Fail(c, n) ELSE c, report)
      BY <1>1, <1>8
    <2> HIDE DEF c
    <2> QED
      BY <1>2, <2>1, <2>2, SuzieqRejected
  <1>9. CASE o = Outcome(b, TRUE, "none", "good")
    BY <1>2, <1>3, <1>9, GoodOutcome
  <1> QED
    BY <1>4, <1>5, <1>6, <1>7, <1>8, <1>9

\* The outcome of any attempt.
LEMMA ExecuteSound ==
  ASSUME NEW n, NEW b, NEW report, Asked(n, b, report), NEW o \in Execute(n, b, report)
  PROVE  Sound(n, b, report, o)
  <1>1. test.action[n] \in Actions
    BY AskedFacts
  <1>2. CASE test.action[n] \in {"show", "ansible"}
    <2>1. o \in Show(n, b, report)
      BY <1>2 DEF Execute
    <2> QED
      BY <2>1, ShowSound
  <1>3. CASE test.action[n] = "exec"
    <2>1. o \in Exec(n, b, report)
      BY <1>3 DEF Execute
    <2> QED
      BY <1>3, <2>1, ExecSound
  <1>4. CASE test.action[n] = "suzieq"
    <2>1. o \in Suzieq(n, b, report)
      BY <1>4 DEF Execute
    <2> QED
      BY <1>4, <2>1, SuzieqSound
  <1>5. CASE test.action[n] = "wait"
    <2>1. o = Outcome(b, TRUE, "true", "none")
      BY <1>5 DEF Execute
    <2>2. /\ Message(b, b, n) /\ test.judge = "nothing"
          /\ b.results[t][n] = "none" => Tallied(b, b, n) /\ KindOf(test, n, b.results[t][n]) # "failed"
      BY <1>5, AskedFacts, SilentSteps DEF KindOf
    <2> QED
      BY <2>1, <2>2, GoodOutcome
  <1>6. CASE test.action[n] \in {"config", "none"}
    <2>1. o = Outcome(Skip(b, n), TRUE, "none", "none")
      BY <1>6 DEF Execute
    <2>2. /\ Message(b, Skip(b, n), n)
          /\ b.results[t][n] = "none" => Tallied(b, Skip(b, n), n) /\ Skip(b, n).results[t][n] = "skip"
      BY AskedFacts, SkipSteps
    <2>3. KindOf(test, n, "skip") # "failed"
      BY DEF KindOf
    <2> QED
      BY <2>1, <2>2, <2>3, GoodOutcome
  <1> QED
    BY <1>1, <1>2, <1>3, <1>4, <1>5, <1>6 DEF Actions

-----------------------------------------------------------------------------
(* The steps *)

\* The end of a test: a message about it, or none.
Concludes(c, ret) ==
  /\ t \in DOMAIN suite /\ phase \in {"begin", "round"} /\ queue = {} /\ remaining = {}
  /\ Write(c) /\ End(ret)
  /\ ret \in {"none", "true", "false"}
  /\ clock' \in Nat /\ clock' >= clock
  /\ Message(Book, c, Whole)
  /\ Plain(test) =>
       /\ Tallied(Book, c, Whole)
       /\ KindOf(test, Whole, c.results[t][Whole]) = "failed" \/ (phase = "round" /\ ret_value = "false") => ret = "false"
       /\ phase = "round" => c.results[t][Whole] \in {"none", "pass"}
       /\ c.results[t][Whole] = "pass" => IsConfig \/ (phase = "round" /\ ret_value = "true")

\* An attempt at the node at place i with its outcome.
Attempted(i, n, o) ==
  /\ phase = "round" /\ t \in DOMAIN suite
  /\ i \in queue /\ i \in DOMAIN test.nodes /\ n = test.nodes[i] /\ n \in Node
  /\ Sound(n, Book, clock >= stop_time, o)
  /\ queue' = queue \ {i}
  /\ Write(o.book)
  /\ remaining' = IF o.proc THEN {j \in remaining : test.nodes[j] # n} ELSE remaining
  /\ ret_value' = IF o.ok = "false" \/ (o.ok = "true" /\ ret_value = "none") THEN o.ok ELSE ret_value
  /\ last' = [last EXCEPT ![t][n] = o.seen]
  /\ UNCHANGED <<suite, t, phase, times, exit, verdicts>>

\* A wait ends the command, because tests have failed.
Stops ==
  /\ phase = "begin" /\ t \in DOMAIN suite /\ TEST_COUNT.failed > 0
  /\ Abort(1)
  /\ UNCHANGED <<suite, t, queue, remaining, ret_value, times, book, verdicts, last>>

\* The counters and the results make a book.
LEMMA BookOK ==
  ASSUME TypeOK
  PROVE  /\ Book \in Books /\ Sums(Book.count) /\ Book.count = TEST_COUNT /\ Book.results = results
         /\ Whole \in Key /\ Node \subseteq Key /\ Whole \notin Node
         /\ {TEST_COUNT.passed, TEST_COUNT.failed, TEST_COUNT.warning, TEST_COUNT.skip} \subseteq Nat
         /\ Troubles(Book) \in Nat /\ Troubles(Book) = TEST_COUNT.failed + TEST_COUNT.warning
  <1>1. /\ {"passed", "failed", "warning", "count", "skip"} = Kind \cup {"count"}
        /\ {"none", "pass", "skip", "warning", "fail", "error"} = Value
    BY DEF Kind, Value
  <1>2. /\ TEST_COUNT \in [Kind \cup {"count"} -> Nat]
        /\ TEST_COUNT.count = TEST_COUNT.passed + TEST_COUNT.failed + TEST_COUNT.warning
        /\ results \in [DOMAIN suite -> [Key -> Value]]
    BY <1>1 DEF TypeOK, Key
  <1>3. Book.count = TEST_COUNT /\ Book.results = results /\ Book \in Books
    BY <1>2 DEF Book, Books
  <1>4. {TEST_COUNT.passed, TEST_COUNT.failed, TEST_COUNT.warning, TEST_COUNT.skip} \subseteq Nat
    BY <1>2 DEF Kind
  <1>5. Whole \in Key /\ Node \subseteq Key /\ Whole \notin Node
    BY ValidateAssumption DEF Key
  <1> QED
    BY <1>2, <1>3, <1>4, <1>5 DEF Sums, Troubles

\* A book that is written makes the counters and the results.
LEMMA WriteOK ==
  ASSUME NEW c \in Books, Sums(c.count), Write(c)
  PROVE  /\ TEST_COUNT' \in [{"passed", "failed", "warning", "count", "skip"} -> Nat]
         /\ TEST_COUNT'.count = TEST_COUNT'.passed + TEST_COUNT'.failed + TEST_COUNT'.warning
         /\ results' \in [DOMAIN suite -> [Node \cup {Whole} ->
                            {"none", "pass", "skip", "warning", "fail", "error"}]]
         /\ Book' = c
  <1>1. /\ {"passed", "failed", "warning", "count", "skip"} = Kind \cup {"count"}
        /\ {"none", "pass", "skip", "warning", "fail", "error"} = Value
    BY DEF Kind, Value
  <1>2. /\ c.count \in [Kind \cup {"count"} -> Nat] /\ c.results \in [DOMAIN suite -> [Key -> Value]]
        /\ c = [count |-> c.count, results |-> c.results]
    BY DEF Books
  <1>3. TEST_COUNT' = c.count /\ results' = c.results
    BY DEF Write
  <1> QED
    BY <1>1, <1>2, <1>3 DEF Sums, Key, Book

\* The time of a test is a number, and not zero only if somebody asked for it.
LEMMA WaitType ==
  ASSUME suite \in Suites, NEW i \in DOMAIN suite
  PROVE  /\ Wait(i) \in Nat
         /\ Wait(i) > 0 => suite[i].wait > 0 \/ suite[i].device_wait > 0
  <1>1. suite[i].wait \in Nat \cup {Never} /\ suite[i].device_wait \in Nat
    BY SuiteType DEF Test
  <1>2. Never \in Int /\ Never < 0 /\ Delay \in Nat
    BY ValidateAssumption
  <1> DEFINE delayed == suite[i].wait > 0 /\ \A j \in 1..(i - 1) : suite[j].wait <= 0
             own == IF delayed THEN suite[i].wait + Delay ELSE IF suite[i].wait = Never THEN 0 ELSE suite[i].wait
  <1>3. own \in Nat /\ (own > 0 => suite[i].wait > 0)
    BY <1>1, <1>2
  <1>4. Wait(i) = IF own > suite[i].device_wait THEN own ELSE suite[i].device_wait
    BY DEF Wait
  <1> HIDE DEF own
  <1> QED
    BY <1>1, <1>3, <1>4

\* The steps that end a test.
LEMMA ConcludeSteps ==
  ASSUME TypeOK, Shape, Empty,
         (PureWait /\ phase' = "end") \/ NoNodes \/ ExecuteNetlabConfig \/ FinishTest
  PROVE  \E c, ret : Concludes(c, ret)
  <1>1. /\ Book \in Books /\ Sums(Book.count) /\ Whole \in Key
        /\ Book.count = TEST_COUNT /\ Book.results = results
    BY BookOK
  <1>2. /\ t \in DOMAIN suite /\ phase \in {"begin", "round"} /\ queue = {} /\ remaining = {}
        /\ suite \in Suites /\ suite[t] = test
    <2>1. t \in Nat \ {0} /\ suite \in Suites /\ DOMAIN suite = 1..Len(suite) /\ Len(suite) \in Nat
      BY SuiteType DEF TypeOK
    <2> QED
      BY <2>1 DEF PureWait, NoNodes, ExecuteNetlabConfig, FinishTest, Begins, Shape, test
  <1>3. test \in Test /\ test.warning \in BOOLEAN /\ test.expect_fail \in BOOLEAN
    <2>1. test \in Test
      BY <1>2, SuiteType
    <2> QED
      BY <2>1 DEF Test
  <1>4. Book.results[t][Whole] = "none"
    BY <1>1, <1>2, SuiteType DEF Empty, Unused, TypeOK
  <1>5. clock \in Nat /\ start_time \in Nat /\ Wait(t) \in Nat /\ ret_value \in {"none", "true", "false"}
    BY <1>2, WaitType DEF TypeOK
  <1>6. Message(Book, Book, Whole) /\ Tallied(Book, Book, Whole)
    <2>1. \A x \in Kind : Book.count[x] \in Nat
      BY <1>1, <1>2, BookType
    <2>2. KindOf(test, Whole, "none") = "none" /\ "none" \notin Kind
      BY DEF KindOf, Kind
    <2> QED
      BY <1>1, <1>4, <2>1, <2>2 DEF Message, Tallied
  <1>7. UNCHANGED book => Write(Book)
    BY <1>1 DEF book, Write
  <1>8. CASE PureWait /\ phase' = "end"
    <2>1. CASE test.warning /\ Write(Fail(Book, Whole)) /\ End("false") /\ UNCHANGED clock
      <3>1. /\ Message(Book, Fail(Book, Whole), Whole) /\ Tallied(Book, Fail(Book, Whole), Whole)
            /\ Fail(Book, Whole).results[t][Whole] \in {"fail", "warning"}
        BY <1>1, <1>2, <1>3, <1>4, TroubleSteps
      <3>2. phase = "begin"
        BY <1>8 DEF PureWait, Begins
      <3> QED
        BY <1>2, <1>5, <2>1, <3>1, <3>2 DEF Concludes
    <2>2. CASE /\ clock' = IF clock > start_time + Wait(t) THEN clock ELSE start_time + Wait(t)
               /\ End("none") /\ UNCHANGED book
      <3>1. phase = "begin" /\ clock' \in Nat /\ clock' >= clock
        BY <1>5, <1>8, <2>2 DEF PureWait, Begins
      <3>2. Concludes(Book, "none")
        BY <1>2, <1>4, <1>6, <1>7, <2>2, <3>1 DEF Concludes, KindOf
      <3> QED
        BY <3>2
    <2> QED
      BY <1>8, <2>1, <2>2 DEF PureWait, Abort
  <1>9. CASE NoNodes
    <2>1. /\ Message(Book, Skip(Book, Whole), Whole) /\ Tallied(Book, Skip(Book, Whole), Whole)
          /\ Skip(Book, Whole).results[t][Whole] = "skip"
      BY <1>1, <1>2, <1>4, SkipSteps
    <2>2. phase = "begin" /\ Write(Skip(Book, Whole)) /\ End("none") /\ UNCHANGED clock
      BY <1>9 DEF NoNodes, Begins
    <2>3. Concludes(Skip(Book, Whole), "none")
      BY <1>2, <1>5, <2>1, <2>2 DEF Concludes, KindOf
    <2> QED
      BY <2>3
  <1>10. CASE ExecuteNetlabConfig
    <2>1. phase = "begin" /\ IsConfig /\ UNCHANGED clock /\ Asks(test, "config")
      BY <1>10 DEF ExecuteNetlabConfig, Begins, IsConfig, Asks
    <2>2. CASE Write(Pass(Book, Whole)) /\ End("true")
      <3>1. /\ Message(Book, Pass(Book, Whole), Whole) /\ Tallied(Book, Pass(Book, Whole), Whole)
            /\ Pass(Book, Whole).results[t][Whole] = "pass"
        BY <1>1, <1>2, <1>4, <2>1, PassSteps
      <3>2. Concludes(Pass(Book, Whole), "true")
        BY <1>2, <1>5, <2>1, <2>2, <3>1 DEF Concludes, KindOf
      <3> QED
        BY <3>2
    <2>3. CASE Write(Failed(Record(Book, Whole, "fail"))) /\ End("false")
      <3> DEFINE d == Record(Book, Whole, "fail")
      <3>1. d \in Books /\ Message(Book, d, Whole) /\ Sums(d.count)
        <4>1. "fail" \in Value
          BY DEF Value
        <4> QED
          BY <1>1, <1>2, <4>1, RecordSteps
      <3>2. Message(d, Failed(d), Whole) /\ Failed(d).results = d.results
        BY <1>1, <1>2, <3>1, CountSteps
      <3>3. Plain(test) => /\ Tallied(Book, Failed(d), Whole)
                           /\ Failed(d).results[t][Whole] = "fail"
        <4>1. Plain(test) => ~test.warning
          BY <2>1 DEF Plain
        <4> QED
          BY <1>1, <1>2, <1>3, <1>4, <4>1, FailSteps
      <3> HIDE DEF d
      <3>4. Message(Book, Failed(d), Whole)
        BY <1>1, <1>2, <3>1, <3>2, MessageThen
      <3>5. Concludes(Failed(d), "false")
        BY <1>2, <1>5, <2>1, <2>3, <3>3, <3>4 DEF Concludes, d
      <3> QED
        BY <3>5
    <2> QED
      BY <1>10, <2>2, <2>3 DEF ExecuteNetlabConfig
  <1>11. CASE FinishTest
    <2>1. phase = "round" /\ UNCHANGED clock
      BY <1>11 DEF FinishTest
    <2> DEFINE f == Record(Book, Whole, "fail")
               p == Record(Book, Whole, "pass")
    <2>2. /\ f \in Books /\ Sums(f.count) /\ Message(Book, f, Whole)
          /\ p.count = TEST_COUNT /\ Message(Book, p, Whole) /\ p.results[t][Whole] = "pass"
      <3>1. "fail" \in Value /\ "pass" \in Value
        BY DEF Value
      <3> QED
        BY <1>1, <1>2, <1>4, <3>1, RecordSteps
    <2> HIDE DEF f, p
    <2>3. Message(Book, Failed(f), Whole) /\ Message(Book, Pass(Book, Whole), Whole)
      <3>1. Message(f, Failed(f), Whole)
        BY <1>1, <1>2, <2>2, CountSteps
      <3> QED
        BY <1>1, <1>2, <2>2, <3>1, MessageThen, PassSteps
    <2>4. CASE test.expect_fail
      <3>1. ~Plain(test)
        BY <2>4 DEF Plain
      <3>2. CASE ret_value = "true"
        <4>1. Write(Failed(f)) /\ End("false")
          BY <1>11, <2>4, <3>2 DEF FinishTest, f
        <4>2. Concludes(Failed(f), "false")
          BY <1>2, <1>5, <2>1, <2>3, <3>1, <4>1 DEF Concludes
        <4> QED
          BY <4>2
      <3>3. CASE ret_value = "false"
        <4>1. Write(Pass(Book, Whole)) /\ End("true")
          BY <1>11, <2>4, <3>3 DEF FinishTest
        <4>2. Concludes(Pass(Book, Whole), "true")
          BY <1>2, <1>5, <2>1, <2>3, <3>1, <4>1 DEF Concludes
        <4> QED
          BY <4>2
      <3>4. CASE ret_value = "none"
        <4>1. Write(Book) /\ End("none")
          BY <1>7, <1>11, <2>4, <3>4 DEF FinishTest
        <4>2. Concludes(Book, "none")
          BY <1>2, <1>5, <1>6, <2>1, <3>1, <4>1 DEF Concludes
        <4> QED
          BY <4>2
      <3> QED
        BY <1>5, <3>2, <3>3, <3>4
    <2>5. CASE ~test.expect_fail
      <3> DEFINE c == IF ret_value = "true" THEN p ELSE Book
      <3>1. Write(c) /\ End(ret_value)
        BY <1>11, <2>5 DEF FinishTest, p
      <3>2. ret_value = "true" => Tallied(Book, p, Whole) \/ IsConfig
        <4>1. KindOf(test, Whole, "pass") = "none" \/ IsConfig
          BY DEF KindOf, Asks, IsConfig
        <4>2. "none" \notin Kind /\ \A x \in Kind : Book.count[x] \in Nat
          BY <1>1, <1>2, BookType DEF Kind
        <4> QED
          BY <1>1, <2>2, <4>1, <4>2 DEF Tallied
      <3>3. ~IsConfig
        BY <2>1 DEF Shape
      <3>4. Message(Book, c, Whole) /\ Tallied(Book, c, Whole)
        BY <1>6, <2>2, <3>2, <3>3
      <3>5. /\ c.results[t][Whole] \in {"none", "pass"}
            /\ c.results[t][Whole] = "pass" => ret_value = "true"
        BY <1>4, <2>2
      <3>6. KindOf(test, Whole, c.results[t][Whole]) # "failed"
        BY <3>5 DEF KindOf
      <3> HIDE DEF c
      <3>7. Concludes(c, ret_value)
        BY <1>2, <1>5, <2>1, <3>1, <3>4, <3>5, <3>6 DEF Concludes
      <3> QED
        BY <3>7
    <2> QED
      BY <2>4, <2>5
  <1> QED
    BY <1>8, <1>9, <1>10, <1>11

\* An attempt has a sound outcome.
LEMMA AttemptSteps ==
  ASSUME TypeOK, Shape, Attempt
  PROVE  \E i, n, o : Attempted(i, n, o)
  <1>1. /\ Book \in Books /\ Sums(Book.count)
        /\ suite \in Suites /\ t \in DOMAIN suite /\ phase = "round" /\ ~IsConfig /\ test = suite[t]
        /\ clock \in Nat /\ stop_time \in Nat
        /\ stop_time > clock => test.wait > 0 \/ test.device_wait > 0
    BY BookOK DEF TypeOK, Shape, Attempt, test
  <1>2. PICK i \in queue : \E o \in Execute(test.nodes[i], Book, clock >= stop_time) :
          Attempted(i, test.nodes[i], o) \/ ~Sound(test.nodes[i], Book, clock >= stop_time, o)
    <2>1. \A i \in queue : i \in DOMAIN test.nodes /\ test.nodes[i] \in Node
      <3>1. t <= Len(suite)
        BY <1>1, SuiteType
      <3> QED
        BY <1>1, <3>1, SuiteType DEF TypeOK
    <2> QED
      BY <1>1, <2>1 DEF Attempt, Attempted
  <1>3. i \in DOMAIN test.nodes
    <2>1. t <= Len(suite)
      BY <1>1, SuiteType
    <2> QED
      BY <2>1 DEF TypeOK
  <1>4. test.nodes[i] \in Node /\ test.nodes[i] \in Range(test.nodes)
    BY <1>1, <1>3, SuiteType DEF Range
  <1>5. Asked(test.nodes[i], Book, clock >= stop_time)
    BY <1>1, <1>4 DEF Asked
  <1> QED
    BY <1>2, <1>5, ExecuteSound

\* A step ends a test, asks a node, or leaves the results alone.
LEMMA Steps ==
  ASSUME TypeOK, Shape, Empty, [Next]_vars
  PROVE  \/ \E c, ret : Concludes(c, ret)
         \/ \E i, n, o : Attempted(i, n, o)
         \/ Stops \/ StartTest \/ NextRound \/ NextTest \/ Finish \/ Tick \/ UNCHANGED vars
  <1>1. CASE PureWait
    <2>1. CASE phase' = "end"
      BY <1>1, <2>1, ConcludeSteps
    <2>2. CASE phase' # "end"
      <3>1. /\ Begins /\ TEST_COUNT.failed > 0 /\ Abort(1)
            /\ UNCHANGED <<suite, t, queue, remaining, ret_value, times, book, verdicts, last>>
        BY <1>1, <2>2 DEF PureWait, End
      <3>2. t \in DOMAIN suite
        BY <3>1, SuiteType DEF Begins, TypeOK
      <3> QED
        BY <3>1, <3>2 DEF Stops, Begins
    <2> QED
      BY <2>1, <2>2
  <1>2. CASE NoNodes \/ ExecuteNetlabConfig \/ FinishTest
    BY <1>2, ConcludeSteps
  <1>3. CASE Attempt
    BY <1>3, AttemptSteps
  <1> QED
    BY <1>1, <1>2, <1>3 DEF Next

\* The types.
LEMMA TypeStep ==
  ASSUME TypeOK, Shape, Empty, [Next]_vars
  PROVE  TypeOK'
  <1>1. /\ suite \in Suites /\ t \in Nat /\ t >= 1 /\ Len(suite) \in Nat /\ DOMAIN suite = 1..Len(suite)
        /\ clock \in Nat /\ stop_time \in Nat /\ start_time \in Nat /\ start_time <= clock
        /\ verdicts \in Seq({"none", "true", "false"})
    BY SuiteType DEF TypeOK
  <1>2. ASSUME NEW c, NEW ret, Concludes(c, ret)
        PROVE  TypeOK'
    <2>1. c \in Books /\ Sums(c.count) /\ Write(c)
      BY <1>2 DEF Concludes, Message
    <2>2. /\ phase' = "end" /\ ret_value' = ret /\ ret \in {"none", "true", "false"}
          /\ UNCHANGED <<suite, t, queue, remaining, stop_time, start_time, exit, verdicts, last>>
          /\ clock' \in Nat /\ start_time' <= clock'
      BY <1>1, <1>2 DEF Concludes, End
    <2> QED
      BY <2>1, <2>2, WriteOK DEF TypeOK, test
  <1>3. ASSUME NEW i, NEW n, NEW o, Attempted(i, n, o)
        PROVE  TypeOK'
    <2>1. /\ o.book \in Books /\ Sums(o.book.count) /\ Write(o.book)
          /\ o.ok \in {"none", "true", "false"} /\ o.seen \in {"none", "good", "bad"}
      BY <1>3 DEF Attempted, Sound, Message
    <2>2. /\ UNCHANGED <<suite, t, phase, clock, stop_time, start_time, exit, verdicts>>
          /\ queue' \subseteq queue /\ remaining' \subseteq remaining
          /\ ret_value' \in {o.ok, ret_value}
          /\ last' = [last EXCEPT ![t][n] = o.seen]
      BY <1>3 DEF Attempted, times
    <2>3. last' \in [DOMAIN suite -> [Node -> {"none", "good", "bad"}]]
      BY <2>1, <2>2 DEF TypeOK
    <2>4. (queue \cup remaining)' \subseteq IF t <= Len(suite) THEN DOMAIN test.nodes ELSE {}
      BY <2>2 DEF TypeOK
    <2> QED
      BY <2>1, <2>2, <2>3, <2>4, WriteOK DEF TypeOK, test
  <1>4. CASE Stops
    BY <1>4 DEF Stops, Abort, TypeOK, test, times, book
  <1>5. CASE StartTest
    <2>1. Wait(t) \in Nat /\ t <= Len(suite)
      BY <1>1, <1>5, WaitType DEF StartTest, Begins
    <2>2. /\ phase' = "round" /\ ret_value' = "none" /\ queue' = DOMAIN test.nodes /\ remaining' = DOMAIN test.nodes
          /\ stop_time' \in Nat
          /\ UNCHANGED <<suite, t, clock, start_time, TEST_COUNT, results, exit, verdicts, last>>
      BY <1>1, <1>5, <2>1 DEF StartTest, book
    <2> QED
      BY <1>1, <2>1, <2>2 DEF TypeOK, test
  <1>6. CASE NextRound
    <2>1. clock' \in Nat /\ clock' >= clock
      BY <1>1, <1>6 DEF NextRound
    <2>2. /\ queue' = remaining /\ start_time' <= clock'
          /\ UNCHANGED <<suite, t, phase, remaining, ret_value, stop_time, start_time, TEST_COUNT, results, exit, verdicts, last>>
      BY <1>1, <1>6, <2>1 DEF NextRound, book
    <2> QED
      BY <1>1, <2>1, <2>2 DEF TypeOK, test
  <1>7. CASE NextTest
    <2>1. verdicts' \in Seq({"none", "true", "false"}) /\ Len(verdicts') = t /\ ret_value \in {"none", "true", "false"}
      BY <1>1, <1>7 DEF NextTest, Shape, Started, TypeOK
    <2>2. t \in DOMAIN suite /\ queue = {} /\ remaining = {}
      BY <1>7 DEF NextTest, Shape
    <2>3. /\ t' \in {t, t + 1} /\ phase' \in {"begin", "exit"} /\ start_time' \in {start_time, clock}
          /\ exit' \in {exit, 1}
          /\ UNCHANGED <<suite, queue, remaining, ret_value, clock, stop_time, TEST_COUNT, results, last>>
      BY <1>7 DEF NextTest, Abort, book
    <2>4. /\ suite' \in Suites /\ t' \in 1..(Len(suite') + 1) /\ phase' \in {"begin", "round", "end", "exit"}
          /\ (queue \cup remaining)' = {} /\ ret_value' \in {"none", "true", "false"}
          /\ {clock', stop_time', start_time'} \subseteq Nat /\ start_time' <= clock'
          /\ Len(verdicts') <= t'
      BY <1>1, <2>1, <2>2, <2>3
    <2> QED
      BY <2>1, <2>3, <2>4 DEF TypeOK
  <1>8. CASE Finish
    <2>1. exit' \in {0, 1, 3} /\ phase' = "exit"
      BY <1>8 DEF Finish, Abort
    <2> QED
      BY <1>8, <2>1 DEF Finish, TypeOK, test, times, book
  <1>9. CASE Tick
    <2>1. /\ clock' \in Nat /\ start_time' <= clock'
          /\ UNCHANGED <<suite, t, phase, queue, remaining, ret_value, stop_time, start_time, TEST_COUNT, results,
                         exit, verdicts, last>>
      BY <1>1, <1>9 DEF Tick, book
    <2> QED
      BY <1>1, <2>1 DEF TypeOK, test
  <1>10. CASE UNCHANGED vars
    BY <1>10 DEF vars, TypeOK, test, times, book
  <1> QED
    BY <1>2, <1>3, <1>4, <1>5, <1>6, <1>7, <1>8, <1>9, <1>10, Steps

\* The places, the verdicts and the exit status.
LEMMA ShapeStep ==
  ASSUME TypeOK, Shape, Empty, [Next]_vars
  PROVE  Shape'
  <1>1. /\ suite \in Suites /\ t \in Nat /\ t >= 1 /\ Len(suite) \in Nat /\ DOMAIN suite = 1..Len(suite)
        /\ clock \in Nat /\ stop_time \in Nat
        /\ verdicts \in Seq({"none", "true", "false"}) /\ ret_value \in {"none", "true", "false"}
    BY SuiteType DEF TypeOK
  <1>2. ASSUME NEW c, NEW ret, Concludes(c, ret)
        PROVE  Shape'
    <2>1. /\ phase \in {"begin", "round"} /\ phase' = "end" /\ t \in DOMAIN suite /\ queue = {} /\ remaining = {}
          /\ UNCHANGED <<suite, t, queue, remaining, exit, verdicts>>
      BY <1>2 DEF Concludes, End
    <2> QED
      BY <2>1 DEF Shape, Started
  <1>3. ASSUME NEW i, NEW n, NEW o, Attempted(i, n, o)
        PROVE  Shape'
    <2>1. /\ phase = "round" /\ UNCHANGED <<suite, t, phase, clock, stop_time, exit, verdicts>>
          /\ i \in queue /\ i \in DOMAIN test.nodes /\ n = test.nodes[i]
          /\ queue' = queue \ {i}
          /\ remaining' = IF o.proc THEN {j \in remaining : test.nodes[j] # n} ELSE remaining
      BY <1>3 DEF Attempted, times
    <2>2. queue \subseteq DOMAIN test.nodes
      BY <1>1, <2>1 DEF TypeOK, Shape
    <2>3. Distinct(test) => queue' \subseteq remaining'
      <3> SUFFICES ASSUME Distinct(test), NEW j \in queue'
                   PROVE  j \in remaining'
        OBVIOUS
      <3>1. test.nodes[j] # n
        BY <2>1, <2>2 DEF Distinct, IsInjective
      <3> QED
        BY <2>1, <3>1 DEF Shape
    <2> QED
      BY <2>1, <2>3 DEF Shape, Started, Distinct, IsConfig, test
  <1>4. CASE Stops
    BY <1>4 DEF Stops, Abort, Shape, Started
  <1>5. CASE StartTest
    <2>1. /\ phase = "begin" /\ t \in DOMAIN suite /\ ~IsConfig /\ phase' = "round" /\ queue' = remaining'
          /\ stop_time' = clock + Wait(t) /\ UNCHANGED <<suite, t, clock, exit, verdicts>>
      BY <1>1, <1>5 DEF StartTest, Begins
    <2>2. stop_time' > clock' => test.wait > 0 \/ test.device_wait > 0
      BY <1>1, <2>1, WaitType DEF test
    <2> QED
      BY <2>1, <2>2 DEF Shape, Started, IsConfig, test
  <1>6. CASE NextRound
    <2>1. clock' \in Nat /\ clock' >= clock
      BY <1>1, <1>6 DEF NextRound
    <2>2. stop_time' > clock' => stop_time > clock
      BY <1>1, <1>6, <2>1 DEF NextRound
    <2> QED
      BY <1>6, <2>2 DEF NextRound, Shape, Started, IsConfig, test
  <1>7. CASE NextTest
    <2>1. Len(verdicts') = t /\ phase = "end"
      BY <1>1, <1>7 DEF NextTest, Shape, Started
    <2>2. queue' = {} /\ remaining' = {}
      BY <1>7, <2>1 DEF NextTest, Shape
    <2>3. CASE ret_value = "false" /\ test.stop_on_error
      BY <1>7, <2>1, <2>2, <2>3 DEF NextTest, Abort, Shape, Started
    <2>4. CASE ~(ret_value = "false" /\ test.stop_on_error)
      <3>1. phase' = "begin" /\ t' = t + 1 /\ UNCHANGED exit
        BY <1>7, <2>4 DEF NextTest
      <3> QED
        BY <1>1, <2>1, <2>2, <3>1 DEF Shape, Started
    <2> QED
      BY <2>3, <2>4
  <1>8. CASE Finish
    BY <1>8 DEF Finish, Abort, Shape, Started
  <1>9. CASE Tick
    <2>1. stop_time' > clock' => stop_time > clock
      BY <1>1, <1>9 DEF Tick
    <2> QED
      BY <1>9, <2>1 DEF Tick, Shape, Started, IsConfig, test
  <1>10. CASE UNCHANGED vars
    BY <1>10 DEF vars, Shape, Started, IsConfig, test, times
  <1> QED
    BY <1>2, <1>3, <1>4, <1>5, <1>6, <1>7, <1>8, <1>9, <1>10, Steps

\* The steps that leave the results alone.
LEMMA QuietSteps ==
  ASSUME Stops \/ StartTest \/ NextRound \/ NextTest \/ Finish \/ Tick \/ UNCHANGED vars
  PROVE  UNCHANGED <<suite, TEST_COUNT, results, last, Book>>
  BY DEF Stops, StartTest, NextRound, NextTest, Finish, Tick, vars, book, Book

\* What an attempt at a node of a plain test writes.
LEMMA PlainAttempt ==
  ASSUME TypeOK, Shape, Empty, NEW i, NEW n, NEW o, Attempted(i, n, o)
  PROVE  /\ o.book \in Books /\ results' = o.book.results /\ TEST_COUNT' = o.book.count /\ Book' = o.book
         /\ Message(Book, o.book, n) /\ n \in Node /\ n \in Key /\ n # Whole
         /\ \A j \in DOMAIN suite : \A k \in Key : (j # t \/ k # n) => results'[j][k] = results[j][k]
         /\ Distinct(test) => i \in remaining
         /\ Plain(test) => /\ results[t][n] = "none" /\ Tallied(Book, o.book, n)
                           /\ ~o.proc => results'[t][n] = "none"
                           /\ KindOf(test, n, results'[t][n]) = "failed" => o.ok = "false"
                           /\ o.ok = "true" /\ test.judge # "nothing" => results'[t][n] # "none"
  <1>1. /\ Book.results = results /\ Node \subseteq Key /\ Whole \notin Node
    BY BookOK
  <1>2. /\ phase = "round" /\ i \in queue /\ n = test.nodes[i] /\ n \in Node /\ Write(o.book)
        /\ Sound(n, Book, clock >= stop_time, o)
    BY DEF Attempted
  <1>3. Message(Book, o.book, n) /\ o.book \in Books /\ Sums(o.book.count)
    BY <1>2 DEF Sound, Message
  <1>4. results' = o.book.results /\ TEST_COUNT' = o.book.count /\ Book' = o.book
    BY <1>2, <1>3, WriteOK DEF Write
  <1>5. \A j \in DOMAIN suite : \A k \in Key : (j # t \/ k # n) => results'[j][k] = results[j][k]
    BY <1>1, <1>3, <1>4 DEF Message
  <1>6. Distinct(test) => i \in remaining
    BY <1>2 DEF Shape
  <1>7. Plain(test) => results[t][n] = "none"
    BY <1>2, <1>6 DEF Plain, Empty, Left, Unused
  <1> QED
    BY <1>1, <1>2, <1>3, <1>4, <1>5, <1>6, <1>7 DEF Sound

\* What the end of a test writes.
LEMMA Conclusion ==
  ASSUME TypeOK, NEW c, NEW ret, Concludes(c, ret)
  PROVE  /\ c \in Books /\ results' = c.results /\ TEST_COUNT' = c.count /\ Book' = c
         /\ \A j \in DOMAIN suite : \A k \in Key : (j # t \/ k # Whole) => results'[j][k] = results[j][k]
         /\ t \in DOMAIN suite /\ phase' = "end" /\ ret_value' = ret
         /\ UNCHANGED <<suite, t, queue, remaining, stop_time, start_time, exit, verdicts, last>>
  <1>1. c \in Books /\ Sums(c.count) /\ Message(Book, c, Whole) /\ Write(c)
    BY DEF Concludes, Message
  <1>2. results' = c.results /\ TEST_COUNT' = c.count /\ Book' = c
    BY <1>1, WriteOK DEF Write
  <1>3. Book.results = results
    BY BookOK
  <1>4. \A j \in DOMAIN suite : \A k \in Key : (j # t \/ k # Whole) => results'[j][k] = results[j][k]
    BY <1>1, <1>2, <1>3 DEF Message
  <1> QED
    BY <1>1, <1>2, <1>4 DEF Concludes, End

\* The cells that are written next are empty.
LEMMA EmptyStep ==
  ASSUME TypeOK, Shape, Empty, [Next]_vars
  PROVE  Empty'
  <1>1. /\ suite \in Suites /\ t \in Nat /\ t >= 1 /\ DOMAIN suite = 1..Len(suite) /\ Len(suite) \in Nat
        /\ Whole \in Key /\ Node \subseteq Key /\ Whole \notin Node
    <2>1. /\ suite \in Suites /\ t \in Nat /\ t >= 1 /\ DOMAIN suite = 1..Len(suite) /\ Len(suite) \in Nat
      BY SuiteType DEF TypeOK
    <2> QED
      BY <2>1, BookOK
  <1>2. ASSUME NEW c, NEW ret, Concludes(c, ret)
        PROVE  Empty'
    <2>1. /\ \A j \in DOMAIN suite : \A k \in Key : (j # t \/ k # Whole) => results'[j][k] = results[j][k]
          /\ phase' = "end" /\ UNCHANGED <<suite, t>>
      BY <1>2, Conclusion
    <2>2. \A j \in DOMAIN suite : j > t => j # t
      BY <1>1
    <2>3. phase \in {"begin", "round"}
      BY <1>2 DEF Concludes
    <2> QED
      BY <1>1, <2>1, <2>2, <2>3 DEF Empty, Unused
  <1>3. ASSUME NEW i, NEW n, NEW o, Attempted(i, n, o)
        PROVE  Empty'
    <2>1. /\ n \in Node /\ n # Whole
          /\ \A j \in DOMAIN suite : \A k \in Key : (j # t \/ k # n) => results'[j][k] = results[j][k]
          /\ Plain(test) => (~o.proc => results'[t][n] = "none")
      BY <1>3, PlainAttempt
    <2>2. /\ UNCHANGED <<suite, t, phase>> /\ phase = "round" /\ t \in DOMAIN suite
          /\ remaining' = IF o.proc THEN {j \in remaining : test.nodes[j] # n} ELSE remaining
          /\ test' = test
      BY <1>3 DEF Attempted, test
    <2>3. \A j \in DOMAIN suite : j > t => \A k \in Key : Unused(j, k)'
      BY <1>1, <2>1, <2>2 DEF Empty, Unused
    <2>4. Unused(t, Whole)'
      BY <1>1, <2>1, <2>2 DEF Empty, Unused
    <2>5. ASSUME Plain(test), NEW m \in Node, Left(m)'
          PROVE  Unused(t, m)'
      <3>1. PICK j \in remaining' : test.nodes[j] = m
        BY <2>2, <2>5 DEF Left
      <3>2. Left(m) /\ (m = n => ~o.proc)
        BY <2>2, <3>1 DEF Left
      <3> QED
        BY <1>1, <2>1, <2>2, <2>5, <3>2 DEF Empty, Unused
    <2> QED
      BY <2>2, <2>3, <2>4, <2>5 DEF Empty
  <1>4. CASE StartTest
    <2>1. phase = "begin" /\ phase' = "round" /\ t \in DOMAIN suite /\ UNCHANGED <<suite, t, results>>
      BY <1>1, <1>4 DEF StartTest, Begins, book
    <2>2. \A k \in Key : results[t][k] = "none"
      BY <1>1, <2>1 DEF Empty, Unused
    <2>3. \A j \in DOMAIN suite : j > t => j >= t
      BY <1>1
    <2> QED
      BY <1>1, <2>1, <2>2, <2>3 DEF Empty, Unused
  <1>5. CASE NextTest
    <2>1. /\ phase = "end" /\ UNCHANGED <<suite, results>>
          /\ (phase' = "exit" /\ t' = t) \/ (phase' = "begin" /\ t' = t + 1)
      BY <1>5 DEF NextTest, Abort, book
    <2>2. \A j \in DOMAIN suite : j >= t + 1 => j > t
      BY <1>1
    <2> QED
      BY <2>1, <2>2 DEF Empty, Unused
  <1>6. CASE Stops \/ Finish
    <2>1. phase = "begin" /\ phase' = "exit" /\ UNCHANGED <<suite, t, results>>
      BY <1>6 DEF Stops, Finish, Abort, book
    <2>2. \A j \in DOMAIN suite : j > t => j >= t
      BY <1>1
    <2> QED
      BY <2>1, <2>2 DEF Empty, Unused
  <1>7. CASE NextRound \/ Tick \/ UNCHANGED vars
    <2>1. UNCHANGED <<suite, t, phase, remaining, results>>
      BY <1>7 DEF NextRound, Tick, vars, book
    <2> QED
      BY <2>1 DEF Empty, Unused, Left, test
  <1> QED
    BY <1>2, <1>3, <1>4, <1>5, <1>6, <1>7, Steps

\* Nobody is given up before the deadline.
LEMMA LastChanceStep ==
  ASSUME TypeOK, Shape, Empty, LastChance, [Next]_vars
  PROVE  LastChance'
  <1>1. clock \in Nat /\ stop_time \in Nat
    BY DEF TypeOK
  <1>2. CASE phase' # "round"
    BY <1>2 DEF LastChance
  <1>3. ASSUME NEW i, NEW n, NEW o, Attempted(i, n, o)
        PROVE  LastChance'
    <2>1. /\ n \in Node /\ n \in Key /\ Node \subseteq Key
          /\ \A j \in DOMAIN suite : \A k \in Key : (j # t \/ k # n) => results'[j][k] = results[j][k]
          /\ results' = o.book.results
      BY <1>3, PlainAttempt, BookOK
    <2>2. /\ UNCHANGED <<suite, t, phase, clock, stop_time>> /\ phase = "round" /\ t \in DOMAIN suite
          /\ i \in queue /\ i \in DOMAIN test.nodes /\ n = test.nodes[i]
          /\ remaining' = IF o.proc THEN {j \in remaining : test.nodes[j] # n} ELSE remaining
          /\ last' = [last EXCEPT ![t][n] = o.seen]
          /\ test' = test
          /\ Sound(n, Book, clock >= stop_time, o)
      BY <1>3 DEF Attempted, test, times
    <2>3. \A m \in Node : last'[t][m] = IF m = n THEN o.seen ELSE last[t][m]
      BY <2>1, <2>2 DEF TypeOK
    <2>4. SUFFICES ASSUME Distinct(test), ~Unseen(test), NEW j \in DOMAIN test.nodes, j \notin remaining',
                          last'[t][test.nodes[j]] = "bad", results'[t][test.nodes[j]] # "error"
                   PROVE  clock >= stop_time
      BY <2>2 DEF LastChance
    <2>5. suite \in Suites /\ test = suite[t]
      BY DEF TypeOK, test
    <2>6. test.nodes[j] \in Node
      BY <2>2, <2>5, SuiteType
    <2>7. CASE test.nodes[j] = n
      <3>1. j = i /\ i \in remaining
        BY <2>2, <2>4, <2>7 DEF Distinct, IsInjective, Shape
      <3>2. o.proc /\ o.seen = "bad"
        BY <2>1, <2>2, <2>3, <2>4, <2>7, <3>1
      <3> QED
        BY <2>1, <2>2, <2>4, <2>7, <3>2 DEF Sound
    <2>8. CASE test.nodes[j] # n
      <3>1. j \notin remaining
        BY <2>2, <2>4, <2>8
      <3>2. last[t][test.nodes[j]] = "bad" /\ results[t][test.nodes[j]] # "error"
        BY <2>1, <2>2, <2>3, <2>4, <2>6, <2>8
      <3> QED
        BY <2>2, <2>4, <3>1, <3>2 DEF LastChance
    <2> QED
      BY <2>7, <2>8
  <1>4. CASE StartTest
    BY <1>4 DEF StartTest, LastChance, test
  <1>5. CASE NextRound \/ Tick \/ UNCHANGED vars
    <2>1. UNCHANGED <<suite, t, phase, remaining, stop_time, results, last>>
      BY <1>5 DEF NextRound, Tick, vars, book, times
    <2>2. clock' \in Nat /\ clock' >= clock
      BY <1>1, <1>5 DEF NextRound, Tick, vars, times
    <2>3. clock >= stop_time => clock' >= stop_time
      BY <1>1, <2>2
    <2> QED
      BY <2>1, <2>3 DEF LastChance, Distinct, Unseen, test
  <1>6. CASE Stops \/ NextTest \/ Finish \/ \E c, ret : Concludes(c, ret)
    <2>1. phase' # "round"
      BY <1>6 DEF Stops, NextTest, Finish, Abort, Concludes, End
    <2> QED
      BY <1>2, <2>1
  <1> QED
    BY <1>3, <1>4, <1>5, <1>6, Steps

\* Without a failure or a warning every node has answered well, or is asked again.
LEMMA CleanStep ==
  ASSUME TypeOK, Shape, Empty, Clean, [Next]_vars
  PROVE  Clean'
  <1>1. /\ suite \in Suites /\ Troubles(Book) \in Nat /\ Book \in Books
        /\ Node \subseteq Key /\ Whole \in Key /\ Whole \notin Node
        /\ Book.results = results
    BY BookOK DEF TypeOK
  <1>2. ASSUME NEW c, NEW ret, Concludes(c, ret)
        PROVE  Clean'
    <2>1. /\ Book' = c /\ Message(Book, c, Whole) /\ t \in DOMAIN suite
          /\ \A j \in DOMAIN suite : \A k \in Key : (j # t \/ k # Whole) => results'[j][k] = results[j][k]
          /\ UNCHANGED <<suite, t, last>> /\ remaining = {}
      BY <1>2, Conclusion DEF Concludes
    <2>2. Troubles(Book') = 0 => Troubles(Book) = 0
      BY <1>1, <2>1, MessageThen
    <2>3. \A n \in Node : ~Left(n)
      BY <2>1 DEF Left
    <2> QED
      BY <1>1, <2>1, <2>2, <2>3 DEF Clean
  <1>3. ASSUME NEW i, NEW n, NEW o, Attempted(i, n, o)
        PROVE  Clean'
    <2>1. /\ Book' = o.book /\ Message(Book, o.book, n) /\ n \in Node /\ n \in Key
          /\ \A j \in DOMAIN suite : \A k \in Key : (j # t \/ k # n) => results'[j][k] = results[j][k]
          /\ Distinct(test) => i \in remaining
          /\ Plain(test) => Tallied(Book, o.book, n)
          /\ results' = o.book.results /\ o.book \in Books
      BY <1>3, PlainAttempt
    <2>2. /\ UNCHANGED <<suite, t, phase>> /\ phase = "round" /\ t \in DOMAIN suite
          /\ n = test.nodes[i]
          /\ remaining' = IF o.proc THEN {j \in remaining : test.nodes[j] # n} ELSE remaining
          /\ last' = [last EXCEPT ![t][n] = o.seen]
          /\ test' = test /\ test = suite[t]
          /\ Sound(n, Book, clock >= stop_time, o)
      BY <1>3 DEF Attempted, test
    <2>3. \A j \in DOMAIN suite : \A m \in Node :
            last'[j][m] = IF j = t /\ m = n THEN o.seen ELSE last[j][m]
      BY <2>1, <2>2 DEF TypeOK
    <2>4. Troubles(Book') = 0 => Troubles(Book) = 0
      BY <1>1, <2>1, <2>2, MessageThen
    <2>5. SUFFICES ASSUME Troubles(Book') = 0, Troubles(Book) = 0, NEW j \in DOMAIN suite, NEW m \in Node
                   PROVE  /\ Distinct(suite[j]) /\ ~suite[j].expect_fail /\ ~Unseen(suite[j]) =>
                               last'[j][m] # "bad" \/ (j = t /\ Left(m)')
                          /\ Plain(suite[j]) => results'[j][m] \notin {"fail", "warning", "error"}
      BY <2>2, <2>4 DEF Clean
    <2>6. CASE j = t /\ m = n
      <3>1. ASSUME Distinct(test), ~test.expect_fail, ~Unseen(test), o.seen = "bad"
            PROVE  Left(n)'
        <4>1. ~o.proc
          BY <1>1, <2>1, <2>2, <2>5, <3>1 DEF Sound
        <4> QED
          BY <2>1, <2>2, <3>1, <4>1 DEF Left
      <3>2. ASSUME Plain(test), results'[t][n] \in {"fail", "warning", "error"}
            PROVE  FALSE
        <4>1. KindOf(test, n, o.book.results[t][n]) \in {"failed", "warning"}
          BY <2>1, <3>2 DEF KindOf
        <4>2. /\ o.book.count.failed = Book.count.failed +
                   IF KindOf(test, n, o.book.results[t][n]) = "failed" THEN 1 ELSE 0
              /\ o.book.count.warning = Book.count.warning +
                   IF KindOf(test, n, o.book.results[t][n]) = "warning" THEN 1 ELSE 0
          BY <2>1, <3>2 DEF Tallied, Kind
        <4>3. Book.count.failed \in Nat /\ Book.count.warning \in Nat
          BY <1>1, <2>1, <2>2, BookType
        <4> QED
          BY <2>1, <2>5, <4>1, <4>2, <4>3 DEF Troubles
      <3> QED
        BY <2>2, <2>3, <2>6, <3>1, <3>2
    <2>7. CASE ~(j = t /\ m = n)
      <3>1. last'[j][m] = last[j][m] /\ results'[j][m] = results[j][m]
        BY <1>1, <2>1, <2>3, <2>7
      <3>2. j = t /\ Left(m) => Left(m)'
        BY <2>2, <2>7 DEF Left
      <3> QED
        BY <2>5, <3>1, <3>2 DEF Clean
    <2> QED
      BY <2>6, <2>7
  <1>4. CASE Stops \/ StartTest \/ NextTest \/ Finish
    <2>1. UNCHANGED <<suite, results, last, Book>> /\ phase # "round"
      BY <1>4, QuietSteps DEF Stops, StartTest, NextTest, Finish, Begins
    <2>2. \A n \in Node : ~Left(n)
      BY <2>1 DEF Left
    <2> QED
      BY <2>1, <2>2 DEF Clean
  <1>5. CASE NextRound \/ Tick \/ UNCHANGED vars
    <2>1. UNCHANGED <<suite, t, phase, remaining, results, last, Book>>
      BY <1>5, QuietSteps DEF NextRound, Tick, vars
    <2> QED
      BY <2>1 DEF Clean, Left, test
  <1> QED
    BY <1>2, <1>3, <1>4, <1>5, Steps

\* A failure of a plain test is counted, and has made it fail.
LEMMA BlamedStep ==
  ASSUME TypeOK, Shape, Empty, Blamed, [Next]_vars
  PROVE  Blamed'
  <1>1. /\ suite \in Suites /\ DOMAIN suite = 1..Len(suite) /\ Book.count = TEST_COUNT
        /\ TEST_COUNT.failed \in Nat /\ "failed" \in Kind
        /\ verdicts \in Seq({"none", "true", "false"}) /\ ret_value \in {"none", "true", "false"}
    <2>1. suite \in Suites /\ verdicts \in Seq({"none", "true", "false"}) /\ ret_value \in {"none", "true", "false"}
      BY DEF TypeOK
    <2> QED
      BY <2>1, SuiteType, BookOK DEF Kind
  <1>2. t \in DOMAIN suite => test \in Range(suite)
    BY DEF Range, test
  <1>3. ASSUME NEW c, NEW ret, Concludes(c, ret)
        PROVE  Blamed'
    <2>1. /\ TEST_COUNT' = c.count /\ t \in DOMAIN suite /\ phase' = "end" /\ ret_value' = ret
          /\ UNCHANGED <<suite, verdicts>>
      BY <1>3, Conclusion
    <2>2. SUFFICES ASSUME \A v \in Range(suite) : Plain(v), c.count.failed > 0, "false" \notin Range(verdicts)
                   PROVE  ret = "false"
      BY <2>1 DEF Blamed
    <2>3. /\ phase \in {"begin", "round"} /\ Tallied(Book, c, Whole)
          /\ KindOf(test, Whole, c.results[t][Whole]) = "failed" \/ (phase = "round" /\ ret_value = "false") => ret = "false"
      BY <1>2, <1>3, <2>1, <2>2 DEF Concludes
    <2>4. CASE TEST_COUNT.failed > 0
      BY <2>2, <2>3, <2>4 DEF Blamed
    <2>5. CASE TEST_COUNT.failed = 0
      <3>1. KindOf(test, Whole, c.results[t][Whole]) = "failed"
        BY <1>1, <2>2, <2>3, <2>5 DEF Tallied
      <3> QED
        BY <2>3, <3>1
    <2> QED
      BY <1>1, <2>4, <2>5
  <1>4. ASSUME NEW i, NEW n, NEW o, Attempted(i, n, o)
        PROVE  Blamed'
    <2>1. /\ UNCHANGED <<suite, phase, verdicts>> /\ phase = "round" /\ t \in DOMAIN suite
          /\ ret_value' = IF o.ok = "false" \/ (o.ok = "true" /\ ret_value = "none") THEN o.ok ELSE ret_value
      BY <1>4 DEF Attempted
    <2>2. TEST_COUNT' = o.book.count /\ results' = o.book.results
      BY <1>4, PlainAttempt
    <2>3. SUFFICES ASSUME \A v \in Range(suite) : Plain(v), o.book.count.failed > 0, "false" \notin Range(verdicts)
                   PROVE  ret_value' = "false"
      BY <2>1, <2>2 DEF Blamed
    <2>4. Tallied(Book, o.book, n) /\ (KindOf(test, n, results'[t][n]) = "failed" => o.ok = "false")
      BY <1>2, <1>4, <2>1, <2>3, PlainAttempt
    <2>5. CASE TEST_COUNT.failed > 0
      <3>1. ret_value = "false"
        BY <2>1, <2>3, <2>5 DEF Blamed
      <3> QED
        BY <2>1, <3>1
    <2>6. CASE TEST_COUNT.failed = 0
      <3>1. KindOf(test, n, results'[t][n]) = "failed"
        BY <1>1, <2>2, <2>3, <2>4, <2>6 DEF Tallied
      <3> QED
        BY <2>1, <2>4, <3>1
    <2> QED
      BY <1>1, <2>5, <2>6
  <1>5. CASE NextTest
    <2>1. /\ phase = "end" /\ verdicts' = Append(verdicts, ret_value) /\ UNCHANGED <<suite, TEST_COUNT>>
      BY <1>5, QuietSteps DEF NextTest
    <2>2. "false" \in Range(verdicts) \/ ret_value = "false" => "false" \in Range(verdicts')
      <3>1. /\ Len(verdicts') = Len(verdicts) + 1 /\ verdicts'[Len(verdicts) + 1] = ret_value
            /\ \A j \in 1..Len(verdicts) : verdicts'[j] = verdicts[j]
            /\ DOMAIN verdicts = 1..Len(verdicts) /\ DOMAIN verdicts' = 1..Len(verdicts') /\ Len(verdicts) \in Nat
        BY <1>1, <2>1, AppendProperties
      <3> QED
        BY <3>1 DEF Range
    <2> QED
      BY <2>1, <2>2 DEF Blamed
  <1>6. CASE Stops \/ StartTest \/ Finish
    <2>1. phase = "begin" /\ UNCHANGED <<suite, verdicts, TEST_COUNT>>
      BY <1>6, QuietSteps DEF Stops, StartTest, Finish, Begins
    <2> QED
      BY <2>1 DEF Blamed
  <1>7. CASE NextRound \/ Tick \/ UNCHANGED vars
    <2>1. UNCHANGED <<suite, phase, ret_value, verdicts, TEST_COUNT>>
      BY <1>7, QuietSteps DEF NextRound, Tick, vars
    <2> QED
      BY <2>1 DEF Blamed
  <1> QED
    BY <1>3, <1>4, <1>5, <1>6, <1>7, Steps

\* A test has a result of its own, and its nodes have some.
LEMMA OwnersStep ==
  ASSUME TypeOK, Shape, Empty, Owners, [Next]_vars
  PROVE  Owners'
  <1>1. Node \subseteq Key /\ Whole \in Key /\ Whole \notin Node /\ suite \in Suites /\ IsConfig = Asks(test, "config")
    BY BookOK DEF TypeOK, IsConfig, Asks
  <1>2. ASSUME NEW c, NEW ret, Concludes(c, ret)
        PROVE  Owners'
    <2>1. /\ results' = c.results /\ t \in DOMAIN suite /\ phase' = "end" /\ UNCHANGED <<suite, t>>
          /\ \A j \in DOMAIN suite : \A k \in Key : (j # t \/ k # Whole) => results'[j][k] = results[j][k]
      BY <1>2, Conclusion
    <2>2. SUFFICES ASSUME NEW j \in DOMAIN suite, Plain(suite[j])
                   PROVE  LET Answered == \E n \in Node : ~Unused(j, n)' IN
                          /\ results'[j][Whole] \notin {"none", "pass"} \/ Asks(suite[j], "config") => ~Answered
                          /\ suite[j].judge # "nothing" /\ ~Asks(suite[j], "config") =>
                               (results'[j][Whole] = "pass" => Answered)
      BY <2>1 DEF Owners
    <2>3. \A n \in Node : Unused(j, n)' = Unused(j, n)
      BY <1>1, <2>1 DEF Unused
    <2>4. CASE j # t
      BY <1>1, <2>1, <2>2, <2>3, <2>4 DEF Owners
    <2>5. CASE j = t /\ phase = "begin"
      <3>1. t \in Nat
        BY DEF TypeOK
      <3>2. \A n \in Node : Unused(t, n)
        BY <1>1, <2>1, <2>5, <3>1 DEF Empty
      <3>3. c.results[t][Whole] = "pass" => IsConfig
        BY <1>2, <2>2, <2>5 DEF Concludes, test
      <3> QED
        BY <1>1, <2>1, <2>2, <2>3, <2>5, <3>2, <3>3 DEF test
    <2>6. CASE j = t /\ phase = "round"
      <3>1. /\ c.results[t][Whole] \in {"none", "pass"} /\ ~IsConfig
            /\ c.results[t][Whole] = "pass" => ret_value = "true"
        BY <1>2, <2>2, <2>6 DEF Concludes, Shape, test
      <3> QED
        BY <1>1, <2>1, <2>2, <2>3, <2>6, <3>1 DEF Owners, test
    <2> QED
      BY <1>2, <2>4, <2>5, <2>6 DEF Concludes
  <1>3. ASSUME NEW i, NEW n, NEW o, Attempted(i, n, o)
        PROVE  Owners'
    <2>1. /\ n \in Node
          /\ \A j \in DOMAIN suite : \A k \in Key : (j # t \/ k # n) => results'[j][k] = results[j][k]
          /\ Plain(test) => /\ results[t][n] = "none"
                            /\ o.ok = "true" /\ test.judge # "nothing" => results'[t][n] # "none"
      BY <1>3, PlainAttempt
    <2>2. /\ UNCHANGED <<suite, t, phase>> /\ phase = "round" /\ t \in DOMAIN suite
          /\ ret_value' = IF o.ok = "false" \/ (o.ok = "true" /\ ret_value = "none") THEN o.ok ELSE ret_value
      BY <1>3 DEF Attempted
    <2>3. SUFFICES ASSUME NEW j \in DOMAIN suite, Plain(suite[j])
                   PROVE  LET Answered == \E m \in Node : ~Unused(j, m)' IN
                          /\ results'[j][Whole] \notin {"none", "pass"} \/ Asks(suite[j], "config") => ~Answered
                          /\ suite[j].judge # "nothing" /\ ~Asks(suite[j], "config") =>
                               /\ results'[j][Whole] = "pass" => Answered
                               /\ j = t /\ phase = "round" /\ ret_value' = "true" => Answered
      BY <2>2 DEF Owners
    <2>4. CASE j # t
      <3>1. \A k \in Key : results'[j][k] = results[j][k]
        BY <2>1, <2>4
      <3> QED
        BY <1>1, <2>3, <2>4, <3>1 DEF Owners, Unused
    <2>5. CASE j = t
      <3>1. results'[t][Whole] = "none" /\ ~IsConfig /\ Plain(test) /\ test = suite[t]
        BY <1>1, <2>1, <2>2, <2>3, <2>5 DEF Empty, Unused, Shape, test
      <3>2. ASSUME test.judge # "nothing", ret_value' = "true"
            PROVE  \E m \in Node : ~Unused(t, m)'
        <4>1. CASE o.ok = "true"
          BY <2>1, <2>2, <3>1, <3>2, <4>1 DEF Unused
        <4>2. CASE o.ok # "true"
          <5>1. ret_value = "true"
            BY <2>2, <3>2, <4>2
          <5>2. PICK m \in Node : ~Unused(t, m)
            BY <1>1, <2>2, <3>1, <3>2, <5>1 DEF Owners
          <5>3. m # n
            BY <2>1, <3>1, <5>2 DEF Unused
          <5>4. ~Unused(t, m)'
            BY <1>1, <2>1, <2>2, <5>2, <5>3 DEF Unused
          <5> QED
            BY <5>4
        <4> QED
          BY <4>1, <4>2
      <3>3. /\ results'[j][Whole] = "none" /\ ~Asks(suite[j], "config") /\ suite[j] = test
            /\ \A m \in Node : Unused(j, m)' = Unused(t, m)'
        BY <1>1, <2>2, <2>5, <3>1 DEF Unused
      <3> QED
        BY <3>2, <3>3
    <2> QED
      BY <2>4, <2>5
  <1>4. CASE Stops \/ StartTest \/ NextTest \/ Finish
    <2>1. /\ UNCHANGED <<suite, results>>
          /\ phase' # "round" \/ ret_value' = "none"
      BY <1>4, QuietSteps DEF Stops, StartTest, NextTest, Finish, Abort
    <2> QED
      BY <2>1 DEF Owners, Unused
  <1>5. CASE NextRound \/ Tick \/ UNCHANGED vars
    <2>1. UNCHANGED <<suite, t, phase, ret_value, results>>
      BY <1>5, QuietSteps DEF NextRound, Tick, vars
    <2> QED
      BY <2>1 DEF Owners, Unused
  <1> QED
    BY <1>2, <1>3, <1>4, <1>5, Steps

\* There are finitely many cells.
LEMMA CellsFinite ==
  ASSUME suite \in Suites, NEW S, S \subseteq (DOMAIN suite) \X Key
  PROVE  IsFiniteSet(S) /\ Cardinality(S) \in Nat
  <1>1. IsFiniteSet(DOMAIN suite)
    BY SuiteType, FS_Interval
  <1>2. IsFiniteSet(Key)
    BY ValidateAssumption, FS_AddElement DEF Key
  <1>3. IsFiniteSet((DOMAIN suite) \X Key)
    BY <1>1, <1>2, FS_Product
  <1> QED
    BY <1>3, FS_Subset, FS_CardinalityType

\* A cell that is written is counted once more.
LEMMA TallyCell ==
  ASSUME TypeOK, t \in DOMAIN suite, NEW c \in Books, NEW k \in Key, Tallied(Book, c, k), results[t][k] = "none",
         results' = c.results, TEST_COUNT' = c.count, UNCHANGED suite,
         \A j \in DOMAIN suite : \A m \in Key : (j # t \/ m # k) => results'[j][m] = results[j][m],
         \A x \in Kind : TEST_COUNT[x] = Cardinality(Counted(x))
  PROVE  \A x \in Kind : TEST_COUNT'[x] = Cardinality(Counted(x)')
  <1> SUFFICES ASSUME NEW x \in Kind
               PROVE  TEST_COUNT'[x] = Cardinality(Counted(x)')
    OBVIOUS
  <1> DEFINE kind == KindOf(test, k, results'[t][k])
             S == Counted(x)
  <1>1. x # "none" /\ test = suite[t]
    BY DEF Kind, test
  <1>2. TEST_COUNT[x] = Cardinality(S) /\ TEST_COUNT'[x] = TEST_COUNT[x] + IF kind = x THEN 1 ELSE 0
    BY BookOK DEF Tallied
  <1>3. IsFiniteSet(S) /\ Cardinality(S) \in Nat /\ suite \in Suites
    BY CellsFinite DEF Counted, TypeOK
  <1>4. <<t, k>> \notin S
    BY <1>1 DEF Counted, KindOf
  <1>5. Counted(x)' = IF kind = x THEN S \cup {<<t, k>>} ELSE S
    <2>1. Counted(x)' = {e \in (DOMAIN suite) \X Key : KindOf(suite[e[1]], e[2], results'[e[1]][e[2]]) = x}
      BY DEF Counted
    <2>2. ASSUME NEW e \in (DOMAIN suite) \X Key
          PROVE  e \in Counted(x)' <=> (e \in S \/ (kind = x /\ e = <<t, k>>))
      <3>1. PICK j \in DOMAIN suite, m \in Key : e = <<j, m>>
        OBVIOUS
      <3>2. e \in Counted(x)' <=> KindOf(suite[j], m, results'[j][m]) = x
        BY <2>1, <3>1
      <3>3. e \in S <=> KindOf(suite[j], m, results[j][m]) = x
        BY <3>1 DEF Counted
      <3>4. CASE j = t /\ m = k
        BY <1>1, <1>4, <3>1, <3>2, <3>4
      <3>5. CASE j # t \/ m # k
        BY <3>1, <3>2, <3>3, <3>5
      <3> QED
        BY <3>4, <3>5
    <2>3. Counted(x)' \subseteq (DOMAIN suite) \X Key /\ S \subseteq (DOMAIN suite) \X Key
          /\ <<t, k>> \in (DOMAIN suite) \X Key
      BY <2>1 DEF Counted
    <2> HIDE DEF S, kind
    <2> QED
      BY <2>2, <2>3
  <1> HIDE DEF S, kind
  <1>6. Cardinality(S \cup {<<t, k>>}) = Cardinality(S) + 1
    BY <1>3, <1>4, FS_AddElement
  <1> QED
    BY <1>2, <1>3, <1>5, <1>6

\* The counters are the numbers of cells.
LEMMA TallyStep ==
  ASSUME TypeOK, Shape, Empty, Tally, [Next]_vars
  PROVE  Tally'
  <1>1. t \in DOMAIN suite => test \in Range(suite)
    BY DEF Range, test
  <1>2. /\ Whole \in Key /\ suite \in Suites /\ Book.results = results /\ t \in Nat
    <2>1. suite \in Suites /\ t \in Nat
      BY SuiteType DEF TypeOK
    <2> QED
      BY <2>1, BookOK
  <1>3. ASSUME NEW c, NEW ret, Concludes(c, ret)
        PROVE  Tally'
    <2>1. /\ c \in Books /\ results' = c.results /\ TEST_COUNT' = c.count /\ t \in DOMAIN suite /\ UNCHANGED suite
          /\ \A j \in DOMAIN suite : \A m \in Key : (j # t \/ m # Whole) => results'[j][m] = results[j][m]
      BY <1>3, Conclusion
    <2>2. results[t][Whole] = "none"
      BY <1>2, <1>3, <2>1 DEF Concludes, Empty, Unused
    <2>3. SUFFICES ASSUME \A v \in Range(suite) : Plain(v)
                   PROVE  \A x \in Kind : TEST_COUNT'[x] = Cardinality(Counted(x)')
      BY <2>1 DEF Tally
    <2>4. Tallied(Book, c, Whole)
      BY <1>1, <1>3, <2>1, <2>3 DEF Concludes
    <2>5. \A x \in Kind : TEST_COUNT[x] = Cardinality(Counted(x))
      BY <2>3 DEF Tally
    <2> QED
      BY <1>2, <2>1, <2>2, <2>4, <2>5, TallyCell
  <1>4. ASSUME NEW i, NEW n, NEW o, Attempted(i, n, o)
        PROVE  Tally'
    <2>1. /\ o.book \in Books /\ results' = o.book.results /\ TEST_COUNT' = o.book.count /\ n \in Key
          /\ \A j \in DOMAIN suite : \A m \in Key : (j # t \/ m # n) => results'[j][m] = results[j][m]
          /\ Plain(test) => results[t][n] = "none" /\ Tallied(Book, o.book, n)
      BY <1>4, PlainAttempt
    <2>2. t \in DOMAIN suite /\ UNCHANGED suite
      BY <1>4 DEF Attempted
    <2>3. SUFFICES ASSUME \A v \in Range(suite) : Plain(v)
                   PROVE  \A x \in Kind : TEST_COUNT'[x] = Cardinality(Counted(x)')
      BY <2>2 DEF Tally
    <2>4. results[t][n] = "none" /\ Tallied(Book, o.book, n)
      BY <1>1, <2>1, <2>2, <2>3
    <2>5. \A x \in Kind : TEST_COUNT[x] = Cardinality(Counted(x))
      BY <2>3 DEF Tally
    <2> QED
      BY <2>1, <2>2, <2>4, <2>5, TallyCell
  <1>5. CASE Stops \/ StartTest \/ NextRound \/ NextTest \/ Finish \/ Tick \/ UNCHANGED vars
    <2>1. UNCHANGED <<suite, results, TEST_COUNT>>
      BY <1>5, QuietSteps
    <2> QED
      BY <2>1 DEF Tally, Counted
  <1> QED
    BY <1>3, <1>4, <1>5, Steps

\* The exit status has a reason.
LEMMA ExitsStep ==
  ASSUME TypeOK, Shape, Empty, Blamed, Exits, [Next]_vars
  PROVE  Exits'
  <1>1. /\ TEST_COUNT.failed \in Nat /\ TEST_COUNT.warning \in Nat /\ Troubles(Book) = TEST_COUNT.failed + TEST_COUNT.warning
        /\ verdicts \in Seq({"none", "true", "false"}) /\ ret_value \in {"none", "true", "false"}
        /\ Never # 0 /\ Never # 1
    <2>1. verdicts \in Seq({"none", "true", "false"}) /\ ret_value \in {"none", "true", "false"}
      BY DEF TypeOK
    <2> QED
      BY <2>1, BookOK, ValidateAssumption
  <1>2. ASSUME Started, UNCHANGED exit
        PROVE  Exits'
    <2>1. exit' = Never
      BY <1>2 DEF Shape
    <2> QED
      BY <1>1, <2>1 DEF Exits
  <1>3. CASE Stops
    <2>1. phase = "begin" /\ TEST_COUNT.failed > 0 /\ exit' = 1 /\ UNCHANGED <<suite, verdicts>>
      BY <1>3 DEF Stops, Abort
    <2> QED
      BY <2>1 DEF Exits, Blamed
  <1>4. CASE Finish
    <2>1. /\ phase = "begin" /\ phase' = "exit" /\ UNCHANGED <<suite, verdicts, Book>>
          /\ exit' = IF TEST_COUNT.failed > 0 THEN 1 ELSE IF TEST_COUNT.warning > 0 THEN 3 ELSE 0
      BY <1>4, QuietSteps DEF Finish, Abort
    <2>2. exit' = 0 => Troubles(Book)' = 0
      BY <1>1, <2>1 DEF Troubles
    <2>3. exit' = 1 => TEST_COUNT.failed > 0
      BY <2>1
    <2> QED
      BY <2>1, <2>2, <2>3 DEF Exits, Blamed
  <1>5. CASE NextTest
    <2>1. phase = "end" /\ Started
      BY <1>5 DEF NextTest, Started
    <2>2. CASE UNCHANGED exit
      BY <1>2, <2>1, <2>2
    <2>3. CASE exit' # exit
      <3>1. ret_value = "false" /\ exit' = 1 /\ verdicts' = Append(verdicts, ret_value)
        BY <1>5, <2>3 DEF NextTest, Abort
      <3>2. "false" \in Range(verdicts')
        <4>1. Len(verdicts') = Len(verdicts) + 1 /\ verdicts'[Len(verdicts) + 1] = "false"
              /\ DOMAIN verdicts' = 1..Len(verdicts') /\ Len(verdicts) \in Nat
          BY <1>1, <3>1, AppendProperties
        <4> QED
          BY <4>1 DEF Range
      <3> QED
        BY <3>1, <3>2 DEF Exits
    <2> QED
      BY <2>2, <2>3
  <1>6. CASE StartTest \/ NextRound \/ Tick
    <2>1. Started /\ UNCHANGED exit
      BY <1>6 DEF StartTest, NextRound, Tick, Begins, Started
    <2> QED
      BY <1>2, <2>1
  <1>7. CASE (\E c, ret : Concludes(c, ret)) \/ (\E i, n, o : Attempted(i, n, o))
    <2>1. Started /\ UNCHANGED exit
      BY <1>7 DEF Concludes, Attempted, End, Started
    <2> QED
      BY <1>2, <2>1
  <1>8. CASE UNCHANGED vars
    <2>1. UNCHANGED <<suite, phase, exit, verdicts, Book>>
      BY <1>8, QuietSteps DEF vars
    <2>2. Troubles(Book)' = Troubles(Book)
      BY <2>1 DEF Troubles
    <2> QED
      BY <2>1, <2>2 DEF Exits
  <1> QED
    BY <1>3, <1>4, <1>5, <1>6, <1>7, <1>8, Steps

\* Before the first test.
LEMMA InitInv ==
  ASSUME Init
  PROVE  IInv
  <1>1. /\ suite \in Suites /\ suite \in Seq(Test) /\ Len(suite) \in Nat /\ DOMAIN suite = 1..Len(suite)
    BY SuiteType DEF Init
  <1>2. /\ TEST_COUNT = [passed |-> 0, failed |-> 0, warning |-> 0, count |-> 0, skip |-> 0]
        /\ results = [i \in DOMAIN suite |-> [k \in Key |-> "none"]]
        /\ last = [i \in DOMAIN suite |-> [n \in Node |-> "none"]]
        /\ t = 1 /\ phase = "begin" /\ queue = {} /\ remaining = {} /\ exit = Never /\ verdicts = <<>>
        /\ ret_value = "none"
        /\ clock = 0 /\ stop_time = 0 /\ start_time = 0
    BY DEF Init, Key
  <1>3. Never \in Int /\ Never < 0 /\ Node \subseteq Key /\ Whole \in Key
    BY ValidateAssumption DEF Key
  <1>4. TypeOK
    <2>1. results \in [DOMAIN suite -> [Node \cup {Whole} -> {"none", "pass", "skip", "warning", "fail", "error"}]]
      BY <1>2 DEF Key
    <2>2. /\ TEST_COUNT \in [{"passed", "failed", "warning", "count", "skip"} -> Nat]
          /\ TEST_COUNT.count = TEST_COUNT.passed + TEST_COUNT.failed + TEST_COUNT.warning
      BY <1>2
    <2>3. last \in [DOMAIN suite -> [Node -> {"none", "good", "bad"}]]
      BY <1>2
    <2>4. verdicts \in Seq({"none", "true", "false"}) /\ Len(verdicts) = 0
      BY <1>2
    <2> QED
      BY <1>1, <1>2, <2>1, <2>2, <2>3, <2>4 DEF TypeOK
  <1>5. Shape
    BY <1>2, <1>3 DEF Shape, Started
  <1>6. LastChance /\ Blamed /\ Exits
    BY <1>2, <1>3 DEF LastChance, Blamed, Exits
  <1>7. Clean
    BY <1>2, <1>3 DEF Clean
  <1>8. Empty /\ Owners
    BY <1>2, <1>3 DEF Empty, Owners, Unused
  <1>9. Tally
    <2>1. ASSUME NEW x \in Kind
          PROVE  Counted(x) = {}
      <3>1. \A v, k : KindOf(v, k, "none") # x
        BY DEF KindOf, Kind
      <3>2. \A e \in (DOMAIN suite) \X Key : results[e[1]][e[2]] = "none"
        BY <1>2
      <3> QED
        BY <3>1, <3>2 DEF Counted
    <2>2. \A x \in Kind : TEST_COUNT[x] = 0
      BY <1>2 DEF Kind
    <2> QED
      BY <2>1, <2>2, FS_EmptySet DEF Tally
  <1> QED
    BY <1>4, <1>5, <1>6, <1>7, <1>8, <1>9 DEF IInv

-----------------------------------------------------------------------------
(* The theorems *)

\* The inductive invariant holds whatever the nodes answer.
THEOREM Invariance == Spec => []IInv
  <1>1. Init => IInv
    BY InitInv
  <1>2. IInv /\ [Next]_vars => IInv'
    BY TypeStep, ShapeStep, LastChanceStep, CleanStep, BlamedStep, EmptyStep, OwnersStep, TallyStep, ExitsStep DEF IInv
  <1> QED
    BY <1>1, <1>2, PTL DEF Spec

\* Tests, places, counters and results stay what they are.
THEOREM TypeCorrect == Spec => []TypeOK
  <1>1. IInv => TypeOK
    BY DEF IInv
  <1> QED
    BY <1>1, Invariance, PTL

\* A node that answers is not given up before the time of its test is over
\* (execute_validation_test).
THEOREM NobodyIsGivenUp == Spec => []LastChance
  <1>1. IInv => LastChance
    BY DEF IInv
  <1> QED
    BY <1>1, Invariance, PTL

\* An exit status of 0 means that the last answers were good ones, and 1 that a
\* test has failed (run_validation).
THEOREM StatusIsRight == Spec => []FailuresShow
  <1>1. IInv => FailuresShow
    <2> SUFFICES ASSUME IInv
                 PROVE  FailuresShow
      OBVIOUS
    <2>1. exit = 0 => Troubles(Book) = 0 /\ \A n \in Node : ~Left(n)
      BY DEF IInv, Exits, Left
    <2> QED
      BY <2>1 DEF IInv, Clean, Exits, FailuresShow
  <1> QED
    BY <1>1, Invariance, PTL

\* The entries of the JSON document are the cells that are counted.
LEMMA EntriesOfKinds ==
  ASSUME TypeOK, Owners, \A v \in Range(suite) : Plain(v)
  PROVE  /\ Results("skip") = Counted("skip")
         /\ Results("fail") \cup {e \in Results("error") : suite[e[1]].warning = FALSE} = Counted("failed")
         /\ Results("warning") \cup {e \in Results("error") : suite[e[1]].warning = TRUE} = Counted("warning")
         /\ {e \in Results("pass") : Asks(suite[e[1]], "config") \/ suite[e[1]].judge # "nothing"} = Counted("passed")
  <1> DEFINE Cells == (DOMAIN suite) \X Key
             Cell(e) == results[e[1]][e[2]]
             Shown(e) == e[2] \in Entries(e[1])
  <1>1. /\ Node \subseteq Key /\ Whole \in Key /\ Whole \notin Node /\ Key = Node \cup {Whole}
        /\ suite \in Suites
    BY BookOK DEF TypeOK, Key
  <1>2. \A i \in DOMAIN suite : Plain(suite[i]) /\ suite[i].warning \in BOOLEAN
    <2>1. \A i \in DOMAIN suite : suite[i] \in Test
      BY <1>1, SuiteType
    <2> QED
      BY <2>1 DEF Range, Test
  <1>3. \A r : \A e : e \in Results(r) <=> e \in Cells /\ Shown(e) /\ Cell(e) = r
    <2>1. \A i \in DOMAIN suite : Entries(i) \subseteq Key
      BY <1>1 DEF Entries
    <2> QED
      BY <2>1 DEF Results
  <1>4. ASSUME NEW e \in Cells
        PROVE  /\ Cell(e) \in {"skip", "warning", "fail", "error"} => Shown(e)
               /\ KindOf(suite[e[1]], e[2], Cell(e)) = "passed" => Shown(e)
               /\ Shown(e) /\ Cell(e) = "pass" /\ suite[e[1]].judge # "nothing" /\ ~Asks(suite[e[1]], "config") =>
                    e[2] # Whole
    <2>1. PICK i \in DOMAIN suite, k \in Key : e = <<i, k>>
      OBVIOUS
    <2> DEFINE Answered == \E n \in Node : ~Unused(i, n)
    <2>2. CASE k \in Node
      <3>1. Cell(e) # "none" => Shown(e)
        BY <2>1, <2>2 DEF Entries
      <3>2. Cell(e) \in {"skip", "warning", "fail", "error"} => Cell(e) # "none"
        OBVIOUS
      <3>3. KindOf(suite[e[1]], e[2], Cell(e)) = "passed" => Cell(e) # "none"
        BY DEF KindOf
      <3> QED
        BY <1>1, <2>1, <2>2, <3>1, <3>2, <3>3
    <2>3. CASE k = Whole
      <3>1. Shown(e) <=> ~Answered
        BY <1>1, <2>1, <2>3 DEF Entries, Unused
      <3>2. /\ results[i][Whole] \notin {"none", "pass"} \/ Asks(suite[i], "config") => ~Answered
            /\ suite[i].judge # "nothing" /\ ~Asks(suite[i], "config") /\ results[i][Whole] = "pass" => Answered
        BY <1>2 DEF Owners
      <3>3. KindOf(suite[i], Whole, results[i][Whole]) = "passed" => Asks(suite[i], "config")
        BY DEF KindOf
      <3> QED
        BY <2>1, <2>3, <3>1, <3>2, <3>3
    <2> QED
      BY <1>1, <2>2, <2>3
  <1>5. \A x : \A e : e \in Counted(x) <=> e \in Cells /\ KindOf(suite[e[1]], e[2], Cell(e)) = x
    BY DEF Counted
  <1>6. \A e \in Cells : e[1] \in DOMAIN suite /\ suite[e[1]].warning \in BOOLEAN /\ ~(e[2] # Whole /\ e[2] = Whole)
    BY <1>2
  <1> HIDE DEF Cells, Cell, Shown
  <1>7. Results("skip") = Counted("skip")
    <2>1. \A e \in Cells : KindOf(suite[e[1]], e[2], Cell(e)) = "skip" <=> Cell(e) = "skip"
      BY DEF KindOf
    <2>2. Results("skip") \subseteq Counted("skip")
      BY <1>3, <1>5, <2>1
    <2>3. Counted("skip") \subseteq Results("skip")
      BY <1>3, <1>4, <1>5, <2>1
    <2> QED
      BY <2>2, <2>3
  <1>8. Results("fail") \cup {e \in Results("error") : suite[e[1]].warning = FALSE} = Counted("failed")
    <2>1. \A e \in Cells : KindOf(suite[e[1]], e[2], Cell(e)) = "failed" <=>
            Cell(e) = "fail" \/ (Cell(e) = "error" /\ suite[e[1]].warning = FALSE)
      BY <1>6 DEF KindOf
    <2> QED
      BY <1>3, <1>4, <1>5, <2>1
  <1>9. Results("warning") \cup {e \in Results("error") : suite[e[1]].warning = TRUE} = Counted("warning")
    <2>1. \A e \in Cells : KindOf(suite[e[1]], e[2], Cell(e)) = "warning" <=>
            Cell(e) = "warning" \/ (Cell(e) = "error" /\ suite[e[1]].warning = TRUE)
      BY <1>6 DEF KindOf
    <2> QED
      BY <1>3, <1>4, <1>5, <2>1
  <1>10. {e \in Results("pass") : Asks(suite[e[1]], "config") \/ suite[e[1]].judge # "nothing"} = Counted("passed")
    <2>1. \A e \in Cells : KindOf(suite[e[1]], e[2], Cell(e)) = "passed" <=>
            /\ Cell(e) = "pass"
            /\ Asks(suite[e[1]], "config") \/ (suite[e[1]].judge # "nothing" /\ e[2] # Whole)
      BY DEF KindOf
    <2> QED
      BY <1>3, <1>4, <1>5, <2>1
  <1> QED
    BY <1>7, <1>8, <1>9, <1>10

\* A set of cells in two parts.
LEMMA TwoParts ==
  ASSUME NEW S, NEW T, IsFiniteSet(S), IsFiniteSet(T), S \cap T = {}
  PROVE  /\ Cardinality(S \cup T) = Cardinality(S) + Cardinality(T)
         /\ Cardinality(S) \in Nat /\ Cardinality(T) \in Nat
  <1>1. Cardinality(S) \in Nat /\ Cardinality(T) \in Nat
    BY FS_CardinalityType
  <1>2. Cardinality(S \cup T) = Cardinality(S) + Cardinality(T) - Cardinality(S \cap T)
    BY FS_Union
  <1>3. Cardinality(S \cap T) = 0
    BY FS_EmptySet
  <1> QED
    BY <1>1, <1>2, <1>3

\* The summary is the number of results of each kind (json_results), of those of
\* Judged tests for "pass".
THEOREM SummaryIsRight == Spec => []SummaryIsTheResults
  <1>1. IInv => SummaryIsTheResults
    <2> SUFFICES ASSUME IInv, \A v \in Range(suite) : Plain(v)
                 PROVE  /\ Summary.error = Cardinality(Results("error"))
                        /\ Summary.failed = Cardinality(Results("fail"))
                        /\ Summary.warning = Cardinality(Results("warning"))
                        /\ Summary.skip = Cardinality(Results("skip"))
                        /\ Summary.passed = Cardinality({e \in Results("pass") : Judged(suite[e[1]])})
      BY DEF SummaryIsTheResults
    <2> DEFINE E(level) == {e \in Results("error") : suite[e[1]].warning = level}
    <2>1. TypeOK /\ Owners /\ suite \in Suites
      BY DEF IInv, TypeOK
    <2>2. \A x \in Kind : TEST_COUNT[x] = Cardinality(Counted(x))
      BY DEF IInv, Tally
    <2>3. \A r : Results(r) \subseteq (DOMAIN suite) \X Key
      <3>1. \A i \in DOMAIN suite : Entries(i) \subseteq Key
        BY DEF Entries, Key
      <3> QED
        BY <3>1 DEF Results
    <2>4. \A r : IsFiniteSet(Results(r))
      BY <2>1, <2>3, CellsFinite
    <2>5. IsFiniteSet(E(TRUE)) /\ IsFiniteSet(E(FALSE))
      BY <2>1, <2>3, CellsFinite
    <2>6. \A e \in Results("error") : suite[e[1]].warning \in BOOLEAN
      <3>1. \A i \in DOMAIN suite : suite[i].warning \in BOOLEAN
        BY <2>1, SuiteType DEF Test
      <3> QED
        BY <2>3, <3>1
    <2>7. Results("fail") \cap E(FALSE) = {} /\ Results("warning") \cap E(TRUE) = {}
      BY DEF Results
    <2>8. E(TRUE) \cap E(FALSE) = {} /\ E(TRUE) \cup E(FALSE) = Results("error")
      BY <2>6
    <2>9. /\ Errors(TRUE) = Cardinality(E(TRUE)) /\ Errors(FALSE) = Cardinality(E(FALSE))
          /\ Errors(TRUE) \in Nat /\ Errors(FALSE) \in Nat
      BY <2>5, FS_CardinalityType DEF Errors
    <2>10. /\ Results("skip") = Counted("skip")
           /\ Results("fail") \cup E(FALSE) = Counted("failed")
           /\ Results("warning") \cup E(TRUE) = Counted("warning")
           /\ {e \in Results("pass") : Judged(suite[e[1]])} = Counted("passed")
      BY <2>1, EntriesOfKinds DEF Judged
    <2> HIDE DEF E
    <2>11. /\ Cardinality(Results("fail") \cup E(FALSE)) = Cardinality(Results("fail")) + Cardinality(E(FALSE))
           /\ Cardinality(Results("fail")) \in Nat
      BY <2>4, <2>5, <2>7, TwoParts
    <2>12. /\ Cardinality(Results("warning") \cup E(TRUE)) = Cardinality(Results("warning")) + Cardinality(E(TRUE))
           /\ Cardinality(Results("warning")) \in Nat
      BY <2>4, <2>5, <2>7, TwoParts
    <2>13. Cardinality(Results("error")) = Errors(TRUE) + Errors(FALSE)
      BY <2>5, <2>8, <2>9, TwoParts
    <2>14. /\ TEST_COUNT.passed = Cardinality(Counted("passed")) /\ TEST_COUNT.failed = Cardinality(Counted("failed"))
           /\ TEST_COUNT.warning = Cardinality(Counted("warning")) /\ TEST_COUNT.skip = Cardinality(Counted("skip"))
      BY <2>2 DEF Kind
    <2>15. /\ Summary.passed = TEST_COUNT.passed /\ Summary.failed = TEST_COUNT.failed - Errors(FALSE)
           /\ Summary.warning = TEST_COUNT.warning - Errors(TRUE) /\ Summary.skip = TEST_COUNT.skip
           /\ Summary.error = Errors(TRUE) + Errors(FALSE)
      BY DEF Summary
    <2>16. Summary.failed = Cardinality(Results("fail"))
      <3>1. TEST_COUNT.failed = Cardinality(Results("fail")) + Errors(FALSE)
        BY <2>9, <2>10, <2>11, <2>14
      <3>2. \A f, g \in Nat : (f + g) - g = f
        OBVIOUS
      <3> QED
        BY <2>9, <2>11, <2>15, <3>1, <3>2
    <2>17. Summary.warning = Cardinality(Results("warning"))
      <3>1. TEST_COUNT.warning = Cardinality(Results("warning")) + Errors(TRUE)
        BY <2>9, <2>10, <2>12, <2>14
      <3>2. \A f, g \in Nat : (f + g) - g = f
        OBVIOUS
      <3> QED
        BY <2>9, <2>12, <2>15, <3>1, <3>2
    <2> QED
      BY <2>10, <2>13, <2>14, <2>15, <2>16, <2>17
  <1> QED
    BY <1>1, Invariance, PTL
=============================================================================
