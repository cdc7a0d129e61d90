--------------------------- MODULE ResearchProofs ---------------------------
(*************************************************************************)
(* What research decides on: genomes that trade as they were scored, for *)
(* any jobs, seeds and conditions, any generation and any number of      *)
(* worker processes; samples, predictions and labels that are not from   *)
(* the future, and a gate on models that looks at other bars than they.  *)
(*************************************************************************)
EXTENDS DataProofs

----------------------------------------------------------------------------
(* Genomes *)

LEMMA GeneCardinality == \A S : Gene!Cardinality(S) = Cardinality(S)
BY DEF Gene!Cardinality, Gene!IsFiniteSet, Cardinality, IsFiniteSet

\* A pool has a shortest timeframe, which is of the pool.
LEMMA GeneShortest ==
  ASSUME NEW pool, pool \subseteq Nat, pool # {} PROVE Gene!Shortest(pool) \in pool
<1>1. \E m \in pool : \A k \in pool : m <= k
  BY Least
<1> QED BY <1>1 DEF Gene!Shortest

\* What is confined once is confined.
LEMMA GeneConfinesOnce ==
  ASSUME NEW j \in [pool : SUBSET Nat, switch : BOOLEAN], NEW T, NEW r
  PROVE  /\ Gene!ConfineTimeframes(Gene!ConfineTimeframes(T, j.pool), j.pool)
              = Gene!ConfineTimeframes(T, j.pool)
         /\ Gene!ConfineRegime(Gene!ConfineRegime(r, j.switch), j.switch)
              = Gene!ConfineRegime(r, j.switch)
<1>1. j.pool # {} => Gene!Shortest(j.pool) \in j.pool
  BY GeneShortest
<1> DEFINE U == Gene!ConfineTimeframes(T, j.pool)
<1>2. Gene!ConfineTimeframes(U, j.pool) = U
  <2>1. CASE j.pool = {}
    BY <2>1 DEF Gene!ConfineTimeframes
  <2>2. CASE j.pool # {} /\ T \cap j.pool # {}
    <3>1. U = T \cap j.pool
      BY <2>2 DEF Gene!ConfineTimeframes
    <3>2. U \cap j.pool = U /\ U # {}
      BY <2>2, <3>1
    <3> HIDE DEF U
    <3> QED BY <2>2, <3>2 DEF Gene!ConfineTimeframes
  <2>3. CASE j.pool # {} /\ T \cap j.pool = {}
    <3>1. U = {Gene!Shortest(j.pool)}
      BY <2>3 DEF Gene!ConfineTimeframes
    <3>2. U \cap j.pool = U /\ U # {}
      BY <1>1, <2>3, <3>1
    <3> HIDE DEF U
    <3> QED BY <2>3, <3>2 DEF Gene!ConfineTimeframes
  <2> QED BY <2>1, <2>2, <2>3
<1>3. Gene!ConfineRegime(Gene!ConfineRegime(r, j.switch), j.switch) = Gene!ConfineRegime(r, j.switch)
  BY DEF Gene!ConfineRegime
<1> QED BY <1>2, <1>3

\* A timeframe set that a job may draw is one it allows.
LEMMA GeneDrawn ==
  ASSUME NEW j \in [pool : SUBSET Nat, switch : BOOLEAN], NEW T \in Gene!TimeframeOptions(j.pool)
  PROVE  Gene!ConfineTimeframes(T, j.pool) = T
<1>1. T # {}
  BY GeneCardinality, FS_EmptySet DEF Gene!TimeframeOptions
<1>2. j.pool # {} => T \cap j.pool = T
  BY DEF Gene!TimeframeOptions, Gene!Allowed
<1> QED BY <1>1, <1>2 DEF Gene!ConfineTimeframes

LEMMA GeneDrawnRegime ==
  ASSUME NEW r, NEW switch \in BOOLEAN, r \in IF switch THEN {{}, {"bull"}} ELSE {{}}
  PROVE  Gene!ConfineRegime(r, switch) = r
BY DEF Gene!ConfineRegime, Gene!Labels

\* A genome drawn for a job is one of that job.
LEMMA GeneRandom ==
  ASSUME NEW j \in [pool : SUBSET Nat, switch : BOOLEAN], "volume_flow" \notin GeneSetup.conditions,
         NEW g \in Gene!Random(j)
  PROVE  Gene!GenomeOK(g) /\ Gene!IsConfined(g, j)
<1>1. PICK T \in Gene!TimeframeOptions(j.pool), on \in {{"rsi"}, {"ema", "obv"}},
           c \in GeneSetup.conditions, r \in IF j.switch THEN {{}, {"bull"}} ELSE {{}} :
        g = [tf |-> T, regime |-> r, on |-> on, cont |-> on \ {"obv"}, rvol |-> FALSE,
             entry |-> {c}, exit |-> {"sma"}]
  BY DEF Gene!Random
<1>2. Gene!ConfineTimeframes(T, j.pool) = T /\ Gene!ConfineRegime(r, j.switch) = r
  BY GeneDrawn, GeneDrawnRegime
<1>3. Gene!IsConfined(g, j)
  BY <1>1, <1>2 DEF Gene!IsConfined
<1>4. on \subseteq Gene!IndicatorNames /\ "volume_flow" \notin {c} \cup {"sma"}
  BY DEF Gene!IndicatorNames
<1>5. Gene!GenomeOK(g)
  BY <1>1, <1>4 DEF Gene!GenomeOK
<1> QED BY <1>3, <1>5

\* A strategy that is encoded is a genome.
LEMMA GeneEncoded ==
  ASSUME NEW j, NEW s, "volume_flow" \notin {e[1] : e \in s.entry} \cup s.exit
  PROVE  Gene!GenomeOK(Gene!Encode(s, j))
<1>1. (\E e \in s.entry : e[2]) \in BOOLEAN
  OBVIOUS
<1>2. PICK v \in BOOLEAN : v = (\E e \in s.entry : e[2])
  BY <1>1
<1> QED BY <1>2 DEF Gene!Encode, Gene!GenomeOK, Gene!IndicatorNames

LEMMA GeneConfined ==
  ASSUME NEW j \in [pool : SUBSET Nat, switch : BOOLEAN], NEW g, Gene!GenomeOK(g)
  PROVE  Gene!GenomeOK(Gene!Confined(g, j)) /\ Gene!IsConfined(Gene!Confined(g, j), j)
<1> DEFINE c == Gene!Confined(g, j)
           T == Gene!ConfineTimeframes(g.tf, j.pool)
           r == Gene!ConfineRegime(g.regime, j.switch)
<1>1. c = [tf |-> T, regime |-> r, on |-> g.on, cont |-> g.cont, rvol |-> g.rvol,
           entry |-> g.entry, exit |-> g.exit]
  <2>1. PICK t0, r0, o0, c0, v0, e0, x0 :
          g = [tf |-> t0, regime |-> r0, on |-> o0, cont |-> c0, rvol |-> v0, entry |-> e0, exit |-> x0]
    BY DEF Gene!GenomeOK
  <2>2. ASSUME NEW a, NEW b
        PROVE  [g EXCEPT !.tf = a, !.regime = b]
                 = [tf |-> a, regime |-> b, on |-> g.on, cont |-> g.cont, rvol |-> g.rvol,
                    entry |-> g.entry, exit |-> g.exit]
    <3>1. PICK h : h = [g EXCEPT !.tf = a]
      OBVIOUS
    <3>2. h = [tf |-> a, regime |-> r0, on |-> o0, cont |-> c0, rvol |-> v0, entry |-> e0, exit |-> x0]
      BY <2>1, <3>1
    <3>3. [g EXCEPT !.tf = a, !.regime = b] = [h EXCEPT !.regime = b]
      BY <3>1
    <3>4. [h EXCEPT !.regime = b]
            = [tf |-> a, regime |-> b, on |-> o0, cont |-> c0, rvol |-> v0, entry |-> e0, exit |-> x0]
      BY <3>2
    <3> QED BY <2>1, <3>3, <3>4
  <2>3. c = [g EXCEPT !.tf = T, !.regime = r]
    BY <2>1 DEF Gene!Confined
  <2> HIDE DEF c, T, r
  <2> QED BY <2>2, <2>3
<1>2. Gene!ConfineTimeframes(T, j.pool) = T /\ Gene!ConfineRegime(r, j.switch) = r
  BY GeneConfinesOnce
<1> HIDE DEF c, T, r
<1>3. Gene!IsConfined(c, j)
  BY <1>1, <1>2 DEF Gene!IsConfined
<1>4. Gene!GenomeOK(c)
  BY <1>1 DEF Gene!GenomeOK
<1> QED BY <1>3, <1>4 DEF c

LEMMA GeneCrossed ==
  ASSUME NEW j \in [pool : SUBSET Nat, switch : BOOLEAN],
         NEW p, NEW q, Gene!GenomeOK(p), Gene!GenomeOK(q), Gene!IsConfined(p, j), Gene!IsConfined(q, j),
         NEW child \in Gene!Children(p, q)
  PROVE  Gene!GenomeOK(child) /\ Gene!IsConfined(child, j)
<1>1. PICK T \in {p.tf, q.tf}, r \in {p.regime, q.regime}, on \in Gene!Between(p.on, q.on),
           v \in {p.rvol, q.rvol}, en \in (SUBSET (p.entry \cup q.entry)) \ {{}},
           ex \in {p.exit, q.exit} :
        child = [tf |-> T, regime |-> r, on |-> on, cont |-> p.cont \cup q.cont, rvol |-> v,
                 entry |-> en, exit |-> ex]
  BY DEF Gene!Children
<1>2. Gene!ConfineTimeframes(T, j.pool) = T /\ Gene!ConfineRegime(r, j.switch) = r
  BY DEF Gene!IsConfined
<1>3. on \subseteq Gene!IndicatorNames /\ v \in BOOLEAN /\ "volume_flow" \notin en \cup ex
  BY DEF Gene!Between, Gene!GenomeOK
<1>4. Gene!IsConfined(child, j)
  BY <1>1, <1>2 DEF Gene!IsConfined
<1>5. Gene!GenomeOK(child)
  BY <1>1, <1>3 DEF Gene!GenomeOK
<1> QED BY <1>4, <1>5, SMTT(30)

LEMMA GeneMutated ==
  ASSUME NEW j \in [pool : SUBSET Nat, switch : BOOLEAN], "volume_flow" \notin GeneSetup.conditions,
         NEW g, Gene!GenomeOK(g), NEW child \in Gene!Mutated(g, j)
  PROVE  Gene!GenomeOK(child) /\ Gene!IsConfined(child, j)
<1>1. PICK t0, r0, o0, c0, v0, e0, x0 :
        g = [tf |-> t0, regime |-> r0, on |-> o0, cont |-> c0, rvol |-> v0, entry |-> e0, exit |-> x0]
  BY DEF Gene!GenomeOK
<1>2. o0 \subseteq Gene!IndicatorNames /\ v0 \in BOOLEAN /\ "volume_flow" \notin e0 \cup x0
  BY <1>1 DEF Gene!GenomeOK
<1> DEFINE Of(t, r, o, v, e) ==
             [tf |-> t, regime |-> r, on |-> o, cont |-> c0, rvol |-> v, entry |-> e, exit |-> x0]
<1>3. \E h : /\ child = Gene!Confined(h, j)
             /\ \/ \E T \in Gene!TimeframeOptions(j.pool) : h = [g EXCEPT !.tf = T]
                \/ \E r \in IF j.switch THEN {{}, {"bull"}} ELSE {g.regime} : h = [g EXCEPT !.regime = r]
                \/ \E i \in Gene!IndicatorNames : h = [g EXCEPT !.on = (@ \ {i}) \cup ({i} \ @)]
                \/ \E c \in GeneSetup.conditions : h = [g EXCEPT !.entry = @ \cup {c}]
                \/ \E c \in IF Gene!Cardinality(g.entry) > 1 THEN g.entry ELSE {} :
                     h = [g EXCEPT !.entry = @ \ {c}]
                \/ h = [g EXCEPT !.rvol = ~@]
  BY DEF Gene!Mutated
<1>4. PICK h : /\ child = Gene!Confined(h, j)
               /\ \/ \E T : h = Of(T, r0, o0, v0, e0)
                  \/ \E r : h = Of(t0, r, o0, v0, e0)
                  \/ \E i \in Gene!IndicatorNames : h = Of(t0, r0, (o0 \ {i}) \cup ({i} \ o0), v0, e0)
                  \/ \E c \in GeneSetup.conditions : h = Of(t0, r0, o0, v0, e0 \cup {c})
                  \/ \E c : h = Of(t0, r0, o0, v0, e0 \ {c})
                  \/ h = Of(t0, r0, o0, ~v0, e0)
  BY <1>1, <1>3
<1>5. \A t, r, o, v, e : o \subseteq Gene!IndicatorNames /\ v \in BOOLEAN /\ "volume_flow" \notin e
        => Gene!GenomeOK(Of(t, r, o, v, e))
  BY <1>2 DEF Gene!GenomeOK
<1>6. Gene!GenomeOK(h)
  <2> HIDE DEF Of
  <2>1. CASE \E T : h = Of(T, r0, o0, v0, e0)
    BY <1>2, <1>5, <2>1
  <2>2. CASE \E r : h = Of(t0, r, o0, v0, e0)
    BY <1>2, <1>5, <2>2
  <2>3. CASE \E i \in Gene!IndicatorNames : h = Of(t0, r0, (o0 \ {i}) \cup ({i} \ o0), v0, e0)
    BY <1>2, <1>5, <2>3
  <2>4. CASE \E c \in GeneSetup.conditions : h = Of(t0, r0, o0, v0, e0 \cup {c})
    BY <1>2, <1>5, <2>4
  <2>5. CASE \E c : h = Of(t0, r0, o0, v0, e0 \ {c})
    BY <1>2, <1>5, <2>5
  <2>6. CASE h = Of(t0, r0, o0, ~v0, e0)
    BY <1>2, <1>5, <2>6
  <2> QED BY <1>4, <2>1, <2>2, <2>3, <2>4, <2>5, <2>6
<1> QED BY <1>4, <1>6, GeneConfined

LEMMA GeneStarts == ASSUME Gene!GeneInit PROVE Gene!GenePoolInv
BY DEF Gene!GeneInit, Gene!GenePoolInv

LEMMA GeneStands == Gene!GenePoolInv /\ UNCHANGED <<c1, c2>> => Gene!GenePoolInv'
BY DEF Gene!GenePoolInv, Gene!GenomeOK, Gene!IsConfined

\* Wherever a population comes from, and however it is bred, it is confined.
LEMMA GeneInductive ==
  ASSUME Gene!GenePoolAssumption, Gene!GenePoolInv, Gene!GeneNext PROVE Gene!GenePoolInv'
<1> USE DEF Gene!GenePoolAssumption
<1>1. CASE Gene!StartBreeding
  <2>1. c1' \in GeneSetup.jobs
    BY <1>1 DEF Gene!StartBreeding
  <2>2. PICK before, h, g :
          /\ before \in GeneSetup.jobs
          /\ h \in Gene!Random(before)
          /\ g \in Gene!Random(before) \cup {Gene!Encode(s, c1') : s \in GeneSetup.seeds}
          /\ c2' = {Gene!Confined(g, c1'), Gene!Confined(h, c1')}
    BY <1>1 DEF Gene!StartBreeding
  <2>3. PICK j : j = c1' /\ j \in [pool : SUBSET Nat, switch : BOOLEAN]
    BY <2>1
  <2>4. Gene!GenomeOK(h)
    BY <2>2, GeneRandom
  <2>5. Gene!GenomeOK(g)
    <3>1. CASE g \in Gene!Random(before)
      BY <2>2, <3>1, GeneRandom
    <3>2. CASE g \in {Gene!Encode(s, j) : s \in GeneSetup.seeds}
      BY <3>2, GeneEncoded
    <3> QED BY <2>2, <2>3, <3>1, <3>2
  <2>6. \A x \in {Gene!Confined(g, j), Gene!Confined(h, j)} : Gene!GenomeOK(x) /\ Gene!IsConfined(x, j)
    BY <2>3, <2>4, <2>5, GeneConfined
  <2> QED BY <2>1, <2>2, <2>3, <2>6 DEF Gene!GenePoolInv
<1>2. ASSUME NEW p \in c2, NEW q \in c2, Gene!Crossover(p, q) \/ Gene!Mutate(p) \/ Gene!Immigrate(p)
      PROVE  Gene!GenePoolInv'
  <2>1. c1 \in GeneSetup.jobs /\ c1 \in [pool : SUBSET Nat, switch : BOOLEAN]
    BY DEF Gene!GenePoolInv
  <2>2. \A x \in {p, q} : Gene!GenomeOK(x) /\ Gene!IsConfined(x, c1)
    BY DEF Gene!GenePoolInv
  <2>3. PICK child : /\ child \in Gene!Children(p, q) \/ child \in Gene!Mutated(p, c1)
                          \/ child \in Gene!Random(c1)
                     /\ Gene!Breed(p, child)
    BY <1>2 DEF Gene!Crossover, Gene!Mutate, Gene!Immigrate
  <2>4. Gene!GenomeOK(child) /\ Gene!IsConfined(child, c1)
    <3>1. CASE child \in Gene!Children(p, q)
      BY <2>1, <2>2, <3>1, GeneCrossed
    <3>2. CASE child \in Gene!Mutated(p, c1)
      BY <2>1, <2>2, <3>2, GeneMutated
    <3>3. CASE child \in Gene!Random(c1)
      BY <2>1, <3>3, GeneRandom
    <3> QED BY <2>3, <3>1, <3>2, <3>3
  <2>5. c2' = {p, child} /\ c1' = c1
    BY <2>3 DEF Gene!Breed
  <2> QED BY <2>1, <2>2, <2>4, <2>5 DEF Gene!GenePoolInv
<1> QED BY <1>1, <1>2 DEF Gene!GeneNext

\* What is left of the conditions can be evaluated, and something always is.
LEMMA GeneSanitized ==
  ASSUME NEW D, NEW conds, "volume_flow" \notin conds
  PROVE  /\ Gene!Sanitized(conds, D) # {}
         /\ \A c \in Gene!Sanitized(conds, D) : c # "volume_flow" /\ Gene!Needs(c) \subseteq D
<1> DEFINE clean == {c \in conds : Gene!Needs(c) \subseteq D}
<1>1. CASE clean # {}
  <2>1. Gene!Sanitized(conds, D) = clean
    BY <1>1 DEF Gene!Sanitized
  <2> QED BY <1>1, <2>1
<1>2. CASE clean = {}
  <2>1. Gene!Sanitized(conds, D) =
          {CASE "ema" \in D -> "ema" [] "ema" \notin D /\ "bollinger" \in D -> "bollinger" [] OTHER -> "sma"}
    BY <1>2 DEF Gene!Sanitized
  <2>2. CASE "ema" \in D
    BY <2>1, <2>2 DEF Gene!Needs
  <2>3. CASE "ema" \notin D /\ "bollinger" \in D
    BY <2>1, <2>3 DEF Gene!Needs
  <2>4. CASE "ema" \notin D /\ "bollinger" \notin D
    BY <2>1, <2>4 DEF Gene!Needs
  <2> QED BY <2>2, <2>3, <2>4
<1> QED BY <1>1, <1>2

LEMMA GeneReadsWhatIsProduced ==
  ASSUME NEW D, NEW c, c # "volume_flow", Gene!Needs(c) \subseteq D
  PROVE  Gene!Reads(c) \subseteq Gene!Produced(D)
<1>1. CASE c \in {"ema", "sma", "volume"}
  BY <1>1 DEF Gene!Reads, Gene!Produced, Gene!AlwaysAvailable
<1>2. CASE c = "bollinger"
  <2>1. "bollinger" \in D
    BY <1>2 DEF Gene!Needs
  <2>2. Gene!ColumnsOf("bollinger") \subseteq Gene!Produced(D)
    BY <2>1 DEF Gene!Produced
  <2> QED BY <1>2, <2>2 DEF Gene!Reads, Gene!ColumnsOf, Gene!Produced, Gene!AlwaysAvailable
<1>3. CASE c = "slope"
  <2>1. "volume_flow" \in D
    BY <1>3 DEF Gene!Needs
  <2>2. Gene!ColumnsOf("volume_flow") \subseteq Gene!Produced(D)
    BY <2>1 DEF Gene!Produced
  <2> QED BY <1>3, <2>2 DEF Gene!Reads, Gene!ColumnsOf
<1>4. CASE c \notin {"ema", "sma", "volume", "bollinger", "slope"}
  <2>1. c \in D
    BY <1>4 DEF Gene!Needs
  <2>2. Gene!ColumnsOf(c) \subseteq Gene!Produced(D)
    BY <2>1 DEF Gene!Produced
  <2>3. Gene!ColumnsOf(c) = {c} /\ Gene!Reads(c) = {c}
    BY <1>4 DEF Gene!ColumnsOf, Gene!Reads
  <2> QED BY <2>2, <2>3
<1> QED BY <1>1, <1>2, <1>3, <1>4

\* A strategy that is encoded again keeps its indicators, and so its conditions.
LEMMA GeneAgain ==
  ASSUME NEW g, Gene!GenomeOK(g), NEW j, NEW conds, "volume_flow" \notin conds,
         NEW h, h = Gene!Encode(Gene!Decode(g, j), j),
         Gene!Sanitized(conds, Gene!Decoded(g)) \subseteq h.entry \cup h.exit
  PROVE  Gene!Sanitized(Gene!Sanitized(conds, Gene!Decoded(g)), Gene!Decoded(h))
           = Gene!Sanitized(conds, Gene!Decoded(g))
<1> DEFINE D == Gene!Decoded(g)
           S == Gene!Sanitized(conds, D)
<1>1. D \subseteq Gene!IndicatorNames \cup {"volume_flow"}
  BY DEF Gene!Decoded, Gene!Live, Gene!Fallback, Gene!GenomeOK, Gene!IndicatorNames
<1>2. h.on = D \cap Gene!IndicatorNames /\ h.cont = h.on \ {"obv"}
  BY DEF Gene!Encode, Gene!Decode
<1>3. h.on \subseteq Gene!Decoded(h)
  <2>1. Gene!Live(h) = h.on
    BY <1>2 DEF Gene!Live
  <2> QED BY <2>1 DEF Gene!Decoded
<1>4. S # {} /\ \A c \in S : c # "volume_flow" /\ Gene!Needs(c) \subseteq D
  BY GeneSanitized
<1>5. ASSUME NEW c \in S PROVE Gene!Needs(c) \subseteq Gene!Decoded(h)
  <2>1. ASSUME NEW x \in Gene!Needs(c), x # "volume_flow" PROVE x \in Gene!Decoded(h)
    BY <1>1, <1>2, <1>3, <1>4, <2>1
  <2>2. ASSUME "volume_flow" \in Gene!Needs(c) PROVE "volume_flow" \in Gene!Decoded(h)
    <3>1. c = "slope"
      BY <1>4, <2>2 DEF Gene!Needs
    <3>2. Gene!ReadsFlow("slope")
      BY DEF Gene!ReadsFlow, Gene!Reads
    <3> QED BY <3>1, <3>2 DEF Gene!Decoded
  <2> QED BY <2>1, <2>2
<1> HIDE DEF S
<1>6. {c \in S : Gene!Needs(c) \subseteq Gene!Decoded(h)} = S
  BY <1>5
<1>7. Gene!Sanitized(S, Gene!Decoded(h)) = S
  BY <1>4, <1>6 DEF Gene!Sanitized
<1> QED BY <1>7 DEF S

LEMMA GeneTrades ==
  ASSUME Gene!GenePoolAssumption, Gene!GenePoolInv
  PROVE  Gene!ConditionsEvaluable /\ Gene!PublishedAsScored
<1> SUFFICES ASSUME NEW g \in c2
             PROVE  /\ Gene!Evaluable(Gene!ScoredAs(g, c1))
                    /\ LET s == Gene!Decode(g, c1)
                       IN  /\ s = Gene!ScoredAs(g, c1)
                           /\ Gene!Trades(Gene!Decode(Gene!Encode(s, c1), c1)) = Gene!Trades(s)
  BY DEF Gene!ConditionsEvaluable, Gene!PublishedAsScored
<1>1. c1 \in [pool : SUBSET Nat, switch : BOOLEAN] /\ Gene!GenomeOK(g) /\ Gene!IsConfined(g, c1)
  BY DEF Gene!GenePoolInv, Gene!GenePoolAssumption
<1> DEFINE s == Gene!Decode(g, c1)
           h == Gene!Encode(s, c1)
           D == Gene!Decoded(g)
           En == Gene!Sanitized(g.entry, D)
           Ex == Gene!Sanitized(g.exit, D)
<1>2. s = [tf |-> g.tf, regime |-> g.regime, indicators |-> D, entry |-> {<<c, g.rvol>> : c \in En},
           exit |-> Ex]
  BY <1>1 DEF Gene!Decode, Gene!Enabled, Gene!IsConfined
<1>3. s = Gene!ScoredAs(g, c1)
  <2>1. [c1 EXCEPT !.pool = {}].pool = {} /\ [c1 EXCEPT !.pool = {}].switch = c1.switch
    BY <1>1
  <2>2. Gene!ConfineTimeframes(g.tf, {}) = g.tf
    BY DEF Gene!ConfineTimeframes
  <2> QED BY <1>1, <1>2, <2>1, <2>2 DEF Gene!ScoredAs, Gene!Decode, Gene!Enabled, Gene!IsConfined
<1>4. /\ En # {} /\ \A c \in En : c # "volume_flow" /\ Gene!Needs(c) \subseteq D
      /\ \A c \in Ex : c # "volume_flow" /\ Gene!Needs(c) \subseteq D
  BY <1>1, GeneSanitized DEF Gene!GenomeOK
<1>5. Gene!Evaluable(s)
  <2> HIDE DEF s, D, En, Ex
  <2>1. \A c \in En \cup Ex : Gene!Reads(c) \subseteq Gene!Produced(D)
    BY <1>4, GeneReadsWhatIsProduced
  <2>2. {e[1] : e \in s.entry} \subseteq En /\ s.exit = Ex /\ s.indicators = D
    BY <1>2
  <2> QED BY <2>1, <2>2 DEF Gene!Evaluable
<1>6. h.entry = En /\ h.exit = Ex /\ h.rvol = g.rvol
      /\ h.tf = Gene!ConfineTimeframes(g.tf, c1.pool) /\ h.regime = Gene!ConfineRegime(g.regime, c1.switch)
  <2> HIDE DEF s, D, En, Ex
  <2>1. {e[1] : e \in s.entry} = En
    <3>1. \A c \in En : <<c, g.rvol>> \in s.entry /\ <<c, g.rvol>>[1] = c
      BY <1>2
    <3>2. \A e \in s.entry : e[1] \in En
      BY <1>2
    <3> QED BY <3>1, <3>2
  <2>2. (\E e \in s.entry : e[2]) = g.rvol
    <3>1. PICK c \in En : TRUE
      BY <1>4
    <3>2. <<c, g.rvol>> \in s.entry
      BY <1>2, <3>1
    <3>3. \A e \in s.entry : e[2] = g.rvol
      BY <1>2
    <3>4. g.rvol \in BOOLEAN
      BY <1>1 DEF Gene!GenomeOK
    <3>5. CASE g.rvol = TRUE
      BY <3>2, <3>3, <3>5
    <3>6. CASE g.rvol = FALSE
      BY <3>3, <3>6
    <3> QED BY <3>4, <3>5, <3>6
  <2> QED BY <1>2, <2>1, <2>2 DEF Gene!Encode
<1>7. Gene!Sanitized(En, Gene!Decoded(h)) = En /\ Gene!Sanitized(Ex, Gene!Decoded(h)) = Ex
  <2>1. "volume_flow" \notin g.entry /\ "volume_flow" \notin g.exit
    BY <1>1 DEF Gene!GenomeOK
  <2> HIDE DEF h
  <2>2. h = Gene!Encode(Gene!Decode(g, c1), c1)
    BY DEF h
  <2> QED BY <1>1, <1>6, <2>1, <2>2, GeneAgain
<1>8. h.tf = g.tf /\ h.regime = g.regime /\ Gene!ConfineTimeframes(h.tf, c1.pool) = g.tf
      /\ Gene!ConfineRegime(h.regime, c1.switch) = g.regime
  BY <1>1, <1>6 DEF Gene!IsConfined
<1>9. Gene!Decode(h, c1) = [tf |-> g.tf, regime |-> g.regime, indicators |-> Gene!Decoded(h),
                            entry |-> {<<c, g.rvol>> : c \in En}, exit |-> Ex]
  <2> HIDE DEF h, En, Ex, D
  <2> QED BY <1>6, <1>7, <1>8 DEF Gene!Decode, Gene!Enabled
<1>10. Gene!Trades(Gene!Decode(h, c1)) = Gene!Trades(s)
  <2> HIDE DEF h, En, Ex, D, s
  <2> QED BY <1>2, <1>9 DEF Gene!Trades
<1> QED BY <1>3, <1>5, <1>10

----------------------------------------------------------------------------
(* Scores *)

LEMMA ScoreMin == \A a, b \in Nat : Score!Min({a, b}) = IF a <= b THEN a ELSE b
<1> SUFFICES ASSUME NEW a \in Nat, NEW b \in Nat PROVE Score!Min({a, b}) = IF a <= b THEN a ELSE b
  OBVIOUS
<1>1. PICK m \in {a, b} : m = IF a <= b THEN a ELSE b
  OBVIOUS
<1>2. \A x \in {a, b} : (\A y \in {a, b} : x <= y) <=> x = m
  BY <1>1
<1> QED BY <1>1, <1>2 DEF Score!Min

LEMMA ScoreMax == \A a, b \in Nat : Score!Max({a, b}) = IF a <= b THEN b ELSE a
<1> SUFFICES ASSUME NEW a \in Nat, NEW b \in Nat PROVE Score!Max({a, b}) = IF a <= b THEN b ELSE a
  OBVIOUS
<1>1. PICK m \in {a, b} : m = IF a <= b THEN b ELSE a
  OBVIOUS
<1>2. \A x \in {a, b} : (\A y \in {a, b} : x >= y) <=> x = m
  BY <1>1
<1> QED BY <1>1, <1>2 DEF Score!Max

LEMMA Spaced == ASSUME NEW a \in Nat, NEW b \in Nat, NEW q \in Nat, a < b PROVE a * q + q <= b * q
<1>1. PICK d \in Nat : b = a + 1 + d
  <2>1. b - a - 1 \in Nat /\ b = a + 1 + (b - a - 1)
    OBVIOUS
  <2> QED BY <2>1
<1>2. d * q \in Nat /\ b * q = a * q + q + d * q /\ a * q \in Nat
  BY <1>1
<1> QED BY <1>1, <1>2

LEMMA Divided ==
  ASSUME NEW n \in Nat, NEW d \in Nat \ {0}, NEW q, q = n \div d, NEW r, r = n % d
  PROVE  q \in Nat /\ r \in Nat /\ r < d /\ n = d * q + r
<1>1. q \in Nat /\ r \in Nat /\ r < d
  OBVIOUS
<1> QED BY <1>1

LEMMA DivisionGrows ==
  ASSUME NEW a \in Nat, NEW b \in Nat, a <= b, NEW d \in Nat \ {0} PROVE a \div d <= b \div d
<1>1. PICK p \in Nat, r \in Nat : p = a \div d /\ r = a % d
  OBVIOUS
<1>2. PICK q \in Nat, t \in Nat : q = b \div d /\ t = b % d
  OBVIOUS
<1>3. r < d /\ a = d * p + r /\ t < d /\ b = d * q + t
  BY <1>1, <1>2, Divided
<1> SUFFICES ASSUME q < p PROVE FALSE
  BY <1>1, <1>2
<1>4. q * d + d <= p * d
  BY Spaced
<1>5. PICK x \in Nat, y \in Nat : x = q * d /\ y = p * d /\ x = d * q /\ y = d * p
  OBVIOUS
<1> QED BY <1>3, <1>4, <1>5

\* The chunks lie one after the other within the population.
LEMMA ScoreChunks ==
  ASSUME Score!ScorersAssumption
  PROVE  /\ Score!Groups \in Nat \ {0}
         /\ \A w \in Score!Chunks : /\ w \in Nat /\ Score!StartOf(w) \in Nat /\ Score!SizeOf(w) \in Nat
                                    /\ Score!StartOf(w) + Score!SizeOf(w) <= ScoreSetup.genomes
         /\ \A w, v \in Score!Chunks : w < v => Score!StartOf(w) + Score!SizeOf(w) <= Score!StartOf(v)
<1> DEFINE N == ScoreSetup.genomes
           G == Score!Groups
           q == N \div G
           r == N % G
<1>1. N \in Nat \ {0} /\ G \in Nat \ {0} /\ G <= N
  BY ScoreMin DEF Score!ScorersAssumption, Score!Groups
<1>2. q \in Nat /\ r \in Nat /\ r < G /\ N = G * q + r
  <2>1. PICK n \in Nat : n = N
    BY <1>1
  <2>2. PICK d \in Nat \ {0} : d = G
    BY <1>1
  <2>3. PICK q0 \in Nat, r0 \in Nat : q0 = n \div d /\ r0 = n % d
    OBVIOUS
  <2>4. q0 \in Nat /\ r0 \in Nat /\ r0 < d /\ n = d * q0 + r0
    BY <2>3, Divided
  <2>5. q = q0 /\ r = r0
    BY <2>1, <2>2, <2>3
  <2> QED BY <2>1, <2>2, <2>4, <2>5
<1>3. Score!Chunks = 0..(G - 1)
  BY DEF Score!Chunks
<1>4. \A w \in Score!Chunks : /\ w \in Nat /\ w < G
                              /\ Score!StartOf(w) = w * q + (IF w <= r THEN w ELSE r)
                              /\ Score!SizeOf(w) = q + (IF w < r THEN 1 ELSE 0)
  <2> SUFFICES ASSUME NEW w \in Score!Chunks
               PROVE  /\ w \in Nat /\ w < G
                      /\ Score!StartOf(w) = w * q + (IF w <= r THEN w ELSE r)
                      /\ Score!SizeOf(w) = q + (IF w < r THEN 1 ELSE 0)
    OBVIOUS
  <2>1. w \in Nat /\ w < G
    BY <1>1, <1>3
  <2>2. Score!Min({w, r}) = IF w <= r THEN w ELSE r
    BY <1>2, <2>1, ScoreMin
  <2> QED BY <2>1, <2>2 DEF Score!StartOf, Score!SizeOf
<1> HIDE DEF N, G, q, r
<1>5. ASSUME NEW w \in Score!Chunks
      PROVE  /\ Score!StartOf(w) \in Nat /\ Score!SizeOf(w) \in Nat
             /\ Score!StartOf(w) + Score!SizeOf(w) <= N
  <2>1. w * q \in Nat /\ w * q + q <= G * q
    BY <1>1, <1>2, <1>4, Spaced
  <2>2. PICK x \in Nat, y \in Nat : x = w * q /\ y = G * q
    BY <1>1, <1>2, <1>4
  <2> QED BY <1>1, <1>2, <1>4, <2>1, <2>2
<1>6. ASSUME NEW w \in Score!Chunks, NEW v \in Score!Chunks, w < v
      PROVE  Score!StartOf(w) + Score!SizeOf(w) <= Score!StartOf(v)
  <2>1. w * q \in Nat /\ v * q \in Nat /\ w * q + q <= v * q
    BY <1>2, <1>4, <1>6, Spaced
  <2>2. PICK x \in Nat, y \in Nat : x = w * q /\ y = v * q
    BY <2>1
  <2> QED BY <1>2, <1>4, <1>6, <2>1, <2>2
<1> QED BY <1>1, <1>4, <1>5, <1>6 DEF N, G

LEMMA ScoreMembers ==
  ASSUME Score!ScorersAssumption
  PROVE  /\ \A w \in Score!Chunks : Score!GenomesOf(w) \subseteq Score!Population
         /\ \A w, v \in Score!Chunks : w # v => Score!GenomesOf(w) \cap Score!GenomesOf(v) = {}
<1>1. ASSUME NEW w \in Score!Chunks, NEW g \in Score!GenomesOf(w)
      PROVE  g \in Nat /\ Score!StartOf(w) <= g /\ g < Score!StartOf(w) + Score!SizeOf(w)
  <2>1. PICK i \in 0..(Score!SizeOf(w) - 1) : g = Score!StartOf(w) + i
    BY <1>1 DEF Score!GenomesOf, Score!Member, Score!MemberAt
  <2> QED BY <2>1, ScoreChunks
<1>2. ASSUME NEW w \in Score!Chunks, NEW g \in Score!GenomesOf(w) PROVE g \in Score!Population
  <2>1. ScoreSetup.genomes \in Nat
    BY DEF Score!ScorersAssumption
  <2> QED BY <1>1, <2>1, ScoreChunks DEF Score!Population
<1>3. ASSUME NEW w \in Score!Chunks, NEW v \in Score!Chunks, w # v,
             NEW g \in Score!GenomesOf(w), g \in Score!GenomesOf(v)
      PROVE  FALSE
  <2>1. w < v \/ v < w
    BY <1>3, ScoreChunks
  <2> QED BY <1>1, <1>3, <2>1, ScoreChunks
<1> QED BY <1>2, <1>3

\* What a genome of any chunk is allowed is one of the allowances.
LEMMA ScoreSlots ==
  ASSUME Score!ScorersAssumption, NEW n \in Nat \ {0} PROVE Score!Slots(n) \in Score!Allowances
<1> DEFINE O == ScoreSetup.openTrades
<1>1. PICK o \in Nat : o = O
  BY DEF Score!ScorersAssumption
<1>2. PICK q \in Nat, t \in Nat : q = o \div n /\ t = o % n
  OBVIOUS
<1>3. o = n * q + t
  BY <1>2, Divided
<1>4. q <= o
  <2>1. PICK m \in Nat : n = m + 1 /\ m * q \in Nat
    <3>1. n - 1 \in Nat /\ n = (n - 1) + 1 /\ (n - 1) * q \in Nat
      OBVIOUS
    <3> QED BY <3>1
  <2>2. n * q = m * q + q
    BY <2>1
  <2> QED BY <1>3, <2>1, <2>2
<1>5. /\ Score!Max({1, q}) = IF 1 <= q THEN q ELSE 1
      /\ Score!Max({1, o}) = IF 1 <= o THEN o ELSE 1
  BY ScoreMax
<1> QED BY <1>1, <1>2, <1>4, <1>5 DEF Score!Slots, Score!Allowances

LEMMA ScoreStarts == ASSUME Score!ScorersAssumption, Score!ScoreInit PROVE Score!ScoreInv
<1>1. Score!Nothing \in Score!Pass
  BY DEF Score!Nothing, Score!Pass
<1>2. Score!ScoreTypeOK
  BY <1>1 DEF Score!ScoreInit, Score!ScoreTypeOK
<1> QED BY <1>2 DEF Score!ScoreInit, Score!ScoreInv

LEMMA ScoreStands ==
  Score!ScoreInv /\ UNCHANGED <<c1, c2, c3, c4, c5, c9, c10>> => Score!ScoreInv'
BY DEF Score!ScoreInv, Score!ScoreTypeOK, Score!Explained, Score!InItsChunk

\* One engine pass says of a genome what its evidence has at its share of the positions.
LEMMA ScorePass ==
  ASSUME Score!ScoreTypeOK, Score!ScorersAssumption, NEW w \in Score!Chunks,
         NEW g \in Score!GenomesOf(w), c2[g].decodes
  PROVE  /\ Score!StatsFromEngineResult(Score!EngineResult(w), g) = c2[g].pass[Score!Slots(Score!SizeOf(w))]
         /\ c2[g].pass[Score!Slots(Score!SizeOf(w))] \in Score!Pass
<1> DEFINE n == Score!SizeOf(w)
           configs == Score!ChunkConfigs(w)
<1>1. PICK i \in 0..(n - 1) : g = Score!Member(w, i)
  BY DEF Score!GenomesOf
<1>2. n \in Nat \ {0} /\ i + 1 \in 1..n /\ (i + 1) - 1 = i
  BY <1>1, ScoreChunks
<1>3. g \in Score!Population /\ g # Score!Placeholder
  BY ScoreMembers DEF Score!Population, Score!Placeholder
<1>4. configs[i + 1] = g
  BY <1>1, <1>2 DEF Score!ChunkConfigs, Score!ConfigOf
<1>5. Len(configs) = n
  BY <1>2 DEF Score!ChunkConfigs
<1> HIDE DEF n, configs
<1>6. g \in DOMAIN Score!EngineResult(w) /\ Score!EngineResult(w)[g] = c2[g].pass[Score!Slots(n)]
  BY <1>2, <1>3, <1>4, <1>5 DEF Score!EngineResult, configs
<1>7. Score!StatsFromEngineResult(Score!EngineResult(w), g) = c2[g].pass[Score!Slots(n)]
  BY <1>6 DEF Score!StatsFromEngineResult
<1>8. c2[g].pass[Score!Slots(n)] \in Score!Pass
  BY <1>2, <1>3, ScoreSlots DEF Score!ScoreTypeOK
<1> QED BY <1>7, <1>8 DEF n

\* What a chunk yields is what each of its genomes gets in one pass over all of it, or an
\* error that is named.
LEMMA ScoreYields ==
  ASSUME Score!ScoreTypeOK, Score!ScorersAssumption, NEW w \in Score!Chunks, NEW error \in BOOLEAN,
         NEW g \in Score!GenomesOf(w)
  PROVE  \/ Score!ChunkResults(w, error)[g] = Score!InItsChunk(w, g)
         \/ error /\ c2[g].decodes /\ Score!ChunkResults(w, error)[g] = Score!EngineError
<1> DEFINE e == Score!StatsFromEngineResult(Score!EngineResult(w), g)
<1>1. Score!ChunkResults(w, error)[g] =
        CASE ~c2[g].decodes -> Score!Refused
          [] c2[g].decodes /\ error -> Score!EngineError
          [] OTHER -> Score!ScoreStats(e, Score!ModelledCost(e))
  BY DEF Score!ChunkResults
<1>2. CASE ~c2[g].decodes
  BY <1>1, <1>2 DEF Score!InItsChunk
<1>3. CASE c2[g].decodes /\ error
  BY <1>1, <1>3
<1>4. CASE c2[g].decodes /\ ~error
  <2> DEFINE p == c2[g].pass[Score!Slots(Score!SizeOf(w))]
  <2>1. e = p /\ p \in Score!Pass
    BY <1>4, ScorePass
  <2>2. p.cost \in Nat /\ p.impact \in Nat
    BY <2>1 DEF Score!Pass
  <2> HIDE DEF p
  <2>3. Score!ModelledCost(p) = p.cost
    BY <2>2 DEF Score!ModelledCost, Score!Repriced, Score!LegacyCost
  <2>4. Score!ChunkResults(w, error)[g] = Score!ScoreStats(p, p.cost)
    BY <1>1, <1>4, <2>1, <2>3
  <2> QED BY <1>4, <2>4 DEF Score!InItsChunk, p
<1> QED BY <1>2, <1>3, <1>4

\* A chunk that settles leaves the results of the others as they are.
LEMMA ScoreSettles ==
  ASSUME Score!ScorersAssumption, Score!ScoreInv, NEW w \in Score!Chunks, c5[w] \notin {"none", "settled"},
         NEW produced, DOMAIN produced = Score!GenomesOf(w),
         NEW path \in {"process", "retry_single_worker", "failed"}, NEW more,
         Score!Settle(w, produced, path, more),
         \A g \in Score!GenomesOf(w) :
           \/ produced[g] = Score!InItsChunk(w, g)
           \/ produced[g] = Score!EngineError /\ c2[g].decodes /\ path # "failed"
           \/ produced[g] = Score!Failed /\ path = "failed"
  PROVE  Score!ScoreInv'
<1>1. /\ c9' = [g \in Score!Population |-> IF g \in DOMAIN produced THEN produced[g] ELSE c9[g]]
      /\ c10' = [c10 EXCEPT ![w] = path] /\ c5' = [c5 EXCEPT ![w] = "settled"]
      /\ UNCHANGED <<c1, c2, c3, c4>>
  BY DEF Score!Settle
<1>2. Score!ScoreTypeOK'
  BY <1>1 DEF Score!ScoreInv, Score!ScoreTypeOK
<1>3. c1 # "idle" /\ c1 # "finished"
  BY DEF Score!ScoreInv
<1>4. ASSUME NEW v \in Score!Chunks, c5'[v] = "settled", NEW g \in Score!GenomesOf(v)
      PROVE  Score!Explained(v, g)'
  <2>1. g \in Score!Population
    BY ScoreMembers
  <2>2. Score!InItsChunk(v, g)' = Score!InItsChunk(v, g)
    BY <1>1 DEF Score!InItsChunk
  <2>3. CASE v = w
    <3>1. c9'[g] = produced[g] /\ c10'[v] = path
      BY <1>1, <2>1, <2>3 DEF Score!ScoreInv, Score!ScoreTypeOK
    <3> QED BY <1>1, <2>2, <2>3, <3>1 DEF Score!Explained
  <2>4. CASE v # w
    <3>1. g \notin Score!GenomesOf(w)
      BY <2>4, ScoreMembers
    <3>2. c9'[g] = c9[g] /\ c10'[v] = c10[v] /\ c5[v] = "settled"
      BY <1>1, <1>4, <2>1, <2>4, <3>1 DEF Score!ScoreInv, Score!ScoreTypeOK
    <3>3. Score!Explained(v, g)
      BY <3>2 DEF Score!ScoreInv
    <3> QED BY <1>1, <2>2, <3>2, <3>3 DEF Score!Explained
  <2> QED BY <2>3, <2>4
<1> QED BY <1>1, <1>2, <1>3, <1>4 DEF Score!ScoreInv

LEMMA ScoreInductive ==
  ASSUME Score!ScorersAssumption, Score!ScoreInv, Score!ScoreNext PROVE Score!ScoreInv'
<1>1. CASE Score!Evaluate
  <2>1. c2' \in [Score!Population -> ScoreSetup.evidences] /\ {c3', c4'} \subseteq BOOLEAN
        /\ c1' = "running" /\ c5' = [w \in Score!Chunks |-> "running"] /\ UNCHANGED <<c9, c10>>
    BY <1>1 DEF Score!Evaluate
  <2>2. Score!ScoreTypeOK'
    BY <2>1 DEF Score!ScoreInv, Score!ScoreTypeOK, Score!ScorersAssumption
  <2> QED BY <2>1, <2>2 DEF Score!ScoreInv
<1>2. CASE Score!Poll \/ (\E w \in Score!Chunks : Score!Tick(w))
  <2>1. UNCHANGED <<c1, c2, c3, c4, c5, c9, c10>>
    BY <1>2 DEF Score!Poll, Score!Tick
  <2> QED BY <2>1, ScoreStands
<1>3. CASE Score!Abort
  <2>1. c1' = "aborted" /\ UNCHANGED <<c2, c3, c4, c5, c9, c10>>
    BY <1>3 DEF Score!Abort
  <2> QED BY <2>1 DEF Score!ScoreInv, Score!ScoreTypeOK, Score!Explained, Score!InItsChunk
<1>4. CASE Score!Conclude
  <2>1. /\ c1 = "running" /\ c1' = "finished" /\ UNCHANGED <<c2, c3, c4, c5, c10>>
        /\ \A w \in Score!Chunks : c5[w] = "settled"
        /\ c9' = [g \in Score!Population |-> IF c9[g] = Score!NoResult THEN Score!Failed ELSE c9[g]]
    BY <1>4 DEF Score!Conclude
  <2>2. ASSUME NEW w \in Score!Chunks, NEW g \in Score!GenomesOf(w) PROVE Score!Explained(w, g)'
    <3>1. Score!Explained(w, g)
      BY <2>1 DEF Score!ScoreInv
    <3>2. Score!InItsChunk(w, g).flag # "none"
      BY DEF Score!InItsChunk, Score!Refused, Score!ScoreStats, Score!FlagOf
    <3>3. c9[g].flag # "none"
      BY <3>1, <3>2 DEF Score!Explained, Score!EngineError, Score!Failed
    <3>4. c9'[g] = c9[g]
      BY <2>1, <3>3, ScoreMembers DEF Score!NoResult
    <3> QED BY <2>1, <3>1, <3>4 DEF Score!Explained, Score!InItsChunk
  <2>3. Score!ScoreTypeOK'
    BY <2>1 DEF Score!ScoreInv, Score!ScoreTypeOK
  <2> QED BY <2>1, <2>2, <2>3 DEF Score!ScoreInv
<1>5. ASSUME NEW w \in Score!Chunks, Score!WorkerEnds(w) \/ Score!Die(w) PROVE Score!ScoreInv'
  <2>1. /\ c5[w] = "running" /\ UNCHANGED <<c1, c2, c3, c4, c9, c10>>
        /\ \A v \in Score!Chunks : c5'[v] = "settled" <=> c5[v] = "settled"
        /\ c5' \in [Score!Chunks -> {"none", "running", "returned", "error", "raised", "settled"}]
    BY <1>5 DEF Score!WorkerEnds, Score!Return, Score!Die, Score!ScoreInv, Score!ScoreTypeOK
  <2>2. c1 # "idle"
    BY <2>1 DEF Score!ScoreInv
  <2>3. Score!ScoreTypeOK'
    BY <2>1 DEF Score!ScoreInv, Score!ScoreTypeOK
  <2>4. ASSUME NEW v \in Score!Chunks, c5'[v] = "settled", NEW g \in Score!GenomesOf(v)
        PROVE  Score!Explained(v, g)'
    <3>1. Score!Explained(v, g)
      BY <2>1, <2>4 DEF Score!ScoreInv
    <3> QED BY <2>1, <3>1 DEF Score!Explained, Score!InItsChunk
  <2> QED BY <2>1, <2>2, <2>3, <2>4 DEF Score!ScoreInv
<1>6. ASSUME NEW w \in Score!Chunks, Score!Collect(w) \/ Score!Retry(w) PROVE Score!ScoreInv'
  <2>1. c5[w] \notin {"none", "settled"} /\ Score!ScoreTypeOK
    BY <1>6 DEF Score!Collect, Score!Retry, Score!ScoreInv
  <2>2. CASE \E error \in BOOLEAN, path \in {"process", "retry_single_worker"} : \E more :
               Score!Settle(w, Score!ChunkResults(w, error), path, more)
    <3>0. PICK error \in BOOLEAN, path \in {"process", "retry_single_worker"} :
            \E more : Score!Settle(w, Score!ChunkResults(w, error), path, more)
      BY <2>2
    <3>1. PICK more : Score!Settle(w, Score!ChunkResults(w, error), path, more)
      BY <3>0
    <3>2. DOMAIN Score!ChunkResults(w, error) = Score!GenomesOf(w)
      BY DEF Score!ChunkResults
    <3> QED BY <2>1, <3>0, <3>1, <3>2, ScoreYields, ScoreSettles
  <2>3. CASE Score!Settle(w, [g \in Score!GenomesOf(w) |-> Score!Failed], "failed", {})
    BY <2>1, <2>3, ScoreSettles
  <2> QED BY <1>6, <2>2, <2>3 DEF Score!Collect, Score!Retry
<1> QED BY <1>1, <1>2, <1>3, <1>4, <1>5, <1>6 DEF Score!ScoreNext

LEMMA ScoreInChunk == ASSUME Score!ScoreInv PROVE Score!ScoredInItsChunk
BY DEF Score!ScoreInv, Score!ScoredInItsChunk, Score!GenomesOf, Score!Member, Score!MemberAt

----------------------------------------------------------------------------
(* Breadth samples *)

\* One round of the bisection between two positions, the rest being f's.
Halved(now, f, w) ==
  LET lo == w[1] hi == w[2] mid == (lo + hi) \div 2
  IN IF lo >= hi THEN lo
     ELSE IF now < c4[mid + 1][1] THEN f[<<lo, mid>>] ELSE f[<<mid + 1, hi>>]
Bisects(now, f) == f = [w \in (0..Len(c4)) \X (0..Len(c4)) |-> Halved(now, f, w)]

\* What lies between two positions, as far as the search is concerned.
Gap(w) == IF w[1] < w[2] THEN w[2] - w[1] ELSE 0

LEMMA OrcHalves ==
  ASSUME NEW n \in Nat, NEW w \in (0..n) \X (0..n), w[1] < w[2]
  PROVE  LET mid == (w[1] + w[2]) \div 2
         IN  /\ mid \in 0..n /\ w[1] <= mid /\ mid < w[2]
             /\ <<w[1], mid>> \in (0..n) \X (0..n) /\ Gap(<<w[1], mid>>) < Gap(w)
             /\ <<mid + 1, w[2]>> \in (0..n) \X (0..n) /\ Gap(<<mid + 1, w[2]>>) < Gap(w)
<1> DEFINE mid == (w[1] + w[2]) \div 2
<1>1. w[1] \in 0..n /\ w[2] \in 0..n /\ mid \in 0..n /\ w[1] <= mid /\ mid < w[2]
  OBVIOUS
<1> HIDE DEF mid
<1>2. Gap(w) = w[2] - w[1]
  BY DEF Gap
<1>3. Gap(<<w[1], mid>>) < Gap(w)
  BY <1>1, <1>2 DEF Gap
<1>4. Gap(<<mid + 1, w[2]>>) < Gap(w)
  BY <1>1, <1>2 DEF Gap
<1> QED BY <1>1, <1>3, <1>4 DEF mid

LEMMA OrcSearches ==
  ASSUME NEW now, Len(c4) \in Nat
  PROVE  \E f : Bisects(now, f)
<1>0. PICK n \in Nat : n = Len(c4)
  OBVIOUS
<1> DEFINE D == (0..n) \X (0..n)
           rank == [w \in D |-> Gap(w)]
           body == [w \in D |-> [f \in [D -> Nat] |-> Halved(now, f, w)]]
<1>1. rank \in [D -> Nat] /\ \A w \in D : rank[w] < n + 1
  BY DEF Gap
<1>2. ASSUME NEW w \in D, NEW f \in [D -> Nat] PROVE Halved(now, f, w) \in Nat
  <2>1. w[1] \in Nat /\ w[2] \in Nat
    OBVIOUS
  <2>2. CASE w[1] < w[2]
    BY <2>1, <2>2, OrcHalves DEF Halved
  <2>3. CASE ~(w[1] < w[2])
    BY <2>1, <2>3 DEF Halved
  <2> QED BY <2>2, <2>3
<1>3. ASSUME NEW w \in D, NEW f \in [D -> Nat], NEW g \in [D -> Nat],
             \A e \in D : rank[e] < rank[w] => f[e] = g[e]
      PROVE  Halved(now, f, w) = Halved(now, g, w)
  <2>1. w[1] \in Nat /\ w[2] \in Nat
    OBVIOUS
  <2>2. CASE w[1] < w[2]
    <3> DEFINE mid == (w[1] + w[2]) \div 2
    <3>1. /\ <<w[1], mid>> \in D /\ Gap(<<w[1], mid>>) < Gap(w)
          /\ <<mid + 1, w[2]>> \in D /\ Gap(<<mid + 1, w[2]>>) < Gap(w)
      BY <2>2, OrcHalves
    <3>2. f[<<w[1], mid>>] = g[<<w[1], mid>>] /\ f[<<mid + 1, w[2]>>] = g[<<mid + 1, w[2]>>]
      BY <1>3, <3>1
    <3> QED BY <2>1, <2>2, <3>2 DEF Halved
  <2>3. CASE ~(w[1] < w[2])
    BY <2>1, <2>3 DEF Halved
  <2> QED BY <2>2, <2>3
<1>4. body \in [D -> [[D -> Nat] -> Nat]] /\ \A w \in D : \A f \in [D -> Nat] : body[w][f] = Halved(now, f, w)
  BY <1>2
<1>5. PICK f \in [D -> Nat] : \A w \in D : f[w] = body[w][f]
  <2>1. ASSUME NEW w \in D, NEW f \in [D -> Nat], NEW g \in [D -> Nat],
               \A e \in D : rank[e] < rank[w] => f[e] = g[e]
        PROVE  body[w][f] = body[w][g]
    <3>1. Halved(now, f, w) = Halved(now, g, w)
      BY <1>3, <2>1
    <3> HIDE DEF body, rank
    <3> QED BY <1>4, <3>1
  <2> HIDE DEF body, rank
  <2>2. PICK B : B = body
    OBVIOUS
  <2>3. B \in [D -> [[D -> Nat] -> Nat]]
    BY <1>4, <2>2
  <2> HIDE DEF D
  <2>4. LooksDown(D, Nat, rank, B)
    BY <2>1, <2>2 DEF LooksDown
  <2>5. 0 \in Nat /\ n + 1 \in Nat
    OBVIOUS
  <2>7. rank \in [D -> Nat] /\ \A w \in D : rank[w] < n + 1
    BY <1>1
  <2>6. \E f \in [D -> Nat] : Solves(D, B, f)
    BY <2>3, <2>4, <2>5, <2>7, RankRecursion
  <2> QED BY <2>2, <2>6 DEF Solves
<1>6. \A w \in D : f[w] = Halved(now, f, w)
  BY <1>4, <1>5
<1>7. f = [w \in D |-> Halved(now, f, w)]
  BY <1>5, <1>6
<1> QED BY <1>0, <1>7 DEF Bisects

\* What it finds has a stamp not after the present, in whatever order the samples are.
LEMMA OrcCut ==
  ASSUME NEW S, c4 \in Seq(Nat \X S), NEW now \in Nat
  PROVE  Orc!Cut(now) \in 0..Len(c4) /\ (Orc!Cut(now) # 0 => c4[Orc!Cut(now)][1] <= now)
<1>1. PICK n \in Nat : n = Len(c4) /\ DOMAIN c4 = 1..n
  OBVIOUS
<1> DEFINE D == (0..n) \X (0..n)
           Dated(i) == i # 0 => c4[i][1] <= now
<1>2. PICK f : f = (CHOOSE z : Bisects(now, z)) /\ Bisects(now, f)
  BY <1>1, OrcSearches
<1>3. Orc!Cut(now) = f[<<0, n>>]
  BY <1>1, <1>2 DEF Orc!Cut, Bisects, Halved
<1>4. \A w \in D : f[w] = Halved(now, f, w)
  BY <1>1, <1>2, Zenon DEF Bisects
<1>5. \A i \in 1..n : c4[i][1] \in Nat
  <2>1. \A i \in 1..n : c4[i] \in Nat \X S
    BY <1>1, ElementsOf
  <2> QED BY <2>1
<1> DEFINE G == {w \in D : Dated(w[1]) => f[w] \in 0..n /\ Dated(f[w])}
           rank == [w \in D |-> Gap(w)]
<1>6. ASSUME NEW w \in D, \A e \in D : rank[e] < rank[w] => e \in G PROVE w \in G
  <2>c. f[w] = Halved(now, f, w)
    BY <1>4
  <2>0. w[1] \in 0..n /\ w[2] \in 0..n
    OBVIOUS
  <2>1. CASE ~(w[1] < w[2])
    <3>1. f[w] = w[1]
      BY <2>c, <2>0, <2>1 DEF Halved
    <3> QED BY <2>0, <3>1
  <2>2. CASE w[1] < w[2]
    <3>1. PICK mid : mid = (w[1] + w[2]) \div 2
      OBVIOUS
    <3>2. /\ mid \in 0..n /\ w[1] <= mid /\ mid < w[2]
          /\ <<w[1], mid>> \in D /\ Gap(<<w[1], mid>>) < Gap(w)
          /\ <<mid + 1, w[2]>> \in D /\ Gap(<<mid + 1, w[2]>>) < Gap(w)
      BY <2>2, <3>1, OrcHalves
    <3>3. <<w[1], mid>> \in G /\ <<mid + 1, w[2]>> \in G
      BY <1>6, <3>2
    <3>4. f[w] = IF now < c4[mid + 1][1] THEN f[<<w[1], mid>>] ELSE f[<<mid + 1, w[2]>>]
      BY <2>c, <2>0, <2>2, <3>1 DEF Halved
    <3>5. CASE now < c4[mid + 1][1]
      BY <3>3, <3>4, <3>5
    <3>6. CASE ~(now < c4[mid + 1][1])
      <4>1. mid + 1 \in 1..n
        BY <2>0, <3>2
      <4>2. c4[mid + 1][1] <= now
        BY <1>5, <3>6, <4>1
      <4> QED BY <3>3, <3>4, <3>6, <4>2
    <3> QED BY <3>5, <3>6
  <2> QED BY <2>1, <2>2
<1>7. G = D
  <2>1. rank \in [D -> Nat] /\ G \in SUBSET D
    BY DEF Gap
  <2>2. \A w \in D : (\A e \in D : rank[e] < rank[w] => e \in G) => w \in G
    BY <1>6
  <2> HIDE DEF G, rank, D
  <2>3. PICK H, R, E : H = G /\ R = rank /\ E = D
    OBVIOUS
  <2>4. H \in SUBSET E /\ R \in [E -> Nat] /\ \A w \in E : (\A e \in E : R[e] < R[w] => e \in H) => w \in H
    BY <2>1, <2>2, <2>3
  <2>5. H = E
    BY <2>4, RankInduction
  <2> QED BY <2>3, <2>5
<1>8. <<0, n>> \in D /\ <<0, n>>[1] = 0
  OBVIOUS
<1>9. f[<<0, n>>] \in 0..n /\ Dated(f[<<0, n>>])
  BY <1>7, <1>8
<1> QED BY <1>1, <1>3, <1>9

LEMMA OrcDated ==
  ASSUME Orc!OrchestraAssumption, Orc!OrcSamples, Orc!OrcTypeOK, Orc!OrcNext PROVE Orc!OrcSamples'
<1> USE DEF Orc!OrchestraAssumption
<1>0. PICK S : S = OrcSetup.samples \cup {1} /\ c4 \in Seq(Nat \X S)
  BY DEF Orc!OrcSamples
<1>1. ASSUME NEW label, NEW x, Orc!DecideAll(label, x) PROVE Orc!OrcSamples'
  <2>1. c4' = c4 /\ c5' = c5 /\ c5 \in Nat
    BY <1>1 DEF Orc!DecideAll, Orc!OrcSamples
  <2>2. CASE ~c1.enabled
    BY <1>1, <2>1, <2>2 DEF Orc!DecideAll, Orc!OrcSamples, Orc!BreadthIsNotFromTheFuture, Orc!Unasked
  <2>3. CASE c1.enabled
    <3>1. ASSUME NEW v \in OrcSetup.variants
          PROVE  /\ c6'[v].at = c5
                 /\ c6'[v].sample = IF c1.floor > 0 THEN Orc!BreadthAt(c5) ELSE <<>>
      BY <1>1, <2>3 DEF Orc!DecideAll, Orc!Decision
    <3>2. Orc!BreadthAt(c5) # <<>> => Orc!BreadthAt(c5)[1] <= c5
      BY <1>0, <2>1, OrcCut DEF Orc!BreadthAt, Orc!Latest, Orc!AtOrBefore
    <3> QED BY <2>1, <3>1, <3>2 DEF Orc!OrcSamples, Orc!BreadthIsNotFromTheFuture
  <2> QED BY <2>2, <2>3
<1>2. ASSUME NEW stamp \in 1..OrcSetup.lastBar, NEW share \in OrcSetup.samples, Orc!ObserveBreadth(stamp, share)
      PROVE  Orc!OrcSamples'
  <2>1. <<stamp, share>> \in Nat \X S
    BY <1>0
  <2>2. c4' = Append(c4, <<stamp, share>>) /\ c5' = c5 /\ c6' = c6
    BY <1>2 DEF Orc!ObserveBreadth
  <2>3. c4' \in Seq(Nat \X S)
    BY <1>0, <2>1, <2>2, AppendEnds
  <2> QED BY <1>0, <2>2, <2>3 DEF Orc!OrcSamples, Orc!BreadthIsNotFromTheFuture
<1>3. ASSUME NEW newest \in 1..OrcSetup.lastBar, Orc!LoadBreadth(newest) PROVE Orc!OrcSamples'
  <2>1. c4' = [stamp \in 1..newest |-> <<stamp, 1>>] /\ c5' = c5 /\ c6' = c6
    BY <1>3 DEF Orc!LoadBreadth
  <2>2. newest \in Nat /\ \A stamp \in 1..newest : <<stamp, 1>> \in Nat \X S
    BY <1>0
  <2>3. c4' \in Seq(Nat \X S)
    BY <2>1, <2>2
  <2> QED BY <1>0, <2>1, <2>3 DEF Orc!OrcSamples, Orc!BreadthIsNotFromTheFuture
<1>4. CASE Orc!NextBar
  BY <1>4 DEF Orc!NextBar, Orc!OrcSamples, Orc!BreadthIsNotFromTheFuture
<1>5. ASSUME \/ \E label : Orc!SeeRegime(label) \/ \E v, pnl, tag : Orc!RecordTrade(v, pnl, tag)
             \/ \E v, x : Orc!ObserveVol(v, x)
      PROVE  Orc!OrcSamples'
  <2>1. c4' = c4 /\ c5' = c5 /\ c6' = c6
    BY <1>5 DEF Orc!SeeRegime, Orc!RecordTrade, Orc!ObserveVol
  <2> QED BY <2>1 DEF Orc!OrcSamples, Orc!BreadthIsNotFromTheFuture
<1> QED BY <1>1, <1>2, <1>3, <1>4, <1>5 DEF Orc!OrcNext

LEMMA OrcStands == ASSUME Orc!OrcSamples, UNCHANGED <<c4, c5, c6>> PROVE Orc!OrcSamples'
BY DEF Orc!OrcSamples, Orc!BreadthIsNotFromTheFuture

LEMMA OrcSampled == ASSUME Orc!OrcInit PROVE Orc!OrcSamples
BY DEF Orc!OrcInit, Orc!OrcSamples, Orc!BreadthIsNotFromTheFuture, Orc!Unasked

----------------------------------------------------------------------------
(* Predictions *)

LEMMA PredCardinality == \A S : Pred!Cardinality(S) = Cardinality(S)
BY DEF Pred!Cardinality, Cardinality, Pred!IsFiniteSet, IsFiniteSet

LEMMA PredNewest == \A n \in Nat : \A f, V : f \in [1..n -> V] => (DOMAIN c1 = DOMAIN f => Pred!Newest = n)
<1> SUFFICES ASSUME NEW n \in Nat, NEW f, NEW V, f \in [1..n -> V], DOMAIN c1 = DOMAIN f PROVE Pred!Newest = n
  OBVIOUS
<1>1. DOMAIN c1 = 1..n /\ Cardinality(1..n) = n
  BY FS_Interval
<1> QED BY <1>1, PredCardinality DEF Pred!Newest

LEMMA PredStarts == ASSUME Pred!PredictorAssumption, Pred!PredInit PROVE Pred!PredInv
<1>1. c1 \in [1..0 -> Pred!Outcomes] /\ DOMAIN c1 = {}
  BY DEF Pred!PredInit
<1>2. Pred!Newest = 0
  BY <1>1, PredCardinality, FS_EmptySet DEF Pred!Newest
<1>3. PredSetup.maxTrainings \in Nat
  BY DEF Pred!PredictorAssumption
<1>4. c1 \in [1..Pred!Newest -> Pred!Outcomes]
  BY <1>1, <1>2
<1>5. /\ c2 = [pickle |-> 0, meta |-> 0] /\ c3 = "none"
      /\ c4 = [model |-> 0, meta |-> 0] /\ c9.score = 0
  BY DEF Pred!PredInit, Pred!None, Pred!Silent
<1> QED BY <1>2, <1>3, <1>4, <1>5 DEF Pred!PredInv

LEMMA PredStands ==
  ASSUME Pred!PredInv, UNCHANGED <<c1, c2, c3, c4, c5, c9>> PROVE Pred!PredInv'
BY DEF Pred!PredInv, Pred!Newest, Pred!Vouched, Pred!Outcomes

\* What a score says is the side of the model, if it says anything.
LEMMA PredScores ==
  ASSUME Pred!PredictorAssumption, Pred!PredInv, NEW p \in PredSetup.probabilities, Pred!Score(p) # 0
  PROVE  Pred!Vouched(c4.model) /\ Pred!Score(p) = c1[c4.model].side
<1>1. c4.model # 0 /\ c4.meta = c4.model /\ Pred!Vouched(c4.model) /\ c4.model \in 1..Pred!Newest
  BY DEF Pred!Score, Pred!PredInv, Pred!Vouched
<1>2. c1[c4.model] \in Pred!Outcomes
  BY <1>1 DEF Pred!PredInv
<1>3. PICK o : o = c1[c4.model] /\ o.side \in {1, -1} /\ o.at \in 0..10 /\ o.base \in 0..10
  BY <1>2 DEF Pred!Outcomes, Pred!PredictorAssumption
<1>4. p \in 0..10
  BY DEF Pred!PredictorAssumption
<1>5. Pred!Score(p) = IF Pred!Degenerate(o) \/ Pred!Outside(o, p) THEN 0 ELSE Pred!Sign(p - o.base)
  BY <1>1, <1>3 DEF Pred!Score
<1> QED BY <1>1, <1>3, <1>4, <1>5 DEF Pred!Degenerate, Pred!Outside, Pred!Sign

LEMMA PredInductive ==
  ASSUME Pred!PredictorAssumption, Pred!PredInv, Pred!PredNext PROVE Pred!PredInv'
<1>0. Pred!Newest \in Nat /\ DOMAIN c1 = 1..Pred!Newest
  BY DEF Pred!PredInv, Pred!PredictorAssumption
<1>1. CASE Pred!Train
  <2>1. PICK o \in Pred!Outcomes :
          c1' = [k \in 1..Pred!Newest + 1 |-> IF k <= Pred!Newest THEN c1[k] ELSE o]
    BY <1>1 DEF Pred!Train
  <2>2. PICK n \in Nat : n = Pred!Newest
    BY <1>0
  <2>3. c1' \in [1..n + 1 -> Pred!Outcomes] /\ \A k \in 1..n : c1'[k] = c1[k]
    BY <2>1, <2>2 DEF Pred!PredInv
  <2>4. Pred!Newest' = n + 1
    <3>1. DOMAIN c1' = 1..n + 1 /\ Cardinality(1..n + 1) = n + 1
      BY <2>3, FS_Interval
    <3> QED BY <3>1, PredCardinality DEF Pred!Newest
  <2>5. /\ c3' = "meta" /\ c4' = c4 /\ c5' = c5 /\ c9' = c9 /\ n < PredSetup.maxTrainings
        /\ c2' = [c2 EXCEPT !.pickle = n + 1]
    BY <1>1, <2>2 DEF Pred!Train
  <2>6. c2' \in [pickle : 0..n + 1, meta : 0..n + 1] /\ c2'.pickle = n + 1
    BY <2>2, <2>5 DEF Pred!PredInv
  <2>7. \A k : Pred!Vouched(k) => Pred!Vouched(k)' /\ c1'[k].side = c1[k].side
    BY <2>2, <2>3, <2>4, <2>5 DEF Pred!Vouched
  <2>8. (Pred!Outcomes)' = Pred!Outcomes
    BY DEF Pred!Outcomes
  <2>9. c1' \in [1..Pred!Newest' -> (Pred!Outcomes)'] /\ Pred!Newest' \in 0..PredSetup.maxTrainings
    BY <2>3, <2>4, <2>5, <2>8 DEF Pred!PredictorAssumption
  <2> QED BY <2>4, <2>5, <2>6, <2>7, <2>9 DEF Pred!PredInv
<1>2. CASE Pred!SaveMeta
  BY <1>0, <1>2 DEF Pred!SaveMeta, Pred!PredInv, Pred!Newest, Pred!Vouched, Pred!Outcomes
<1>3. CASE Pred!Install
  <2>1. /\ UNCHANGED <<c1, c2, c5, c9>> /\ c3 = "install" /\ c3' = "none"
        /\ c4' = IF c1[Pred!Newest].allowed /\ Pred!Admitted(c2.meta)
                 THEN [model |-> c2.pickle, meta |-> c2.meta] ELSE c4
    BY <1>3 DEF Pred!Install
  <2>2. c2.pickle = Pred!Newest /\ c2.meta = Pred!Newest
    BY <2>1 DEF Pred!PredInv
  <2>3. Pred!Admitted(c2.meta) => Pred!Vouched(c2.meta)
    BY <1>0, <2>2 DEF Pred!Admitted, Pred!Vouched
  <2>4. c4'.model = c4'.meta /\ (c4'.model # 0 => Pred!Vouched(c4'.model))
    BY <2>1, <2>2, <2>3 DEF Pred!PredInv
  <2>5. Pred!Newest' = Pred!Newest /\ (Pred!Outcomes)' = Pred!Outcomes /\ \A k : Pred!Vouched(k)' = Pred!Vouched(k)
    BY <2>1 DEF Pred!Newest, Pred!Outcomes, Pred!Vouched
  <2> QED BY <2>1, <2>4, <2>5 DEF Pred!PredInv
<1>4. CASE Pred!Poll \/ Pred!Close \/ Pred!Verify \/ Pred!LoadPickle \/ Pred!Leave
  <2>1. UNCHANGED <<c1, c2, c3, c4, c5, c9>>
    BY <1>4 DEF Pred!Poll, Pred!Close, Pred!Verify, Pred!LoadPickle, Pred!Leave
  <2> QED BY <2>1, PredStands
<1>5. CASE Pred!OnKline
  <2>1. PICK p \in PredSetup.probabilities : c9'.score = Pred!Score(p) /\ c9'.model = c4.model
    BY <1>5 DEF Pred!OnKline
  <2>2. UNCHANGED <<c1, c2, c3, c4, c5>>
    BY <1>5 DEF Pred!OnKline
  <2>3. c9'.score # 0 => Pred!Vouched(c9'.model) /\ c9'.score = c1[c9'.model].side
    BY <2>1, PredScores
  <2>4. Pred!Newest' = Pred!Newest /\ (Pred!Outcomes)' = Pred!Outcomes /\ \A k : Pred!Vouched(k)' = Pred!Vouched(k)
    BY <2>2 DEF Pred!Newest, Pred!Outcomes, Pred!Vouched
  <2> QED BY <2>2, <2>3, <2>4 DEF Pred!PredInv
<1>6. CASE Pred!Crash
  BY <1>6 DEF Pred!Crash, Pred!PredInv, Pred!Newest, Pred!Outcomes, Pred!None, Pred!Silent
<1> QED BY <1>1, <1>2, <1>3, <1>4, <1>5, <1>6 DEF Pred!PredNext

LEMMA PredGated == ASSUME Pred!PredInv PROVE Pred!ScoreIsAGatedCall
BY DEF Pred!PredInv, Pred!ScoreIsAGatedCall, Pred!Vouched

----------------------------------------------------------------------------
(* Regime labels *)

LEMMA RegMax == \A a, b \in Int : Reg!Max({a, b}) = IF a >= b THEN a ELSE b
<1> SUFFICES ASSUME NEW a \in Int, NEW b \in Int PROVE Reg!Max({a, b}) = IF a >= b THEN a ELSE b
  OBVIOUS
<1>1. PICK m \in {a, b} : m = IF a >= b THEN a ELSE b
  OBVIOUS
<1>2. \A x \in {a, b} : (\A y \in {a, b} : x >= y) <=> x = m
  BY <1>1
<1> QED BY <1>1, <1>2 DEF Reg!Max

LEMMA RegMin == \A a, b \in Int : Reg!Min({a, b}) = IF a <= b THEN a ELSE b
<1> SUFFICES ASSUME NEW a \in Int, NEW b \in Int PROVE Reg!Min({a, b}) = IF a <= b THEN a ELSE b
  OBVIOUS
<1>1. PICK m \in {a, b} : m = IF a <= b THEN a ELSE b
  OBVIOUS
<1>2. \A x \in {a, b} : (\A y \in {a, b} : x <= y) <=> x = m
  BY <1>1
<1> QED BY <1>1, <1>2 DEF Reg!Min

\* A segment goes on by a bar at least, and not beyond the last.
LEMMA RegSegment ==
  ASSUME Reg!RegimeAssumption, NEW n \in Nat, NEW t \in 0..n, t # n
  PROVE  Reg!SegmentEnd(t, n) \in t + 1..n
<1> DEFINE W == RegSetup.warmup  R == RegSetup.refitEvery
           end == IF t < W THEN W ELSE IF W = 0 THEN t + R ELSE W + ((t - W) \div R + 1) * R
<1>1. W \in Nat /\ R \in Nat \ {0}
  BY DEF Reg!RegimeAssumption
<1>2. end \in Int
  <2>1. (t - W) \div R \in Int
    BY <1>1
  <2> QED BY <1>1, <2>1
<1>3. Reg!SegmentEnd(t, n) = Reg!Min({n, Reg!Max({end, t + 1})})
  BY DEF Reg!SegmentEnd
<1> HIDE DEF end
<1>4. PICK m \in Int : m = Reg!Max({end, t + 1}) /\ m >= t + 1
  BY <1>2, RegMax
<1>5. Reg!Min({n, m}) = IF n <= m THEN n ELSE m
  BY <1>4, RegMin
<1> QED BY <1>3, <1>4, <1>5

\* The label a segment from t gives the position tt under the fit of now.
Label(n, now, t, tt) ==
  LET start == Reg!Max({0, t - Reg!Limit})
  IN  [post |-> Reg!Ordered(Reg!Forward(Reg!Window(now), start, Reg!RowOf(tt, t, start), Reg!SegmentEnd(t, n))),
       told |-> tt >= RegSetup.warmup]
Labels(n) == {<<>>} \cup {Label(n, now, t, tt) : now \in 0..n, t \in 0..n, tt \in 0..n}

\* It is of its bar, under a fit that saw only bars before it.
OfItsBar(l, p) ==
  l # <<>> => LET post == l.post sigma == post[1].fit.sigma
              IN  /\ post[1].saw[2] = p /\ post[1].fit.upto <= p
                  /\ sigma[post[1].state] <= sigma[post[2].state]
                  /\ l.told => p >= RegSetup.warmup

LEMMA RegLimit == ASSUME Reg!RegimeAssumption PROVE Reg!Limit \in Int
<1>1. RegSetup.maxRows \in Int /\ RegSetup.minRows \in Int
  BY DEF Reg!RegimeAssumption
<1> QED BY <1>1, RegMax DEF Reg!Limit

LEMMA RegLabel ==
  ASSUME Reg!RegimeAssumption, NEW n \in Nat, NEW now \in 0..n, NEW t \in 0..n, NEW tt \in 0..n, now <= tt
  PROVE  OfItsBar(Label(n, now, t, tt), tt)
<1>1. PICK start \in Int : start = Reg!Max({0, t - Reg!Limit})
  BY RegLimit, RegMax
<1>2. PICK fit : fit = Reg!Window(now)
  OBVIOUS
<1>3. fit.upto = now /\ fit.sigma \in {<<1, 2>>, <<2, 1>>}
  BY <1>2 DEF Reg!Window, Reg!PastWindow, Reg!Fit
<1>4. PICK post : post = [k \in {1, 2} |-> [saw |-> <<start, tt>>, fit |-> fit, state |-> k]]
  OBVIOUS
<1>5. Reg!Forward(fit, start, Reg!RowOf(tt, t, start), Reg!SegmentEnd(t, n)) = post
  <2>1. start + (tt - start) = tt
    OBVIOUS
  <2> QED BY <1>4, <2>1 DEF Reg!Forward, Reg!ForwardOnly, Reg!Posterior, Reg!RowOf, Reg!OwnRow
<1>6. PICK order \in {<<1, 2>>, <<2, 1>>} :
        /\ fit.sigma[order[1]] <= fit.sigma[order[2]]
        /\ Reg!Ordered(post) = [k \in {1, 2} |-> post[order[k]]]
  <2>1. post[1].fit.sigma = fit.sigma
    BY <1>4
  <2> QED BY <1>3, <2>1 DEF Reg!Ordered
<1>7. order[1] \in {1, 2} /\ order[2] \in {1, 2}
  OBVIOUS
<1>8. PICK l : l = Label(n, now, t, tt) /\ l.post = [k \in {1, 2} |-> post[order[k]]] /\ (l.told => tt >= RegSetup.warmup)
  <2>1. PICK both, told : both = [k \in {1, 2} |-> post[order[k]]] /\ told = (tt >= RegSetup.warmup)
    OBVIOUS
  <2>2. Label(n, now, t, tt) = [post |-> both, told |-> told]
    BY <1>1, <1>2, <1>5, <1>6, <2>1 DEF Label
  <2>3. [post |-> both, told |-> told].post = both /\ [post |-> both, told |-> told].told = told
    OBVIOUS
  <2>4. told => tt >= RegSetup.warmup
    BY <2>1, Zenon
  <2> QED BY <2>1, <2>2, <2>3, <2>4, Zenon
<1>9. /\ l.post[1] = [saw |-> <<start, tt>>, fit |-> fit, state |-> order[1]]
      /\ l.post[2] = [saw |-> <<start, tt>>, fit |-> fit, state |-> order[2]]
  BY <1>4, <1>7, <1>8
<1>10. /\ l.post[1].saw[2] = tt /\ l.post[1].fit = fit
       /\ l.post[1].state = order[1] /\ l.post[2].state = order[2]
  BY <1>9
<1>11. OfItsBar(l, tt)
  BY <1>3, <1>6, <1>8, <1>10 DEF OfItsBar
<1> QED BY <1>8, <1>11

\* One segment, or one bar, of the walk through the positions, the rest being f's.
Walked(n, f, w) ==
  LET t == w[1]
      fitAt == w[2]
      held == IF fitAt < 0 THEN <<>> ELSE Reg!Window(fitAt)
      now == IF Reg!Refits(t, held) THEN t ELSE fitAt
      end == Reg!SegmentEnd(t, n)
  IN IF t = n THEN <<>>
     ELSE IF now < 0 THEN <<<<>>>> \o f[<<t + 1, now>>]
     ELSE [k \in 1..(end - t) |-> Label(n, now, t, t + k - 1)] \o f[<<end, now>>]
WalksBack(n, f) == f = [w \in (0..n) \X (-1..n) |-> Walked(n, f, w)]

\* What a step of it comes to.
StepsOn(n, f, w) ==
  \E end \in w[1] + 1..n, now \in -1..n, head \in Seq(Labels(n)) :
    /\ Walked(n, f, w) = head \o f[<<end, now>>]
    /\ <<end, now>> \in (0..n) \X (-1..n) /\ Len(head) = end - w[1]
    /\ w[2] <= w[1] => now <= w[1]
    /\ \A k \in 1..Len(head) : w[2] <= w[1] => OfItsBar(head[k], w[1] + k - 1)

LEMMA RegStep ==
  ASSUME Reg!RegimeAssumption, NEW n \in Nat, NEW f, NEW w \in (0..n) \X (-1..n), w[1] # n
  PROVE  StepsOn(n, f, w)
<1>1. PICK t \in 0..n : t = w[1] /\ t # n
  OBVIOUS
<1>2. PICK fitAt \in -1..n : fitAt = w[2]
  OBVIOUS
<1>3. PICK now \in {t, fitAt} : now = IF Reg!Refits(t, IF fitAt < 0 THEN <<>> ELSE Reg!Window(fitAt)) THEN t ELSE fitAt
  OBVIOUS
<1>4. now \in -1..n /\ (fitAt <= t => now <= t)
  BY <1>1
<1>5. CASE now < 0
  <2>1. Walked(n, f, w) = <<<<>>>> \o f[<<t + 1, now>>]
    BY <1>1, <1>2, <1>3, <1>5 DEF Walked
  <2>2. <<<<>>>> \in Seq(Labels(n)) /\ Len(<<<<>>>>) = 1 /\ \A k \in 1..1 : OfItsBar(<<<<>>>>[k], t + k - 1)
    BY DEF Labels, OfItsBar
  <2>3. t + 1 \in t + 1..n /\ <<t + 1, now>> \in (0..n) \X (-1..n) /\ (t + 1) - t = 1
    BY <1>1, <1>4
  <2> QED BY <1>1, <1>2, <1>4, <2>1, <2>2, <2>3 DEF StepsOn
<1>6. CASE ~(now < 0)
  <2>1. PICK end \in t + 1..n : end = Reg!SegmentEnd(t, n)
    BY <1>1, RegSegment
  <2>2. PICK head : head = [k \in 1..(end - t) |-> Label(n, now, t, t + k - 1)]
    OBVIOUS
  <2>3. Walked(n, f, w) = head \o f[<<end, now>>]
    BY <1>1, <1>2, <1>3, <1>6, <2>1, <2>2 DEF Walked
  <2>4. now \in 0..n /\ end - t \in Nat
    BY <1>4, <1>6
  <2>5. ASSUME NEW k \in 1..(end - t)
        PROVE  t + k - 1 \in 0..n /\ t <= t + k - 1 /\ head[k] = Label(n, now, t, t + k - 1) /\ head[k] \in Labels(n)
    <3>1. t + k - 1 \in 0..n /\ t <= t + k - 1
      OBVIOUS
    <3> QED BY <2>2, <2>4, <3>1 DEF Labels
  <2>6. head \in Seq(Labels(n)) /\ Len(head) = end - t
    <3>1. head \in [1..(end - t) -> Labels(n)]
      BY <2>2, <2>5
    <3> QED BY <2>4, <3>1
  <2>7. ASSUME NEW k \in 1..(end - t), fitAt <= t PROVE OfItsBar(head[k], t + k - 1)
    <3>1. now <= t + k - 1
      BY <1>4, <2>5, <2>7
    <3> QED BY <2>4, <2>5, <3>1, RegLabel
  <2>8. <<end, now>> \in (0..n) \X (-1..n)
    BY <1>4
  <2> QED BY <1>1, <1>2, <1>4, <2>3, <2>6, <2>7, <2>8 DEF StepsOn
<1> QED BY <1>5, <1>6

LEMMA RegWalks == ASSUME Reg!RegimeAssumption, NEW n \in Nat PROVE \E f : WalksBack(n, f)
<1> DEFINE D == (0..n) \X (-1..n)
           V == Seq(Labels(n))
           rank == [w \in D |-> n - w[1]]
           body == [w \in D |-> [f \in [D -> V] |-> Walked(n, f, w)]]
<1>1. rank \in [D -> Nat] /\ \A w \in D : rank[w] < n + 1
  OBVIOUS
<1>2. ASSUME NEW w \in D, NEW f \in [D -> V] PROVE Walked(n, f, w) \in V
  <2>1. CASE w[1] = n
    BY <2>1 DEF Walked
  <2>2. CASE w[1] # n
    <3>1. PICK end \in w[1] + 1..n, now \in -1..n, head \in V :
            Walked(n, f, w) = head \o f[<<end, now>>] /\ <<end, now>> \in D
      <4>1. StepsOn(n, f, w)
        BY <2>2, RegStep
      <4> QED BY <4>1 DEF StepsOn
    <3>2. f[<<end, now>>] \in V
      BY <3>1
    <3> QED BY <3>1, <3>2
  <2> QED BY <2>1, <2>2
<1>3. ASSUME NEW w \in D, NEW f \in [D -> V], NEW g \in [D -> V],
             \A e \in D : rank[e] < rank[w] => f[e] = g[e]
      PROVE  Walked(n, f, w) = Walked(n, g, w)
  <2>1. CASE w[1] = n
    BY <2>1 DEF Walked
  <2>2. CASE w[1] # n
    <3>1. w[1] \in 0..n /\ w[1] < n /\ w[2] \in -1..n
      BY <2>2
    <3>2. PICK now : now = IF Reg!Refits(w[1], IF w[2] < 0 THEN <<>> ELSE Reg!Window(w[2])) THEN w[1] ELSE w[2]
      OBVIOUS
    <3>3. now \in -1..n
      BY <3>1, <3>2
    <3>4. PICK end \in w[1] + 1..n : end = Reg!SegmentEnd(w[1], n)
      BY <3>1, RegSegment
    <3>5. f[<<w[1] + 1, now>>] = g[<<w[1] + 1, now>>]
      <4>1. <<w[1] + 1, now>> \in D /\ rank[<<w[1] + 1, now>>] < rank[w]
        BY <3>1, <3>3
      <4> QED BY <1>3, <4>1
    <3>6. f[<<end, now>>] = g[<<end, now>>]
      <4>1. <<end, now>> \in D /\ rank[<<end, now>>] < rank[w]
        BY <3>1, <3>3, <3>4, SMTT(30)
      <4> QED BY <1>3, <4>1
    <3> QED BY <3>2, <3>4, <3>5, <3>6 DEF Walked
  <2> QED BY <2>1, <2>2
<1>4. body \in [D -> [[D -> V] -> V]] /\ \A w \in D : \A f \in [D -> V] : body[w][f] = Walked(n, f, w)
  BY <1>2
<1>5. PICK f \in [D -> V] : \A w \in D : f[w] = body[w][f]
  <2>1. ASSUME NEW w \in D, NEW f \in [D -> V], NEW g \in [D -> V],
               \A e \in D : rank[e] < rank[w] => f[e] = g[e]
        PROVE  body[w][f] = body[w][g]
    <3>1. Walked(n, f, w) = Walked(n, g, w)
      BY <1>3, <2>1
    <3> HIDE DEF body, rank
    <3> QED BY <1>4, <3>1
  <2>2. <<>> \in V /\ n + 1 \in Nat
    OBVIOUS
  <2> HIDE DEF body, rank
  <2>3. PICK B : B = body
    OBVIOUS
  <2>4. B \in [D -> [[D -> V] -> V]]
    BY <1>4, <2>3
  <2> HIDE DEF D, V
  <2>5. LooksDown(D, V, rank, B)
    BY <2>1, <2>3 DEF LooksDown
  <2>6. \E f \in [D -> V] : Solves(D, B, f)
    BY <1>1, <2>2, <2>4, <2>5, RankRecursion
  <2> QED BY <2>3, <2>6 DEF Solves
<1>6. \A w \in D : f[w] = Walked(n, f, w)
  BY <1>4, <1>5
<1>7. f = [w \in D |-> Walked(n, f, w)]
  BY <1>5, <1>6
<1> QED BY <1>7 DEF WalksBack

\* Every position gets a label, its own.
LEMMA RegCausal ==
  ASSUME Reg!RegimeAssumption, NEW n \in Nat
  PROVE  /\ Reg!CausalLabels(n) \in Seq(Labels(n)) /\ Len(Reg!CausalLabels(n)) = n
         /\ \A k \in 1..n : OfItsBar(Reg!CausalLabels(n)[k], k - 1)
<1> DEFINE D == (0..n) \X (-1..n)
           rank == [w \in D |-> n - w[1]]
           Right(q, t) == q \in Seq(Labels(n)) /\ Len(q) = n - t /\ \A k \in 1..Len(q) : OfItsBar(q[k], t + k - 1)
<1>1. CASE n < RegSetup.minRows
  <2>1. Reg!CausalLabels(n) = [k \in 1..n |-> <<>>]
    BY <1>1 DEF Reg!CausalLabels, Reg!Unlabelled
  <2>2. PICK q : q = [k \in 1..n |-> <<>>]
    OBVIOUS
  <2>3. q \in Seq(Labels(n)) /\ Len(q) = n
    <3>1. <<>> \in Labels(n)
      BY DEF Labels
    <3>2. \A k \in 1..n : q[k] = <<>>
      BY <2>2
    <3>3. q \in [1..n -> Labels(n)]
      BY <2>2, <3>1
    <3> QED BY <3>3
  <2>4. \A k \in 1..n : OfItsBar(q[k], k - 1)
    BY <2>2 DEF OfItsBar
  <2> QED BY <2>1, <2>2, <2>3, <2>4
<1>2. CASE ~(n < RegSetup.minRows)
  <2>1. PICK f : f = (CHOOSE z : WalksBack(n, z)) /\ WalksBack(n, f)
    BY RegWalks, Zenon
  <2>2. Reg!CausalLabels(n) = f[<<0, -1>>]
    BY <1>2, <2>1 DEF Reg!CausalLabels, WalksBack, Walked, Reg!Unlabelled, Label
  <2>3. \A w \in D : f[w] = Walked(n, f, w)
    BY <2>1, Zenon DEF WalksBack
  <2> DEFINE G == {w \in D : w[2] <= w[1] => Right(f[w], w[1])}
  <2>4. ASSUME NEW w \in D, \A e \in D : rank[e] < rank[w] => e \in G PROVE w \in G
    <3> SUFFICES ASSUME w[2] <= w[1] PROVE Right(f[w], w[1])
      OBVIOUS
    <3>1. w[1] \in 0..n /\ f[w] = Walked(n, f, w)
      BY <2>3
    <3>2. CASE w[1] = n
      BY <3>1, <3>2 DEF Walked
    <3>3. CASE w[1] # n
      <4>1. PICK end \in w[1] + 1..n, now \in -1..n, head \in Seq(Labels(n)) :
              /\ f[w] = head \o f[<<end, now>>]
              /\ <<end, now>> \in D /\ Len(head) = end - w[1] /\ now <= w[1]
              /\ \A k \in 1..Len(head) : OfItsBar(head[k], w[1] + k - 1)
        <5> HIDE DEF Right, G, rank
        <5>1. StepsOn(n, f, w)
          BY <3>3, RegStep
        <5> QED BY <3>1, <5>1 DEF StepsOn
      <4>2. rank[<<end, now>>] < rank[w] /\ now <= end
        BY <3>1, <4>1, SMTT(30)
      <4>3. PICK tail : tail = f[<<end, now>>] /\ Right(tail, end)
        BY <2>4, <4>1, <4>2
      <4>0. tail \in Seq(Labels(n)) /\ Len(tail) = n - end /\ f[w] = head \o tail /\ head \in Seq(Labels(n))
        BY <4>1, <4>3
      <4>4. f[w] \in Seq(Labels(n)) /\ Len(f[w]) = n - w[1]
        <5> HIDE DEF Right, G, rank
        <5>1. head \o tail \in Seq(Labels(n)) /\ Len(head \o tail) = Len(head) + Len(tail)
          BY <4>0, SMTT(30)
        <5> QED BY <3>1, <4>0, <4>1, <5>1, SMTT(30)
      <4>5. ASSUME NEW k \in 1..Len(f[w]) PROVE OfItsBar(f[w][k], w[1] + k - 1)
        <5>1. CASE k <= Len(head)
          <6>1. f[w][k] = head[k] /\ k \in 1..Len(head)
            BY <4>1, <4>3, <4>4, <5>1
          <6> QED BY <4>1, <6>1
        <5>2. CASE ~(k <= Len(head))
          <6>1. PICK j \in 1..Len(tail) : j = k - Len(head) /\ f[w][k] = tail[j]
            <7> HIDE DEF Right, G, rank
            <7>1. Len(head) \in Nat /\ Len(tail) \in Nat /\ Len(f[w]) = Len(head) + Len(tail)
              BY <3>1, <4>0, <4>1, <4>4, SMTT(30)
            <7>2. k - Len(head) \in 1..Len(tail)
              BY <5>2, <7>1
            <7>3. (head \o tail)[k] = tail[k - Len(head)]
              BY <4>0, <5>2, <7>1, SMTT(30)
            <7> QED BY <4>0, <7>2, <7>3
          <6>2. end + j - 1 = w[1] + k - 1
            <7> HIDE DEF Right, G, rank
            <7>1. w[1] \in Int /\ end \in Int /\ k \in Int /\ j = k - (end - w[1])
              BY <3>1, <4>1, <4>4, <6>1
            <7>2. \A a, b, c \in Int : b + (c - (b - a)) - 1 = a + c - 1
              OBVIOUS
            <7> HIDE DEF D
            <7> QED BY <7>1, <7>2
          <6> QED BY <4>3, <6>1, <6>2
        <5> QED BY <5>1, <5>2
      <4> QED BY <4>4, <4>5
    <3> QED BY <3>2, <3>3
  <2>5. G = D
    <3>1. rank \in [D -> Nat] /\ G \in SUBSET D
      OBVIOUS
    <3> HIDE DEF G, rank, D
    <3>2. PICK H, R, E : H = G /\ R = rank /\ E = D
      OBVIOUS
    <3>3. H \in SUBSET E /\ R \in [E -> Nat] /\ \A w \in E : (\A e \in E : R[e] < R[w] => e \in H) => w \in H
      BY <2>4, <3>1, <3>2
    <3>4. H = E
      BY <3>3, RankInduction
    <3> QED BY <3>2, <3>4
  <2>6. <<0, -1>> \in D /\ <<0, -1>>[2] <= <<0, -1>>[1] /\ <<0, -1>>[1] = 0
    OBVIOUS
  <2>7. Right(f[<<0, -1>>], 0)
    BY <2>5, <2>6
  <2> QED BY <2>2, <2>7
<1> QED BY <1>1, <1>2

LEMMA RegLabelled == ASSUME Reg!RegimeAssumption, Reg!RegimeInv PROVE Reg!LabelIsOfItsBar
<1>1. PICK m \in Nat : m = Len(c1) /\ DOMAIN c1 = 1..m
  BY DEF Reg!RegimeInv
<1> SUFFICES ASSUME NEW t \in 1..m PROVE OfItsBar(Reg!HmmColumn(c1, TRUE)[t], t - 2)
  BY <1>1 DEF Reg!LabelIsOfItsBar, OfItsBar, Reg!Unlabelled
<1>2. PICK n \in Nat : n = m - 1
  OBVIOUS
<1>3. PICK q \in Seq(Labels(n)) : q = Reg!CausalLabels(n) /\ Len(q) = n /\ \A k \in 1..n : OfItsBar(q[k], k - 1)
  BY RegCausal
<1>4. Reg!HmmColumn(c1, TRUE) = <<<<>>>> \o q
  <2>1. c1 # <<>>
    BY <1>1, SMTT(30)
  <2> QED BY <1>1, <1>2, <1>3, <2>1 DEF Reg!HmmColumn, Reg!OnTheFrame, Reg!Unlabelled
<1>5. CASE t = 1
  <2>1. (<<<<>>>> \o q)[1] = <<>>
    OBVIOUS
  <2> QED BY <1>4, <1>5, <2>1 DEF OfItsBar
<1>6. CASE t # 1
  <2>1. t - 1 \in 1..n /\ (<<<<>>>> \o q)[t] = q[t - 1] /\ (t - 1) - 1 = t - 2
    BY <1>2, <1>3, <1>6
  <2> QED BY <1>3, <1>4, <2>1
<1> QED BY <1>5, <1>6

LEMMA RegStarts == ASSUME Reg!RegimeInit PROVE Reg!RegimeInv
BY DEF Reg!RegimeInit, Reg!RegimeInv

LEMMA RegStands == ASSUME Reg!RegimeInv, UNCHANGED c1 PROVE Reg!RegimeInv'
BY DEF Reg!RegimeInv

LEMMA RegInductive == ASSUME Reg!RegimeInv, Reg!RegimeNext PROVE Reg!RegimeInv'
<1>1. CASE UNCHANGED c1
  BY <1>1, RegStands
<1>2. ASSUME NEW c \in RegSetup.closes, c1' = Append(c1, c) PROVE Reg!RegimeInv'
  BY <1>2, AppendEnds DEF Reg!RegimeInv
<1> QED BY <1>1, <1>2 DEF Reg!RegimeNext, Reg!Arrive, Reg!Classify, Reg!Ask, Reg!Switch

----------------------------------------------------------------------------
(* The gate on a model *)

\* Bars of the frame that are kept, in their order.
Bars == [bar : 1..GateSetup.lastBar, up : BOOLEAN]
Rising(q) == \A i, j \in DOMAIN q : i < j => q[i].bar < q[j].bar

LEMMA GateRows ==
  ASSUME Gate!CredibilityAssumption, NEW frame \in GateSetup.frames
  PROVE  Gate!Rows(frame) \in Seq(Bars) /\ Rising(Gate!Rows(frame))
<1>1. PICK n \in Nat : n = GateSetup.lastBar
  BY DEF Gate!CredibilityAssumption
<1> DEFINE Row(b) == [bar |-> b, up |-> frame[b] = "up"]
           One(b, q) == IF Gate!Kept(frame, b) THEN Append(q, Row(b)) ELSE q
           Ok(f) == f = [b \in 0..n |-> IF b = 0 THEN <<>> ELSE One(b, f[b - 1])]
<1>2. \A b \in 1..n : Row(b) \in Bars
  BY <1>1 DEF Bars
<1>3. \E f : Ok(f)
  <2> DEFINE step == [b \in 1..n |-> [q \in Seq(Bars) |-> One(b, q)]]
  <2>1. ASSUME NEW b \in 1..n, NEW q \in Seq(Bars) PROVE One(b, q) \in Seq(Bars)
    <3> HIDE DEF Row
    <3> QED BY <1>2
  <2>2. <<>> \in Seq(Bars)
    OBVIOUS
  <2>3. step \in [1..n -> [Seq(Bars) -> Seq(Bars)]] /\ \A b \in 1..n : \A q \in Seq(Bars) : step[b][q] = One(b, q)
    <3> HIDE DEF One
    <3> QED BY <2>1
  <2> HIDE DEF One, step
  <2>4. PICK f \in [0..n -> Seq(Bars)] : f[0] = <<>> /\ \A b \in 1..n : f[b] = step[b][f[b - 1]]
    <3> HIDE DEF Ok
    <3>1. \E f \in [0..n -> Seq(Bars)] : Carries(n, <<>>, step, f)
      BY <2>2, <2>3, NumberRecursion
    <3> QED BY <3>1 DEF Carries
  <2>5. ASSUME NEW b \in 0..n PROVE f[b] = IF b = 0 THEN <<>> ELSE One(b, f[b - 1])
    <3>1. CASE b = 0
      BY <2>4, <3>1
    <3>2. CASE b # 0
      <4>1. b \in 1..n /\ b - 1 \in 0..n
        BY <3>2
      <4> QED BY <2>3, <2>4, <3>2, <4>1
    <3> QED BY <3>1, <3>2
  <2> QED BY <2>5
<1>4. PICK f : f = (CHOOSE z : Ok(z)) /\ Ok(f)
  BY <1>3
<1>5. Gate!Rows(frame) = f[n]
  BY <1>1, <1>4, Zenon DEF Gate!Rows
<1>6. f[0] = <<>> /\ \A b \in 1..n : f[b] = One(b, f[b - 1])
  <2> HIDE DEF One
  <2>1. ASSUME NEW b \in 0..n PROVE f[b] = IF b = 0 THEN <<>> ELSE One(b, f[b - 1])
    BY <1>4
  <2> QED BY <2>1
<1> DEFINE Upto(b) == f[b] \in Seq(Bars) /\ Rising(f[b]) /\ \A i \in DOMAIN f[b] : f[b][i].bar <= b
           A == {b \in Nat : b <= n => Upto(b)}
<1>7. 0 \in A
  <2> HIDE DEF One
  <2>1. <<>> \in Seq(Bars) /\ DOMAIN <<>> = {} /\ f[0] = <<>>
    BY <1>6
  <2> QED BY <2>1 DEF Rising
<1>8. ASSUME NEW b \in Nat, b \in A PROVE b + 1 \in A
  <2> SUFFICES ASSUME b + 1 <= n PROVE Upto(b + 1)
    OBVIOUS
  <2>1. b + 1 \in 1..n /\ (b + 1) - 1 = b /\ Upto(b)
    BY <1>8
  <2>2. PICK q \in Seq(Bars) : q = f[b] /\ Rising(q) /\ \A i \in DOMAIN q : q[i].bar <= b
    BY <2>1
  <2>3. \A i \in DOMAIN q : q[i].bar \in Nat
    <3>1. \A i \in DOMAIN q : q[i] \in Bars
      BY ElementsOf
    <3> QED BY <1>1, <3>1 DEF Bars
  <2>4. f[b + 1] = One(b + 1, q)
    BY <1>6, <2>1, <2>2
  <2>5. CASE Gate!Kept(frame, b + 1)
    <3>1. PICK r \in Bars : r = Row(b + 1) /\ r.bar = b + 1
      BY <1>2, <2>1
    <3>2. f[b + 1] = Append(q, r)
      BY <2>4, <2>5, <3>1
    <3>3. /\ Append(q, r) \in Seq(Bars) /\ DOMAIN Append(q, r) = 1..(Len(q) + 1) /\ DOMAIN q = 1..Len(q)
          /\ Append(q, r)[Len(q) + 1] = r /\ \A i \in 1..Len(q) : Append(q, r)[i] = q[i]
      <4> HIDE DEF One, Ok, Upto, Row, A
      <4>1. Append(q, r) \in Seq(Bars) /\ DOMAIN q = 1..Len(q) /\ DOMAIN Append(q, r) = 1..Len(q) + 1
        BY ONLY AppendEnds
      <4>2. Append(q, r)[Len(q) + 1] = r /\ \A i \in DOMAIN q : Append(q, r)[i] = q[i]
        BY AppendEnds, SMTT(30)
      <4> QED BY <4>1, <4>2
    <3>4. PICK p \in Seq(Bars), m \in Nat : p = Append(q, r) /\ m = Len(q)
      <4>1. Len(q) \in Nat
        OBVIOUS
      <4> QED BY <3>3, <4>1
    <3>5. p[m + 1].bar = b + 1 /\ \A i \in 1..m : p[i] = q[i] /\ q[i].bar \in Nat /\ q[i].bar <= b
      BY <2>2, <2>3, <3>1, <3>3, <3>4
    <3>6. DOMAIN p = 1..(m + 1) /\ DOMAIN q = 1..m
      BY <3>3, <3>4
    <3>7. \A i \in DOMAIN p : p[i].bar <= b + 1
      BY <3>5, <3>6
    <3>8. Rising(p)
      <4> SUFFICES ASSUME NEW i \in 1..(m + 1), NEW j \in 1..(m + 1), i < j PROVE p[i].bar < p[j].bar
        BY <3>6 DEF Rising
      <4>1. i \in 1..m /\ p[i] = q[i] /\ q[i].bar \in Nat /\ q[i].bar <= b
        BY <3>5
      <4>2. CASE j = m + 1
        BY <3>5, <4>1, <4>2
      <4>3. CASE j # m + 1
        <5>0. j \in 1..m
          BY <4>3
        <5>1. p[j] = q[j]
          BY <3>5, <5>0
        <5> QED BY <5>0, <2>2, <3>6, <4>1, <5>1 DEF Rising
      <4> QED BY <4>2, <4>3
    <3> QED BY <3>2, <3>3, <3>4, <3>7, <3>8
  <2>6. CASE ~Gate!Kept(frame, b + 1)
    <3>1. f[b + 1] = q
      BY <2>4, <2>6
    <3>2. \A i \in DOMAIN q : q[i].bar <= b + 1
      BY <2>2, <2>3
    <3> QED BY <2>2, <3>1, <3>2
  <2> QED BY <2>5, <2>6
<1>9. n \in A
  <2> HIDE DEF A
  <2> QED BY <1>7, <1>8, NumberInduction
<1> QED BY <1>5, <1>9

\* Rows lie at least as far apart as their numbers.
LEMMA GateApart ==
  ASSUME NEW n \in Nat, NEW q \in Seq([bar : 1..n, up : BOOLEAN]), Rising(q)
  PROVE  \A i, j \in DOMAIN q : i <= j => q[i].bar \in Nat /\ q[j].bar \in Nat /\ q[j].bar - q[i].bar >= j - i
<1> DEFINE A == {d \in Nat : \A i, j \in DOMAIN q : j - i = d => q[j].bar - q[i].bar >= d}
<1>1. \A i \in DOMAIN q : q[i].bar \in Nat /\ i \in Nat
  <2>1. \A i \in DOMAIN q : q[i] \in [bar : 1..n, up : BOOLEAN]
    BY ElementsOf
  <2> QED BY <2>1
<1>2. 0 \in A
  <2>1. ASSUME NEW i \in DOMAIN q, NEW j \in DOMAIN q, j - i = 0 PROVE q[j].bar - q[i].bar >= 0
    <3>1. i = j
      BY <1>1, <2>1
    <3> QED BY <1>1, <3>1
  <2> QED BY <2>1
<1>3. ASSUME NEW d \in Nat, d \in A PROVE d + 1 \in A
  <2> SUFFICES ASSUME NEW i \in DOMAIN q, NEW j \in DOMAIN q, j - i = d + 1 PROVE q[j].bar - q[i].bar >= d + 1
    OBVIOUS
  <2>1. j - 1 \in DOMAIN q /\ (j - 1) - i = d /\ j - 1 < j
    <3>1. DOMAIN q = 1..Len(q) /\ Len(q) \in Nat
      OBVIOUS
    <3> QED BY <3>1, SMTT(30)
  <2>2. q[j - 1].bar - q[i].bar >= d
    BY <1>3, <2>1
  <2>3. q[j - 1].bar < q[j].bar
    BY <2>1 DEF Rising
  <2>4. PICK x, y, z \in Nat : x = q[i].bar /\ y = q[j - 1].bar /\ z = q[j].bar
    BY <1>1, <2>1
  <2>5. y - x >= d /\ y < z
    BY <2>2, <2>3, <2>4
  <2>6. z - x >= d + 1
    BY <2>5
  <2> QED BY <2>4, <2>6
<1>4. Nat \subseteq A
  <2> HIDE DEF A
  <2> QED BY <1>2, <1>3, NumberInduction
<1> SUFFICES ASSUME NEW i \in DOMAIN q, NEW j \in DOMAIN q, i <= j PROVE q[j].bar - q[i].bar >= j - i
  BY <1>1
<1>5. j - i \in Nat
  BY <1>1
<1> HIDE DEF A
<1>6. j - i \in A
  BY <1>4, <1>5
<1> QED BY <1>6 DEF A

LEMMA GateCardinality == \A S : Gate!Cardinality(S) = Cardinality(S)
BY DEF Gate!Cardinality, Cardinality, Gate!IsFiniteSet, IsFiniteSet

\* The search settles on a side, or on none.
LEMMA GateSearches == ASSUME NEW m, NEW s PROVE Gate!Search(m, s).side \in {-1, 0, 1}
<1> DEFINE cs == Gate!Candidates(m, s)
           n == 2 * Gate!Cardinality(Gate!Grid)
<1>2. n \in Nat
  <2>1. Cardinality(3..9) = 7
    <3>1. PICK a \in Int, b \in Int : a = 3 /\ b = 9
      OBVIOUS
    <3>2. Cardinality(a..b) = IF a > b THEN 0 ELSE b - a + 1
      BY FS_Interval
    <3> QED BY <3>1, <3>2
  <2> QED BY <2>1, GateCardinality DEF Gate!Grid
<1> DEFINE Wins(k, b) == cs[k].count >= Gate!FoldMinTrades(Gate!Cardinality(s)) /\ Gate!Better(cs[k], b)
           One(k, b) == IF Wins(k, b) THEN cs[k] ELSE b
           Ok(f) == f = [k \in 0..Len(cs) |-> IF k = 0 THEN Gate!Nothing ELSE One(k, f[k - 1])]
<1>7. Gate!Search(m, s) = (CHOOSE f : Ok(f))[Len(cs)]
  BY Zenon DEF Gate!Search
<1>1. cs = Gate!Candidates(m, s)
  OBVIOUS
<1> HIDE DEF n, cs
<1>3. Len(cs) = n /\ \A k \in 1..n : cs[k].side \in {-1, 1}
  <2>1. \E g : cs = [k \in 1..n |-> [side |-> IF k % 2 = 1 THEN 1 ELSE -1, at |-> g[k][1], total |-> g[k][2], count |-> g[k][3]]]
    <3> DEFINE Of(k) == LET t == 3 + ((k - 1) \div 2)
                            side == IF k % 2 = 1 THEN 1 ELSE -1
                            taken == IF side = 1 THEN Gate!Longs(m, s, t) ELSE Gate!Shorts(m, s, t)
                        IN  <<t, Gate!Net(taken, side), Gate!Cardinality(taken)>>
    <3>1. cs = [k \in 1..n |-> [side |-> IF k % 2 = 1 THEN 1 ELSE -1, at |-> Of(k)[1], total |-> Of(k)[2], count |-> Of(k)[3]]]
      BY <1>1 DEF Gate!Candidates, n
    <3>2. PICK g : g = [k \in 1..n |-> Of(k)]
      OBVIOUS
    <3>3. \A k \in 1..n : g[k] = Of(k)
      BY <3>2, Zenon
    <3> HIDE DEF Of
    <3> QED BY <3>1, <3>3
  <2> QED BY <1>2, <2>1
<1> DEFINE V == {Gate!Nothing} \cup {cs[k] : k \in 1..n}
<1>4. \A k \in 1..n : \A b \in V : One(k, b) \in V
  <2> HIDE DEF Wins
  <2> QED OBVIOUS
<1>5. \E f : Ok(f)
  <2> DEFINE step == [k \in 1..n |-> [b \in V |-> One(k, b)]]
  <2>1. step \in [1..n -> [V -> V]] /\ \A k \in 1..n : \A b \in V : step[k][b] = One(k, b)
    <3> HIDE DEF One, V
    <3> QED BY <1>4
  <2>2. Gate!Nothing \in V
    OBVIOUS
  <2> HIDE DEF One, V, step
  <2>3. PICK f \in [0..n -> V] : f[0] = Gate!Nothing /\ \A k \in 1..n : f[k] = step[k][f[k - 1]]
    <3> HIDE DEF Ok
    <3>1. \E f \in [0..n -> V] : Carries(n, Gate!Nothing, step, f)
      BY <1>2, <2>1, <2>2, NumberRecursion
    <3> QED BY <3>1 DEF Carries
  <2>4. ASSUME NEW k \in 0..n PROVE f[k] = IF k = 0 THEN Gate!Nothing ELSE One(k, f[k - 1])
    <3>1. CASE k = 0
      BY <2>3, <3>1
    <3>2. CASE k # 0
      <4>1. k \in 1..n /\ k - 1 \in 0..n
        BY <1>2, <3>2
      <4> QED BY <2>1, <2>3, <3>2, <4>1
    <3> QED BY <3>1, <3>2
  <2> QED BY <1>3, <2>4
<1>6. PICK f : f = (CHOOSE z : Ok(z)) /\ Ok(f)
  BY <1>5
<1>8. f[0] = Gate!Nothing /\ \A k \in 1..n : f[k] = One(k, f[k - 1])
  <2> HIDE DEF One
  <2>1. ASSUME NEW k \in 0..n PROVE f[k] = IF k = 0 THEN Gate!Nothing ELSE One(k, f[k - 1])
    BY <1>3, <1>6
  <2> QED BY <1>2, <2>1
<1> DEFINE A == {k \in Nat : k <= n => f[k] \in V}
<1>9. 0 \in A
  BY <1>8
<1>10. ASSUME NEW k \in Nat, k \in A PROVE k + 1 \in A
  <2> HIDE DEF One, V
  <2> SUFFICES ASSUME k + 1 <= n PROVE f[k + 1] \in V
    OBVIOUS
  <2>1. k + 1 \in 1..n /\ (k + 1) - 1 = k /\ f[k] \in V
    BY <1>2, <1>10
  <2> QED BY <1>4, <1>8, <2>1
<1>11. f[n] \in V
  <2> HIDE DEF A, V
  <2>1. n \in A
    BY <1>2, <1>9, <1>10, NumberInduction
  <2> QED BY <2>1 DEF A
<1>12. Gate!Search(m, s) = f[n]
  BY <1>3, <1>6, <1>7, Zenon
<1> QED BY <1>3, <1>11, <1>12 DEF Gate!Nothing

\* The blocks of the folds lie one after the other within the rows.
LEMMA GateBounds ==
  ASSUME Gate!CredibilityAssumption, NEW n \in Nat, Gate!N = n
  PROVE  /\ \A f \in 0..GateSetup.folds : Gate!Bound(f) \in 0..n
         /\ \A f, g \in 0..GateSetup.folds : f <= g => Gate!Bound(f) <= Gate!Bound(g)
<1>1. PICK d \in Nat \ {0} : d = GateSetup.folds
  BY DEF Gate!CredibilityAssumption
<1>2. \A f \in 0..d : Gate!Bound(f) = (f * n) \div d
  BY <1>1 DEF Gate!Bound
<1>3. ASSUME NEW f \in 0..d, NEW g \in 0..d, f <= g
      PROVE  f * n \in Nat /\ g * n \in Nat /\ f * n <= g * n
  <2>1. f * n \in Nat /\ g * n \in Nat
    OBVIOUS
  <2>2. CASE f < g
    <3>1. f * n + n <= g * n
      BY <2>2, Spaced
    <3> QED BY <2>1, <3>1
  <2>3. CASE f = g
    BY <2>1, <2>3
  <2> QED BY <1>3, <2>1, <2>2, <2>3
<1>4. \A f, g \in 0..d : f <= g => Gate!Bound(f) <= Gate!Bound(g)
  <2> SUFFICES ASSUME NEW f \in 0..d, NEW g \in 0..d, f <= g PROVE Gate!Bound(f) <= Gate!Bound(g)
    OBVIOUS
  <2>1. PICK a \in Nat, b \in Nat : a = f * n /\ b = g * n /\ a <= b
    BY <1>3
  <2>2. a \div d <= b \div d
    BY <2>1, DivisionGrows
  <2> QED BY <1>2, <2>1, <2>2
<1>5. \A f \in 0..d : Gate!Bound(f) \in Nat
  <2> SUFFICES ASSUME NEW f \in 0..d PROVE Gate!Bound(f) \in Nat
    OBVIOUS
  <2>1. PICK a \in Nat : a = f * n
    BY <1>3
  <2>2. a \div d \in Nat
    OBVIOUS
  <2> QED BY <1>2, <2>1, <2>2
<1>6. Gate!Bound(d) = n
  <2>0. PICK a \in Nat : a = d * n
    OBVIOUS
  <2>1. PICK q \in Nat, r \in Nat : q = a \div d /\ r = a % d
    OBVIOUS
  <2>2. a \in Nat /\ r < d /\ a = d * q + r
    BY <2>1, Divided
  <2>3. q = n
    <3>1. d * n \in Nat /\ d * q \in Nat /\ d * n = n * d /\ d * q = q * d
      OBVIOUS
    <3>2. CASE q < n
      <4>1. q * d + d <= n * d
        BY <3>2, Spaced
      <4> QED BY <2>0, <2>2, <3>1, <4>1
    <3>3. CASE n < q
      <4>1. n * d + d <= q * d
        BY <3>3, Spaced
      <4> QED BY <2>0, <2>2, <3>1, <4>1
    <3> QED BY <3>2, <3>3
  <2>4. d \in 0..d
    OBVIOUS
  <2> QED BY <1>2, <2>0, <2>1, <2>3, <2>4
<1>7. \A f \in 0..d : Gate!Bound(f) <= n
  BY <1>4, <1>6
<1> QED BY <1>1, <1>4, <1>5, <1>7

LEMMA GateTests ==
  ASSUME Gate!CredibilityAssumption, NEW n \in Nat, Gate!N = n
  PROVE  /\ \A f \in 1..GateSetup.folds : Gate!Test(f) \subseteq 0..n - 1
         /\ \A f, g \in 1..GateSetup.folds : f # g => Gate!Test(f) \cap Gate!Test(g) = {}
<1>1. PICK d \in Nat : d = GateSetup.folds
  BY DEF Gate!CredibilityAssumption
<1>2. \A f \in 0..d : Gate!Bound(f) \in 0..n
  BY <1>1, GateBounds
<1>3. \A f, g \in 0..d : f <= g => Gate!Bound(f) <= Gate!Bound(g)
  BY <1>1, GateBounds
<1>4. ASSUME NEW f \in 1..d PROVE Gate!Test(f) \subseteq 0..n - 1
  <2>1. f \in 0..d /\ f - 1 \in 0..d
    OBVIOUS
  <2>2. PICK a \in 0..n, b \in 0..n : a = Gate!Bound(f - 1) /\ b = Gate!Bound(f)
    BY <1>2, <2>1
  <2> QED BY <2>2 DEF Gate!Test
<1>5. ASSUME NEW f \in 1..d, NEW g \in 1..d, f < g PROVE Gate!Test(f) \cap Gate!Test(g) = {}
  <2>1. f \in 0..d /\ g - 1 \in 0..d /\ f <= g - 1 /\ f - 1 \in 0..d /\ g \in 0..d
    BY <1>5
  <2>2. PICK a \in 0..n, b \in 0..n, u \in 0..n, w \in 0..n :
          a = Gate!Bound(f - 1) /\ b = Gate!Bound(f) /\ u = Gate!Bound(g - 1) /\ w = Gate!Bound(g)
    BY <1>2, <2>1
  <2>3. b <= u
    BY <1>3, <2>1, <2>2
  <2> QED BY <2>2, <2>3 DEF Gate!Test
<1>6. ASSUME NEW f \in 1..d, NEW g \in 1..d, f # g PROVE Gate!Test(f) \cap Gate!Test(g) = {}
  <2>1. f < g \/ g < f
    BY <1>6
  <2> QED BY <1>5, <2>1
<1> QED BY <1>1, <1>4, <1>6

LEMMA GateMoves ==
  ASSUME Gate!CredibilityAssumption, c1 \in Seq(Bars)
  PROVE  Gate!Cost \in Int /\ \A i \in 0..Gate!N - 1 : Gate!Move(i) \in Int
<1>1. PICK fee \in Int, edge \in Int : fee = GateSetup.fee /\ edge = GateSetup.edge
  BY DEF Gate!CredibilityAssumption
<1>2. \A x \in Int : Gate!Discounted(x) \in Int
  BY DEF Gate!Discounted
<1>3. Gate!FillFee \in Int
  BY <1>1, <1>2 DEF Gate!FillFee
<1>4. Gate!GateFee \in Int
  BY <1>2, <1>3 DEF Gate!GateFee
<1>5. Gate!Cost \in Int
  BY <1>1, <1>4 DEF Gate!Cost
<1>6. ASSUME NEW i \in 0..Gate!N - 1 PROVE Gate!Move(i) \in Int
  <2>1. i + 1 \in DOMAIN c1
    BY DEF Gate!N
  <2>2. c1[i + 1] \in Bars
    BY <2>1, ElementsOf
  <2>3. PICK b \in Nat : b = Gate!Bar(i)
    BY <2>2 DEF Gate!Bar, Bars
  <2>4. 60 + 10 * (b % 2) \in Int /\ -(60 + 10 * (b % 2)) \in Int
    OBVIOUS
  <2> QED BY <2>3, <2>4 DEF Gate!Move
<1> QED BY <1>5, <1>6

\* What rows, and what folds, earn is a sum.
LEMMA GateNetAdds ==
  ASSUME NEW s, NEW side, NEW f, f = [i \in s |-> side * Gate!Move(i) - Gate!Cost]
  PROVE  Gate!Net(s, side) = SumOf(f)
<1> DEFINE Sums(h) == h = [t \in SUBSET s |-> IF t = {} THEN 0
                             ELSE (side * Gate!Move(Picked(t)) - Gate!Cost) + h[t \ {Picked(t)}]]
<1>1. \A h : Sums(h) <=> Adds(s, f, h)
  <2>1. \A t \in SUBSET s : t # {} => f[Picked(t)] = side * Gate!Move(Picked(t)) - Gate!Cost
    BY DEF Picked
  <2> QED BY <2>1, Zenon DEF Adds
<1>2. Gate!Net(s, side) = (CHOOSE h : Sums(h))[s]
  BY DEF Gate!Net, Gate!MapThenSumSet, Gate!MapThenFoldSet, Picked
<1>3. (CHOOSE h : Sums(h)) = CHOOSE h : Adds(s, f, h)
  BY <1>1
<1>4. DOMAIN f = s
  OBVIOUS
<1> QED BY <1>2, <1>3, <1>4 DEF SumOf

LEMMA GateTotalAdds == Gate!Total = SumOf([i \in Gate!Taken |-> Gate!OuterNet(i)])
<1> DEFINE s == Gate!Taken
           f == [i \in s |-> Gate!OuterNet(i)]
           Sums(h) == h = [t \in SUBSET s |-> IF t = {} THEN 0 ELSE Gate!OuterNet(Picked(t)) + h[t \ {Picked(t)}]]
<1>1. \A h : Sums(h) <=> Adds(s, f, h)
  <2>1. \A t \in SUBSET s : t # {} => f[Picked(t)] = Gate!OuterNet(Picked(t))
    BY DEF Picked
  <2> QED BY <2>1, Zenon DEF Adds
<1>2. Gate!Total = (CHOOSE h : Sums(h))[s]
  BY DEF Gate!Total, Gate!MapThenSumSet, Gate!MapThenFoldSet, Picked
<1>3. (CHOOSE h : Sums(h)) = CHOOSE h : Adds(s, f, h)
  BY <1>1
<1> QED BY <1>2, <1>3 DEF SumOf

Earned(f) == Gate!Net(c3[f].taken, c3[f].choice.side)
LEMMA GateFoldsAdd == Gate!MapThenSumSet(Earned, Gate!Used) = SumOf([f \in Gate!Used |-> Earned(f)])
<1> DEFINE s == Gate!Used
           g == [f \in s |-> Earned(f)]
           Sums(h) == h = [t \in SUBSET s |-> IF t = {} THEN 0 ELSE Earned(Picked(t)) + h[t \ {Picked(t)}]]
<1>1. \A h : Sums(h) <=> Adds(s, g, h)
  <2>1. \A t \in SUBSET s : t # {} => g[Picked(t)] = Earned(Picked(t))
    BY DEF Picked
  <2> QED BY <2>1, Zenon DEF Adds
<1>2. Gate!MapThenSumSet(Earned, s) = (CHOOSE h : Sums(h))[s]
  BY DEF Gate!MapThenSumSet, Gate!MapThenFoldSet, Picked
<1>3. (CHOOSE h : Sums(h)) = CHOOSE h : Adds(s, g, h)
  BY <1>1
<1> QED BY <1>2, <1>3 DEF SumOf

\* Fold by fold the trades earn what they earn together.
LEMMA GateEarns ==
  ASSUME Gate!CredibilityAssumption, Gate!GateInv
  PROVE  SumOf([f \in Gate!Used |-> Earned(f)]) = Gate!Total
<1> DEFINE U == Gate!Used  T == Gate!Taken  P(f) == c3[f].taken
           v == [i \in T |-> Gate!OuterNet(i)]
           g == [f \in U |-> Earned(f)]
<1>1. PICK n \in Nat : n = Gate!N
  BY DEF Gate!GateInv, Gate!N
<1>2. PICK d \in Nat, m \in Nat : m <= d /\ d = GateSetup.folds /\ m = Len(c3) /\ c3 = [f \in 1..m |-> c3[f]]
  BY DEF Gate!CredibilityAssumption, Gate!GateInv
<1>3. IsFiniteSet(U) /\ \A f \in U : f \in 1..d
  <2>1. U \subseteq 1..m
    <3>1. DOMAIN c3 = 1..m
      BY <1>2
    <3> QED BY <3>1 DEF Gate!Used
  <2>2. IsFiniteSet(1..m) /\ 1..m \subseteq 1..d
    <3>1. 1 \in Int /\ m \in Int
      OBVIOUS
    <3>2. IsFiniteSet(1..m)
      BY <3>1, FS_Interval
    <3> QED BY <1>2, <3>2
  <2> HIDE DEF U
  <2> QED BY <2>1, <2>2, FS_Subset
<1>4. \A f \in U : P(f) \subseteq Gate!Test(f) /\ P(f) \subseteq 0..n - 1 /\ c3[f].choice.side \in {-1, 0, 1}
  BY <1>1, <1>2, <1>3, GateTests DEF Gate!GateInv
<1>5. \A f, e \in U : f # e => Gate!Test(f) \cap Gate!Test(e) = {}
  BY <1>1, <1>2, <1>3, GateTests
<1>6. T = UNION {P(f) : f \in U}
  BY DEF Gate!Taken
<1>7. T \subseteq 0..n - 1 /\ IsFiniteSet(T)
  <2>1. T \subseteq 0..n - 1
    <3> HIDE DEF T, U, P
    <3> QED BY <1>4, <1>6
  <2>2. IsFiniteSet(0..n - 1)
    <3>1. 0 \in Int /\ n - 1 \in Int
      OBVIOUS
    <3> QED BY <3>1, FS_Interval
  <2> HIDE DEF T
  <2> QED BY <2>1, <2>2, FS_Subset
<1>8. Gate!Cost \in Int /\ \A i \in 0..n - 1 : Gate!Move(i) \in Int
  BY <1>1, GateMoves DEF Gate!GateInv, Bars
<1>9. ASSUME NEW f \in U, NEW i \in P(f)
      PROVE  Gate!OuterNet(i) = c3[f].choice.side * Gate!Move(i) - Gate!Cost /\ Gate!OuterNet(i) \in Int
  <2>1. i \in Gate!Test(f) /\ i \in 0..n - 1
    BY <1>4
  <2>2. \A e \in U : i \in Gate!Test(e) => e = f
    BY <1>5, <2>1
  <2>3. Gate!FoldOf(i) = f
    BY <2>1, <2>2 DEF Gate!FoldOf
  <2>4. Gate!OuterNet(i) = c3[f].choice.side * Gate!Move(i) - Gate!Cost
    BY <2>3 DEF Gate!OuterNet
  <2>5. PICK side \in {-1, 0, 1}, move \in Int, cost \in Int :
          side = c3[f].choice.side /\ move = Gate!Move(i) /\ cost = Gate!Cost
    BY <1>4, <1>8, <2>1
  <2>6. side * move - cost \in Int
    OBVIOUS
  <2> QED BY <2>4, <2>5, <2>6
<1>10. v \in [T -> Int]
  <2>1. \A i \in T : Gate!OuterNet(i) \in Int
    <3> HIDE DEF U, P, T
    <3> QED BY <1>6, <1>9
  <2> QED BY <2>1
<1>11. PICK h : Adds(T, v, h)
  <2> HIDE DEF T, v
  <2> QED BY <1>7, <1>10, SumExists
<1>12. SumOf(v) = h[T] /\ \A s \in SUBSET T : h[s] \in Int
  <2> HIDE DEF T, v
  <2> QED BY <1>7, <1>10, <1>11, SumOfAll, SumTakes
<1>13. ASSUME NEW f \in U PROVE P(f) \in SUBSET T /\ g[f] = h[P(f)] /\ g[f] \in Int
  <2>1. PICK s : s = P(f)
    OBVIOUS
  <2>2. s \in SUBSET T /\ IsFiniteSet(s)
    <3>1. P(f) \subseteq T
      BY <1>6
    <3> HIDE DEF T, P, U
    <3> QED BY <1>7, <2>1, <3>1, FS_Subset
  <2>3. PICK w : w = [i \in s |-> c3[f].choice.side * Gate!Move(i) - Gate!Cost]
    OBVIOUS
  <2>4. \A i \in s : w[i] = v[i]
    <3> SUFFICES ASSUME NEW i \in s PROVE w[i] = v[i]
      OBVIOUS
    <3>1. i \in T /\ v[i] = Gate!OuterNet(i)
      BY <2>2
    <3>2. Gate!OuterNet(i) = c3[f].choice.side * Gate!Move(i) - Gate!Cost
      BY <1>9, <2>1
    <3>3. w[i] = c3[f].choice.side * Gate!Move(i) - Gate!Cost
      BY <2>3, Zenon
    <3> QED BY <3>1, <3>2, <3>3
  <2>5. w \in [s -> Int]
    <3>1. \A i \in s : w[i] \in Int
      <4> HIDE DEF T, v
      <4> QED BY <1>10, <2>2, <2>4
    <3>2. DOMAIN w = s /\ w = [i \in DOMAIN w |-> w[i]]
      BY <2>3
    <3> QED BY <3>1, <3>2
  <2> HIDE DEF T, v
  <2>6. PICK k : Adds(s, w, k)
    BY <2>2, <2>5, SumExists
  <2>7. SumOf(w) = k[s]
    BY <2>2, <2>5, <2>6, SumOfAll
  <2>8. h[s] = k[s]
    <3>1. PICK S, F : S = T /\ F = v
      OBVIOUS
    <3>2. IsFiniteSet(S) /\ F \in [S -> Int] /\ Adds(S, F, h) /\ s \in SUBSET S /\ s \subseteq s
      BY <1>7, <1>10, <1>11, <2>2, <3>1
    <3>3. \A i \in s : F[i] = w[i]
      BY <2>4, <3>1
    <3> QED BY <2>2, <2>5, <2>6, <3>2, <3>3, SumAgrees
  <2>9. g[f] = SumOf(w)
    <3>1. Gate!Net(s, c3[f].choice.side) = SumOf(w)
      BY <2>3, GateNetAdds
    <3> QED BY <2>1, <3>1 DEF Earned
  <2> HIDE DEF P, g, U
  <2> QED BY <1>12, <2>1, <2>2, <2>7, <2>8, <2>9
<1>14. \A f, e \in U : f # e => P(f) \cap P(e) = {}
  BY <1>4, <1>5
<1>15. PICK p, s, e, r : p = [f \in U |-> P(f)] /\ s = T /\ e = U /\ r = g
  OBVIOUS
<1>16. /\ p \in [e -> SUBSET s] /\ r \in [e -> Int] /\ IsFiniteSet(e) /\ IsFiniteSet(s)
       /\ \A a, b \in e : a # b => p[a] \cap p[b] = {}
       /\ \A a \in e : r[a] = h[p[a]]
       /\ s = UNION {p[a] : a \in e}
  <2>1. \A a \in U : p[a] = P(a)
    BY <1>15, Zenon
  <2>2. p \in [e -> SUBSET s]
    <3> HIDE DEF P, T, U, g
    <3> QED BY <1>13, <1>15
  <2>3. r \in [e -> Int]
    <3>1. DOMAIN g = U /\ g = [a \in U |-> g[a]]
      OBVIOUS
    <3> HIDE DEF P, T, U, g
    <3> QED BY <1>13, <1>15, <3>1
  <2> HIDE DEF P, T, U, g
  <2> QED BY <1>3, <1>6, <1>7, <1>13, <1>14, <1>15, <2>1, <2>2, <2>3
<1> HIDE DEF U, T, P, v, g
<1>17. PICK k : Adds(e, r, k)
  BY <1>16, SumExists
<1>18. PICK u : u = v /\ u \in [s -> Int] /\ Adds(s, u, h)
  BY <1>10, <1>11, <1>15
<1>19. k[e] = h[UNION {p[a] : a \in e}]
  BY <1>16, <1>17, <1>18, SumUnites
<1>20. SumOf(r) = k[e]
  BY <1>16, <1>17, SumOfAll
<1>21. Gate!Total = SumOf(v)
  BY GateTotalAdds DEF v, T
<1> QED BY <1>12, <1>15, <1>16, <1>19, <1>20, <1>21 DEF g, U

LEMMA GateMin == \A a, b \in Int : Gate!Min({a, b}) = IF a <= b THEN a ELSE b
<1> SUFFICES ASSUME NEW a \in Int, NEW b \in Int PROVE Gate!Min({a, b}) = IF a <= b THEN a ELSE b
  OBVIOUS
<1>1. PICK m \in {a, b} : m = IF a <= b THEN a ELSE b
  OBVIOUS
<1>2. \A x \in {a, b} : (\A y \in {a, b} : x <= y) <=> x = m
  BY <1>1
<1> QED BY <1>1, <1>2 DEF Gate!Min

LEMMA GateSound ==
  ASSUME Gate!CredibilityAssumption, Gate!GateInv, GateSetup.embargo >= GateSetup.span
  PROVE  Gate!AllowedIsOutOfSample
<1> SUFFICES ASSUME c4 = "allowed"
             PROVE  /\ \A f \in Gate!Used : \A i \in Gate!Train(f), j \in c3[f].taken : Gate!Window(i) \cap Gate!Window(j) = {}
                    /\ Gate!MapThenSumSet(Earned, Gate!Used) > 0
  BY DEF Gate!AllowedIsOutOfSample, Earned
<1>1. Gate!MapThenSumSet(Earned, Gate!Used) > 0
  BY GateEarns, GateFoldsAdd DEF Gate!GateInv
<1>2. ASSUME NEW f \in Gate!Used, NEW i \in Gate!Train(f), NEW j \in c3[f].taken
      PROVE  Gate!Window(i) \cap Gate!Window(j) = {}
  <2>1. PICK n \in Nat : n = Gate!N /\ n = Len(c1) /\ DOMAIN c1 = 1..n
    BY DEF Gate!GateInv, Gate!N
  <2>2. PICK d \in Nat, span \in Nat, last \in Nat, embargo \in Nat :
          /\ d = GateSetup.folds /\ span = GateSetup.span /\ last = GateSetup.lastBar
          /\ embargo = GateSetup.embargo /\ embargo >= span
    BY DEF Gate!CredibilityAssumption
  <2>3. f \in 0..d /\ f - 1 \in 0..d /\ f \in 1..d
    BY <2>2 DEF Gate!Used, Gate!GateInv
  <2>4. PICK a \in 0..n, b \in 0..n : a = Gate!Bound(f - 1) /\ b = Gate!Bound(f)
    BY <2>1, <2>2, <2>3, GateBounds
  <2>5. j \in Gate!Test(f) /\ j \in 0..n - 1
    BY <2>1, <2>2, <2>3, GateTests DEF Gate!GateInv
  <2>6. j \in a..b - 1
    BY <2>4, <2>5 DEF Gate!Test
  <2>7. i \in 0..n - 1 /\ ~(i < a /\ Gate!Ends(i) >= a) /\ i \notin a..b - 1 /\ ~(i >= b /\ i < b + embargo)
    <3>1. i \in 0..Gate!N - 1 /\ i \notin Gate!Test(f)
      BY DEF Gate!Train
    <3>2. ~(i < Gate!Bound(f - 1) /\ Gate!Ends(i) >= Gate!Bound(f - 1))
      BY DEF Gate!Train
    <3>3. ~(i >= Gate!Bound(f) /\ i < Gate!Bound(f) + GateSetup.embargo)
      BY DEF Gate!Train
    <3> QED BY <2>1, <2>2, <2>4, <3>1, <3>2, <3>3 DEF Gate!Test
  <2>8. Gate!Ends(i) = IF i + span <= n - 1 THEN i + span ELSE n - 1
    <3>1. i + span \in Int /\ n - 1 \in Int
      BY <2>7
    <3>2. Gate!Ends(i) = Gate!Min({i + span, n - 1})
      BY <2>1, <2>2, Zenon DEF Gate!Ends
    <3> QED BY <3>1, <3>2, GateMin, Zenon
  <2>9. (j - i > span) \/ (i - j > span)
    BY <2>2, <2>6, <2>7, <2>8
  <2>10. \A x, y \in 1..n : x <= y => c1[x].bar \in Nat /\ c1[y].bar \in Nat /\ c1[y].bar - c1[x].bar >= y - x
    <3>1. c1 \in Seq([bar : 1..last, up : BOOLEAN]) /\ Rising(c1)
      BY <2>2 DEF Gate!GateInv, Rising
    <3> QED BY <2>1, <2>2, <3>1, GateApart
  <2>11. PICK p \in Nat, q \in Nat : p = Gate!Bar(i) /\ q = Gate!Bar(j)
    BY <2>5, <2>7, <2>10 DEF Gate!Bar
  <2>12. q - p > span \/ p - q > span
    <3>1. CASE j - i > span
      <4>1. i + 1 \in 1..n /\ j + 1 \in 1..n /\ i + 1 <= j + 1
        BY <2>2, <2>5, <2>7, <3>1
      <4>2. q - p >= (j + 1) - (i + 1)
        BY <2>10, <2>11, <4>1 DEF Gate!Bar
      <4> QED BY <2>5, <2>7, <3>1, <4>2
    <3>2. CASE i - j > span
      <4>1. i + 1 \in 1..n /\ j + 1 \in 1..n /\ j + 1 <= i + 1
        BY <2>2, <2>5, <2>7, <3>2
      <4>2. p - q >= (i + 1) - (j + 1)
        BY <2>10, <2>11, <4>1 DEF Gate!Bar
      <4> QED BY <2>5, <2>7, <3>2, <4>2
    <3> QED BY <2>9, <3>1, <3>2
  <2> QED BY <2>2, <2>11, <2>12 DEF Gate!Window
<1> QED BY <1>1, <1>2

LEMMA GateStarts == ASSUME Gate!CredibilityAssumption, Gate!GateInit PROVE Gate!GateInv
<1>1. PICK frame \in GateSetup.frames : c1 = Gate!Rows(frame)
  BY DEF Gate!GateInit
<1>2. c1 \in Seq(Bars) /\ Rising(c1)
  BY <1>1, GateRows
<1>3. c3 = <<>> /\ c4 = "open" /\ GateSetup.folds \in Nat
  BY DEF Gate!GateInit, Gate!CredibilityAssumption
<1>4. Gate!Used = {} /\ Len(c3) = 0 /\ c3 = [f \in 1..Len(c3) |-> c3[f]]
  BY <1>3 DEF Gate!Used
<1> QED BY <1>2, <1>3, <1>4 DEF Gate!GateInv, Bars, Rising

\* The verdict depends on the cells it was passed on.
LEMMA GateSame ==
  ASSUME UNCHANGED <<c1, c2, c3>>
  PROVE  Gate!Total' = Gate!Total /\ Gate!Used' = Gate!Used /\ \A f : Gate!Test(f)' = Gate!Test(f)
<1>1. \A f : Gate!Test(f)' = Gate!Test(f)
  BY DEF Gate!Test, Gate!Bound, Gate!N
<1>2. Gate!Used' = Gate!Used
  BY DEF Gate!Used
<1>3. \A i : Gate!OuterNet(i)' = Gate!OuterNet(i)
  BY <1>1, <1>2 DEF Gate!OuterNet, Gate!FoldOf,
     Gate!Move, Gate!Up, Gate!Bar, Gate!Cost, Gate!GateFee, Gate!GateDiscount, Gate!FillFee
<1>4. Gate!Taken' = Gate!Taken
  BY <1>2 DEF Gate!Taken
<1> DEFINE Sums(h) == h = [t \in SUBSET Gate!Taken |-> IF t = {} THEN 0
                             ELSE Gate!OuterNet(CHOOSE x \in t : TRUE) + h[t \ {CHOOSE x \in t : TRUE}]]
<1>5. \A h : Sums(h)' <=> Sums(h)
  BY <1>3, <1>4, Zenon
<1>6. Gate!Total = (CHOOSE h : Sums(h))[Gate!Taken] /\ Gate!Total' = (CHOOSE h : Sums(h)')[Gate!Taken']
  BY DEF Gate!Total, Gate!MapThenSumSet, Gate!MapThenFoldSet
<1>7. (CHOOSE h : Sums(h)') = CHOOSE h : Sums(h)
  <2> HIDE DEF Sums
  <2> QED BY <1>5
<1>8. Gate!Total' = Gate!Total
  BY <1>4, <1>6, <1>7, Zenon
<1> QED BY <1>1, <1>2, <1>8

LEMMA GateStands == ASSUME Gate!GateInv, UNCHANGED <<c1, c2, c3, c4>> PROVE Gate!GateInv'
<1>1. Gate!Total' = Gate!Total /\ Gate!Used' = Gate!Used /\ \A f : Gate!Test(f)' = Gate!Test(f)
  BY GateSame
<1> QED BY <1>1 DEF Gate!GateInv

LEMMA GateInductive ==
  ASSUME Gate!CredibilityAssumption, Gate!GateInv, Gate!GateNext PROVE Gate!GateInv'
<1>1. CASE Gate!Decide
  <2>1. UNCHANGED <<c1, c2, c3>> /\ (c4' = "allowed" => Gate!Total > 0)
    BY <1>1 DEF Gate!Decide
  <2>2. Gate!Total' = Gate!Total /\ Gate!Used' = Gate!Used /\ \A f : Gate!Test(f)' = Gate!Test(f)
    BY <2>1, GateSame
  <2> QED BY <2>1, <2>2 DEF Gate!GateInv
<1>2. CASE Gate!Fold
  <2>1. c1' = c1 /\ c4' = "open" /\ Len(c3) < GateSetup.folds
    BY <1>2 DEF Gate!Fold
  <2>2. PICK m \in Nat : m = Len(c3) /\ c3 = [f \in 1..m |-> c3[f]]
    BY DEF Gate!GateInv
  <2>3. PICK r : /\ c3' = Append(c3, r)
                 /\ r.used => r.taken \subseteq Gate!Test(m + 1) /\ r.choice.side \in {-1, 0, 1}
    <3>1. CASE c3' = Append(c3, [used |-> FALSE])
      <4>1. [used |-> FALSE].used = FALSE
        OBVIOUS
      <4> QED BY <3>1, <4>1
    <3>2. ASSUME NEW raw, NEW m0, NEW c, c = Gate!Search(m0, Gate!Stream(m + 1)),
                 c3' = Append(c3, [used |-> TRUE, raw |-> raw, fitted |-> m0, choice |-> c,
                                   taken |-> Gate!Decides(m0, Gate!Test(m + 1), c)])
          PROVE  \E r : /\ c3' = Append(c3, r)
                        /\ r.used => r.taken \subseteq Gate!Test(m + 1) /\ r.choice.side \in {-1, 0, 1}
      <4>1. c.side \in {-1, 0, 1}
        BY <3>2, GateSearches
      <4>2. Gate!Decides(m0, Gate!Test(m + 1), c) \subseteq Gate!Test(m + 1)
        BY <4>1 DEF Gate!Decides
      <4>3. PICK t : t = Gate!Decides(m0, Gate!Test(m + 1), c)
        OBVIOUS
      <4>4. PICK r : r = [used |-> TRUE, raw |-> raw, fitted |-> m0, choice |-> c, taken |-> t]
        OBVIOUS
      <4>5. r.taken = t /\ r.choice = c
        BY <4>4
      <4> QED BY <3>2, <4>1, <4>2, <4>3, <4>4, <4>5
    <3>3. \/ c3' = Append(c3, [used |-> FALSE])
          \/ \E raw, m0, c : /\ c = Gate!Search(m0, Gate!Stream(m + 1))
                             /\ c3' = Append(c3, [used |-> TRUE, raw |-> raw, fitted |-> m0, choice |-> c,
                                                  taken |-> Gate!Decides(m0, Gate!Test(m + 1), c)])
      BY <1>2, <2>2, Zenon DEF Gate!Fold
    <3> QED BY <3>1, <3>2, <3>3
  <2>4. \A f : Gate!Test(f)' = Gate!Test(f)
    BY <2>1 DEF Gate!Test, Gate!Bound, Gate!N
  <2>5. /\ Len(c3') = m + 1 /\ c3' = [f \in 1..(m + 1) |-> c3'[f]] /\ c3'[m + 1] = r
        /\ \A f \in 1..m : c3'[f] = c3[f]
    <3>1. Append(c3, r) = [f \in 1..(m + 1) |-> IF f = m + 1 THEN r ELSE c3[f]]
      BY <2>2
    <3> QED BY <2>3, <3>1
  <2>6. ASSUME NEW f \in Gate!Used'
        PROVE  c3'[f].taken \subseteq Gate!Test(f) /\ c3'[f].choice.side \in {-1, 0, 1}
    <3>1. f \in 1..(m + 1) /\ c3'[f].used
      BY <2>5, <2>6 DEF Gate!Used
    <3>2. CASE f = m + 1
      BY <2>3, <2>5, <3>1, <3>2
    <3>3. CASE f # m + 1
      <4>1. f \in 1..m /\ c3'[f] = c3[f]
        BY <2>5, <3>1, <3>3
      <4>2. f \in Gate!Used
        BY <2>2, <3>1, <4>1 DEF Gate!Used
      <4> QED BY <4>1, <4>2 DEF Gate!GateInv
    <3> QED BY <3>2, <3>3
  <2>7. Len(c3') \in 0..GateSetup.folds
    BY <2>1, <2>2, <2>5 DEF Gate!CredibilityAssumption
  <2> QED BY <2>1, <2>4, <2>5, <2>6, <2>7 DEF Gate!GateInv
<1> QED BY <1>1, <1>2 DEF Gate!GateNext
==============================================================================
