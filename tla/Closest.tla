-------------------------------- MODULE Closest --------------------------------
(***************************************************************************)
(* Closest and ClosestIn (closest.go), called by any number of goroutines, *)
(* each on an engine of its own or on one they share.  Each search         *)
(* enumerates subsets of dimensions by size,                               *)
(* and for each subset the declared values in place of the input's, in a   *)
(* scratch slice taken from a pool all goroutines share.  Every write to a *)
(* scratch slice, every Check of it and every pool operation is a step.    *)
(*                                                                         *)
(* Dimensions are numbered from 1 here and from 0 in the code.  Check is   *)
(* the decision of the first matching rule (see RuleTrie).                 *)
(***************************************************************************)
EXTENDS ClosestModel

CONSTANTS
  Proc,         \* the calling goroutines
  Slices,       \* the scratch slices that can exist
  maxDims,      \* the largest arity that uses the pool
  Configs,      \* the configurations New is called with
  Tiebreaks,    \* the strategies given to WithTiebreak
  Inputs,       \* the tuples the goroutines ask about
  DimNames,     \* the names of an engine's dimensions, from its first
  Selectors,    \* the dimension selectors given to ClosestIn
  NoSlice       \* a goroutine holds no scratch slice

ASSUME ClosestAssumption ==
  /\ Configs \subseteq Config
  /\ Tiebreaks \subseteq {"LeftmostDim", "RightmostDim", "DeclOrder"}
  /\ Inputs \subseteq Seq(Value)
  /\ DimNames \in Seq(STRING)
  /\ \A c \in Configs : Len(c.dims) <= Len(DimNames)
  /\ \A sel \in Selectors : sel.type \in SignedType \cup UnsignedType \cup {"string", "other"}
  /\ maxDims \in Nat
  /\ NoSlice \notin Slices

VARIABLES
  engine,      \* goroutine -> the engine it asks
  tiebreak,    \* its strategy
  pool,        \* curPool: the slices put back and not taken since
  mem,         \* slice -> its contents, of which a search uses the first D(p)
  g            \* goroutine -> its call in progress

vars == <<engine, tiebreak, pool, mem, g>>

D(p) == Len(engine[p].dims)

Nil == [conditions |-> <<>>, distance |-> 0, dim |-> 0]

NoSelector == [type |-> "other", val |-> 0]

Idle == [pc |-> "idle", op |-> "none", values |-> <<>>, sel |-> NoSelector, subset |-> <<>>,
         at |-> <<>>, slice |-> NoSlice, err |-> "nil", result |-> Nil]

\* A slice nobody refers to: the allocator may hand it out.
Unused == Slices \ (pool \cup {g[p].slice : p \in Proc})

-----------------------------------------------------------------------------
(***************************************************************************)
(* The order of the subsets of one size, as ascending sequences: lexico-   *)
(* graphic, or for RightmostDim by descending last, next to last, ...      *)
(***************************************************************************)
\* Mutant of FirstSubset: from the right only the last dimension is, the others are
\* taken from the left.
FirstSubsetInnerLeft(k, n) ==
  IF tiebreak = "RightmostDim" THEN [i \in 1 .. k |-> IF i = k THEN n ELSE i] ELSE [i \in 1 .. k |-> i]

FirstSubset(k, n) ==
  IF tiebreak = "RightmostDim" THEN [i \in 1 .. k |-> n - k + i] ELSE [i \in 1 .. k |-> i]

\* Mutant of Growable: the last dimension is never reached.
GrowableShort(s, n) == {i \in 1 .. Len(s) : s[i] + 1 < n - Len(s) + i}

\* nextCombo: the last position that can still grow does, and resets those behind.
Growable(s, n) == {i \in 1 .. Len(s) : s[i] /= n - Len(s) + i}

\* Mutant of nextCombo: the positions behind are reset to the same dimension.
nextComboFlat(s, n) ==
  LET i == Max(Growable(s, n))
  IN  [j \in 1 .. Len(s) |-> IF j < i THEN s[j] ELSE s[i] + 1]

nextCombo(s, n) ==
  LET i == Max(Growable(s, n))
  IN  [j \in 1 .. Len(s) |-> IF j < i THEN s[j] ELSE s[i] + 1 + (j - i)]

\* trySubsetsRightmost: the first position that can still shrink does.
Shrinkable(s) == {i \in 1 .. Len(s) : s[i] > i}

nextRightmost(s) ==
  LET i == Min(Shrinkable(s))
  IN  [j \in 1 .. Len(s) |-> IF j > i THEN s[j] ELSE s[i] - 1 - (i - j)]

LastOfSize(s, n) ==
  IF tiebreak = "RightmostDim" THEN Shrinkable(s) = {} ELSE Growable(s, n) = {}

\* Mutant of NextSubset: the size does not grow.
NextSubsetSameSize(s, n) ==
  IF LastOfSize(s, n) THEN FirstSubset(Len(s), n)
  ELSE IF tiebreak = "RightmostDim" THEN nextRightmost(s) ELSE nextCombo(s, n)

NextSubset(s, n) ==
  IF LastOfSize(s, n) THEN FirstSubset(Len(s) + 1, n)
  ELSE IF tiebreak = "RightmostDim" THEN nextRightmost(s) ELSE nextCombo(s, n)

\* Mutant of pickPrimaryDim: the strategy is not consulted.
pickLeftmostDim(diffs) == Min(diffs)

pickPrimaryDim(diffs) == IF tiebreak = "RightmostDim" THEN Max(diffs) ELSE Min(diffs)

buildClosestResult(input, candidate, subset) ==
  LET diffs == {i \in Range(subset) : candidate[i] /= input[i]}
  IN  IF diffs = {} THEN Nil
      ELSE [conditions |-> candidate, distance |-> Cardinality(diffs),
            dim |-> pickPrimaryDim(diffs)]

-----------------------------------------------------------------------------
Init ==
  /\ engine \in [Proc -> {c \in Configs : validateEngine(c) = "nil"}]
  /\ tiebreak \in Tiebreaks
  /\ pool = {}
  /\ mem = [s \in Slices |-> <<>>]
  /\ g = [p \in Proc |-> Idle]

Answered(op, q, err) == [Idle EXCEPT !.pc = "answered", !.op = op, !.values = q, !.err = err]

\* Closest starts with the subsets of size 1; without dimensions there are none.
Closest(p, q) ==
  /\ g[p].pc = "idle"
  /\ g' = [g EXCEPT ![p] =
             IF Len(q) /= D(p) THEN Answered("Closest", q, "ErrArityMismatch")
             ELSE IF D(p) = 0 THEN Answered("Closest", q, "nil")
             ELSE [Idle EXCEPT !.pc = "get", !.op = "Closest", !.values = q,
                               !.subset = FirstSubset(1, D(p))]]
  /\ UNCHANGED <<engine, tiebreak, pool, mem>>

\* ClosestIn walks the values of the one dimension its selector stands for.
ClosestIn(p, sel, q) ==
  /\ g[p].pc = "idle"
  /\ LET i == resolveDim(sel, SubSeq(DimNames, 1, D(p)))
         call == [Idle EXCEPT !.op = "ClosestIn", !.values = q, !.sel = sel]
         refused(err) == [call EXCEPT !.pc = "answered", !.err = err]
     IN  g' = [g EXCEPT ![p] =
                 IF Len(q) /= D(p) THEN refused("ErrArityMismatch")
                 ELSE IF i = noMatch THEN refused("ErrInvalidDimension")
                 ELSE [call EXCEPT !.pc = "get", !.subset = <<i + 1>>]]
  /\ UNCHANGED <<engine, tiebreak, pool, mem>>

\* Mutant of Obtainable: a slice is taken whoever holds it.
ObtainableHeld(p) == Slices

\* The slices a search can get: a new one or a pooled one.  sync.Pool may
\* overlook what it holds; arities over maxDims allocate and never use it.
Obtainable(p) == Unused \cup (IF D(p) <= maxDims THEN pool ELSE {})

\* Mutant of Loaded: a pooled slice is used as it comes.
LoadedOnce(s, q) == IF s \in pool /\ Len(mem[s]) >= Len(q) THEN mem ELSE [mem EXCEPT ![s] = q]

Loaded(s, q) == [mem EXCEPT ![s] = q \o SubSeq(@, Len(q) + 1, Len(@))]

\* The slice is overwritten with the input before anything else; what an engine of
\* more dimensions left behind it stays.
GetScratch(p) ==
  /\ g[p].pc = "get"
  /\ \E s \in Obtainable(p) :
       /\ pool' = pool \ {s}
       /\ mem' = Loaded(s, g[p].values)
       /\ g' = [g EXCEPT ![p].slice = s, ![p].at = <<1>>, ![p].pc = "dfs"]
  /\ UNCHANGED <<engine, tiebreak>>

\* The innermost open loop of searchSubsetDFS: its dimension, the value it is at.
LoopDim(p) == g[p].subset[Len(g[p].at)]
LoopAt(p) == g[p].at[Len(g[p].at)]
NextValue(at) == [at EXCEPT ![Len(at)] = @ + 1]

\* Mutant of Restored: the slot keeps the value that was tried.
Unrestored(p, i) == mem

Restored(p, i) == [mem EXCEPT ![g[p].slice][i] = g[p].values[i]]

\* The loop has another value: the input's own is passed over, any other goes
\* into the scratch slice, and the next loop opens or the candidate is complete.
TryValue(p) ==
  /\ g[p].pc = "dfs"
  /\ LoopAt(p) <= Len(engine[p].dims[LoopDim(p)])
  /\ LET v == engine[p].dims[LoopDim(p)][LoopAt(p)]
     IN  IF v = g[p].values[LoopDim(p)]
         THEN g' = [g EXCEPT ![p].at = NextValue(@)] /\ UNCHANGED mem
         ELSE /\ mem' = [mem EXCEPT ![g[p].slice][LoopDim(p)] = v]
              /\ g' = IF Len(g[p].at) < Len(g[p].subset)
                      THEN [g EXCEPT ![p].at = Append(@, 1)]
                      ELSE [g EXCEPT ![p].pc = "check"]
  /\ UNCHANGED <<engine, tiebreak, pool>>

\* The loop is exhausted: the one around it restores its slot and goes on, and
\* without one the subset has no allowed candidate.
EndLoop(p) ==
  /\ g[p].pc = "dfs"
  /\ LoopAt(p) > Len(engine[p].dims[LoopDim(p)])
  /\ LET n == Len(g[p].at)
     IN  IF n = 1
         THEN g' = [g EXCEPT ![p].pc = "put"] /\ UNCHANGED mem
         ELSE /\ mem' = Restored(p, g[p].subset[n - 1])
              /\ g' = [g EXCEPT ![p].at = NextValue(SubSeq(@, 1, n - 1))]
  /\ UNCHANGED <<engine, tiebreak, pool>>

\* Check of the candidate: an allowed one is copied into the result, any other
\* is taken back and the loop goes on.
CheckCandidate(p) ==
  /\ g[p].pc = "check"
  /\ LET candidate == SubSeq(mem[g[p].slice], 1, D(p))
     IN  IF Allowed(engine[p], candidate)
         THEN /\ g' = [g EXCEPT ![p].result =
                                  buildClosestResult(g[p].values, candidate, g[p].subset),
                                ![p].pc = "put"]
              /\ UNCHANGED mem
         ELSE /\ mem' = Restored(p, LoopDim(p))
              /\ g' = [g EXCEPT ![p].at = NextValue(@), ![p].pc = "dfs"]
  /\ UNCHANGED <<engine, tiebreak, pool>>

\* The slice goes back to the pool; then the search ends with its result, ends
\* after the last subset (ClosestIn has one), or goes on with the next subset.
PutScratch(p) ==
  /\ g[p].pc = "put"
  /\ pool' = IF D(p) <= maxDims THEN pool \cup {g[p].slice} ELSE pool
  /\ LET s == g[p].subset
         over == \/ g[p].result /= Nil
                 \/ g[p].op = "ClosestIn"
                 \/ Len(s) = D(p) /\ LastOfSize(s, D(p))
         rest == [g[p] EXCEPT !.slice = NoSlice, !.at = <<>>]
     IN  g' = [g EXCEPT ![p] =
                 IF over THEN [rest EXCEPT !.pc = "answered"]
                 ELSE [rest EXCEPT !.pc = "get", !.subset = NextSubset(s, D(p))]]
  /\ UNCHANGED <<engine, tiebreak, mem>>

\* The caller takes the result.
Return(p) ==
  /\ g[p].pc = "answered"
  /\ g' = [g EXCEPT ![p] = Idle]
  /\ UNCHANGED <<engine, tiebreak, pool, mem>>

\* The garbage collector empties the pool behind the program's back.
DropPooled ==
  /\ pool /= {}
  /\ \E s \in pool : pool' = pool \ {s}
  /\ UNCHANGED <<engine, tiebreak, mem, g>>

SearchStep(p) ==
  GetScratch(p) \/ TryValue(p) \/ EndLoop(p) \/ CheckCandidate(p) \/ PutScratch(p)

Next ==
  \/ \E p \in Proc, q \in Inputs :
       Closest(p, q) \/ \E sel \in Selectors : ClosestIn(p, sel, q)
  \/ \E p \in Proc : SearchStep(p) \/ Return(p)
  \/ DropPooled

\* A goroutine in a call is scheduled again and again until the call returns.
Spec == Init /\ [][Next]_vars /\ \A p \in Proc : WF_vars(SearchStep(p))

-----------------------------------------------------------------------------
(***************************************************************************)
(* Types of the state; the scratch slice and the loops exist between       *)
(* GetScratch and PutScratch only.                                         *)
(***************************************************************************)
TypeOK ==
  /\ engine \in [Proc -> Config]
  /\ pool \subseteq Slices
  /\ \A s \in Slices : mem[s] \in Seq(Value)
  /\ \A p \in Proc :
       LET c == g[p]
       IN  /\ c.pc \in {"idle", "get", "dfs", "check", "put", "answered"}
           /\ c.slice \in IF c.pc \in {"dfs", "check", "put"} THEN Slices ELSE {NoSlice}
           /\ c.subset \in Seq(1 .. D(p))
           /\ \A i, j \in 1 .. Len(c.subset) : i < j => c.subset[i] < c.subset[j]
           /\ c.pc \in {"dfs", "check"} => Len(c.at) \in 1 .. Len(c.subset)
           /\ c.pc = "check" => Len(c.at) = Len(c.subset)

(***************************************************************************)
(* A scratch slice in use belongs to one search: no other goroutine holds  *)
(* it and the pool does not offer it.                                      *)
(***************************************************************************)
ScratchIsPrivate ==
  \A p \in Proc : g[p].slice /= NoSlice =>
    /\ g[p].slice \notin pool
    /\ \A q \in Proc \ {p} : g[q].slice /= g[p].slice

(***************************************************************************)
(* While a search enumerates, its scratch slice holds the input with the   *)
(* values of the loops that are on one, and nothing left over: neither     *)
(* from a branch it has abandoned, nor from the slice's last user.         *)
(***************************************************************************)
ScratchHoldsCandidate ==
  \A p \in Proc : g[p].pc \in {"dfs", "check"} =>
    LET c == g[p]
        chosen == IF c.pc = "check" THEN Len(c.at) ELSE Len(c.at) - 1
        slot(i) == {n \in 1 .. chosen : c.subset[n] = i}
    IN  \A i \in 1 .. D(p) :
          mem[c.slice][i] = IF slot(i) = {} THEN c.values[i]
                            ELSE engine[p].dims[i][c.at[CHOOSE n \in slot(i) : TRUE]]

\* The dimensions a call may change.
Reach(p) == IF g[p].op = "ClosestIn" THEN Range(g[p].subset) ELSE 1 .. D(p)

Searched(c) == c.pc = "answered" /\ c.err = "nil"

(***************************************************************************)
(* A search answers an allowed tuple at the least Hamming distance from    *)
(* the input, and nil only when there is no candidate at all: no subset is *)
(* missed, whatever the order, and no other search disturbs it.            *)
(***************************************************************************)
ResultIsNearest ==
  \A p \in Proc : Searched(g[p]) =>
    LET c == g[p]
        r == c.result
    IN  IF r = Nil THEN Candidates(engine[p], c.values, Reach(p)) = {}
        ELSE /\ r.conditions \in Nearest(engine[p], c.values, Reach(p))
             /\ r.distance = Cardinality(Changed(c.values, r.conditions))

\* Tuple t is enumerated before u: they change the same dimensions, and at the
\* first of these where they differ the value of t is declared earlier.
Position(dim, v) == Min({n \in DOMAIN dim : dim[n] = v})

Before(dims, q, t, u) ==
  /\ Changed(q, t) = Changed(q, u)
  /\ \E i \in Changed(q, t) :
       /\ Position(dims[i], t[i]) < Position(dims[i], u[i])
       /\ \A k \in Changed(q, t) : k < i => t[k] = u[k]

\* Of two sets of changed dimensions of one size, X is preferred to S: it has the
\* leftmost (rightmost) dimension that only one of them has.
Preferred(X, S) ==
  LET apart == SymDiff(X, S)
  IN  apart /= {} /\ (IF tiebreak = "RightmostDim" THEN Max(apart) ELSE Min(apart)) \in X

(***************************************************************************)
(* Among equally near tuples the strategy decides, for every subset of     *)
(* dimensions and not for its outermost one alone: no nearest tuple        *)
(* changes a preferred set of dimensions, none that changes the same set   *)
(* has a value declared earlier, and the dimension reported is the         *)
(* leftmost (rightmost) one of the set.                                    *)
(***************************************************************************)
TiebreakIsHonoured ==
  \A p \in Proc : Searched(g[p]) /\ g[p].result /= Nil =>
    LET c == g[p]
        r == c.result
        S == Changed(c.values, r.conditions)
    IN  /\ r.dim = IF tiebreak = "RightmostDim" THEN Max(S) ELSE Min(S)
        /\ \A t \in Nearest(engine[p], c.values, Reach(p)) :
             /\ ~Preferred(Changed(c.values, t), S)
             /\ ~Before(engine[p].dims, c.values, t, r.conditions)

\* The dimensions a selector stands for by its documentation: its value as an index,
\* or the first dimension of that name.
Meant(sel, n) ==
  {i \in 1 .. n :
     IF sel.type = "string"
     THEN DimNames[i] = sel.val /\ sel.val /= "" /\ \A k \in 1 .. i - 1 : DimNames[k] /= sel.val
     ELSE sel.type /= "other" /\ sel.val = i - 1}

(***************************************************************************)
(* ClosestIn searches the dimension its caller means and no other, and     *)
(* refuses a selector that means none: no integer type, no sign and no     *)
(* conversion lets an index out of range through.                          *)
(***************************************************************************)
SelectorIsHonoured ==
  \A p \in Proc : g[p].op = "ClosestIn" /\ Len(g[p].values) = D(p) =>
    IF Meant(g[p].sel, D(p)) = {}
    THEN g[p].err = "ErrInvalidDimension"
    ELSE g[p].err = "nil" /\ Range(g[p].subset) = Meant(g[p].sel, D(p))

(***************************************************************************)
(* Every call returns, also when others search and the pool is emptied.    *)
(***************************************************************************)
CallsReturn == \A p \in Proc : []<>(g[p].pc \in {"idle", "answered"})
=============================================================================
