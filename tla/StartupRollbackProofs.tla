----------------------- MODULE StartupRollbackProofs -----------------------
(***************************************************************************)
(* What a convergence of the startup service that fails leaves enabled,    *)
(* for every platform, number of legacy services, machine to begin with    *)
(* and number of faults: at most one of the services that it disabled and  *)
(* stopped.                                                                *)
(*                                                                         *)
(* A convergence disables the services that compete with the new one and   *)
(* notes which are kept off.  While it goes forward, no command enables    *)
(* one of these.  A catch block then either restores one service, and has  *)
(* nothing behind that which enables another, or enables one and the same  *)
(* service throughout.  The module goes from the scripts, to the catch     *)
(* blocks that are made of them, to each action.                           *)
(***************************************************************************)
EXTENDS StartupServiceProofs, FiniteSetTheorems

-----------------------------------------------------------------------------
(* What a convergence that fails leaves enabled.                           *)

\* No element of F comes behind one of G.
Precedes(s, F, G) == \A i \in 1..Len(s) : \A j \in 1..(i - 1) : ~(s[j] \in G /\ s[i] \in F)

Lowering == {"disable", "disable-now"}
Raising(platform) ==
  {"enable", "enable-now", "enable-and-run"}
    \cup (IF platform = "win32" THEN {"define", "restore-definition"} ELSE {})

\* Windows: an update does not disable the canonical service.
Spared(t) == t.before.platform = "win32" /\ t.kind # "start"
Contested(t) == IF Spared(t) THEN LegacySet ELSE Service

Asking(do, y, prior) == Giving({<<do, y>>}, prior)

\* Linux and Windows: only the legacy services are disabled, only the canonical one enabled.
Lawful ==
  {c \in Verbs \X Service :
     /\ c[1] \in Lowering => c[2] \in LegacySet
     /\ c[1] \in {"enable-now", "enable-and-run", "define", "restore-definition"} => c[2] = Canonical}

\* The service that the rollback on macOS enables again.
Successor(t) == IF Winner(t) = None THEN Canonical ELSE Winner(t)
Bringing(x, platform) ==
  {step \in Fields(Seq(Taking)) : step.do \in Raising(platform) => step.to = x}
Withdrawn(x) == Seq({step \in Taking : step.do \in Raising("darwin") => step.to = x})

\* What disables a job of launchd, and what notes that it stays off.
Off(y) == [Command("disable", y) EXCEPT !.undo = <<Command("enable", y)>>]
Quiet(y) == [Command("quiesce", y) EXCEPT !.discards = TRUE, !.undo = <<>>]

\* Steps without these commands, whose ways back enable no other service than x.
Commanding(without) ==
  {c \in Verbs \X Service : /\ c[1] \notin without
                            /\ c[1] \in {"define", "restore-definition"} => c[2] = Canonical}
Tamed(commands, x, prior) == {step \in Giving(commands, prior) : step.undo \in Withdrawn(x)}
Turning == {"disable", "disable-now", "enable-now", "enable-and-run"}
Tame(x, prior) == Tamed(Commanding(Turning), x, prior)
Paired(s, x, prior) ==
  \A i \in 1..Len(s) :
     \/ s[i] \in Tame(x, prior)
     \/ \E y \in Service : s[i] = Off(y) /\ (y = x \/ (i + 1 \in 1..Len(s) /\ s[i + 1] = Quiet(y)))
Orderly(s, y, prior) ==
  /\ Precedes(s, Asking("disable", y, prior), Asking("quiesce", y, prior))
  /\ Precedes(s, Asking("quiesce", y, prior), Asking("enable", y, prior))

MacForward ==
  LET x == Successor(tx)
  IN  /\ Paired(script, x, tx.prior)
      /\ \A y \in Service :
           /\ Orderly(script, y, tx.prior)
           /\ y \in tx.disabled \cap machine.enabled => ~Has(script, Asking("quiesce", y, tx.prior))
           /\ y \in tx.off => ~Has(script, Asking("disable", y, tx.prior))
      /\ \E u \in {undo, Front(undo)} : 
           /\ u \in Seq(Withdrawn(x))
           /\ \/ undo = u
              \/ \E y \in Service \ tx.off :
                   /\ undo = Append(u, <<Command("enable", y)>>)
                   /\ script # <<>> /\ Head(script) = Quiet(y)

RaisesCommands(t) == Raising(t.before.platform) \X Contested(t)
Rises(t) == {step \in Steps(t.prior, {Canonical}) : <<step.do, step.to>> \in RaisesCommands(t)}
Alone(t) == {step \in Rises(t) : ~step.restores}
Calm(t) ==
  {step \in Steps(t.prior, {Canonical}) :
     /\ step.do \in Lowering => step.to \in Contested(t)
     /\ step.restores \/ step \in Rises(t) => step.when \in {"unrestored", "handed-back"}
     /\ step \in Alone(t) => step.to = Canonical}

Restores == /\ tx.off \cap machine.enabled \subseteq {tx.restored}
            /\ script \in Seq(Calm(tx))
            /\ Precedes(script, Rises(tx), Alone(tx))
Returns(x) == /\ tx.off \cap machine.enabled \subseteq {x}
              /\ script = <<>> \/
                  /\ Head(script) \in Bringing(x, machine.platform) \/ Head(script).to \notin tx.off
                  /\ Tail(script) \in Seq(Bringing(x, machine.platform))

OffInv ==
  Converges /\ ~tx.unsure =>
    /\ tx.off \subseteq Contested(tx)
    /\ phase = "forward" =>
         /\ tx.off \cap machine.enabled = {}
         /\ IF machine.platform = "darwin" THEN MacForward
            ELSE tx.off \subseteq LegacySet /\ script \in Seq(Giving(Lawful, tx.prior))
    /\ phase \in {"rollback", "mend", "hand-back"} =>
         Restores \/ (~Spared(tx) /\ \E x \in Service : Returns(x))
    /\ phase = "rest" /\ outcome = "failed" => \E x \in Service : tx.off \cap machine.enabled \subseteq {x}

-----------------------------------------------------------------------------
(* Sequences in which some elements do not come behind others.             *)

LEMMA LacksAll ==
  ASSUME NEW S, NEW s \in Seq(S), NEW G, S \cap G = {}
  PROVE  ~Has(s, G)
<1>1. \A i \in 1..Len(s) : s[i] \in S
  BY ElementOfSeq
<1> QED BY <1>1 DEF Has

LEMMA LacksConcat ==
  ASSUME NEW S, NEW G, NEW s \in Seq(S), NEW u \in Seq(S), ~Has(s, G), ~Has(u, G)
  PROVE  ~Has(s \o u, G)
<1>1. Len(s) \in Nat /\ Len(u) \in Nat /\ Len(s \o u) = Len(s) + Len(u)
  BY ConcatProperties
<1>2. \A i \in 1..Len(s \o u) : (s \o u)[i] = IF i <= Len(s) THEN s[i] ELSE u[i - Len(s)]
  BY ConcatProperties
<1>3. ASSUME NEW i \in 1..Len(s \o u) PROVE (s \o u)[i] \notin G
  <2>1. CASE i <= Len(s)
    <3>1. i \in 1..Len(s)
      BY <1>1, <2>1
    <3> QED BY <1>2, <2>1, <3>1 DEF Has
  <2>2. CASE ~(i <= Len(s))
    <3>1. i - Len(s) \in 1..Len(u)
      BY <1>1, <2>2
    <3> QED BY <1>2, <2>2, <3>1 DEF Has
  <2> QED BY <2>1, <2>2
<1> QED BY <1>3 DEF Has

LEMMA PrecedesWhere ==
  ASSUME NEW s, NEW F, NEW G, ~Has(s, F) \/ ~Has(s, G), Len(s) \in Nat
  PROVE  Precedes(s, F, G)
<1> SUFFICES ASSUME NEW i \in 1..Len(s), NEW j \in 1..(i - 1), s[j] \in G, s[i] \in F PROVE FALSE
  BY DEF Precedes
<1>1. j \in 1..Len(s)
  OBVIOUS
<1> QED BY <1>1 DEF Has

LEMMA PrecedesConcat ==
  ASSUME NEW S, NEW F, NEW G, NEW s \in Seq(S), NEW u \in Seq(S), Precedes(s, F, G), Precedes(u, F, G),
         ~Has(s, G) \/ ~Has(u, F)
  PROVE  Precedes(s \o u, F, G)
<1>1. Len(s) \in Nat /\ Len(u) \in Nat /\ Len(s \o u) = Len(s) + Len(u)
  BY ConcatProperties
<1>2. \A i \in 1..Len(s \o u) : (s \o u)[i] = IF i <= Len(s) THEN s[i] ELSE u[i - Len(s)]
  BY ConcatProperties
<1> SUFFICES ASSUME NEW i \in 1..Len(s \o u), NEW j \in 1..(i - 1), (s \o u)[j] \in G, (s \o u)[i] \in F
             PROVE  FALSE
  BY DEF Precedes
<1>3. j \in 1..Len(s \o u)
  BY <1>1
<1>4. CASE i <= Len(s)
  <2>1. i \in 1..Len(s) /\ j <= Len(s)
    BY <1>1, <1>4
  <2>2. s[i] \in F /\ s[j] \in G
    BY <1>2, <1>3, <1>4, <2>1
  <2> QED BY <2>1, <2>2 DEF Precedes
<1>5. CASE ~(i <= Len(s)) /\ j <= Len(s)
  <2>1. i - Len(s) \in 1..Len(u) /\ j \in 1..Len(s)
    BY <1>1, <1>5
  <2>2. u[i - Len(s)] \in F /\ s[j] \in G
    BY <1>2, <1>3, <1>5
  <2> QED BY <2>1, <2>2 DEF Has
<1>6. CASE ~(i <= Len(s)) /\ ~(j <= Len(s))
  <2>1. i - Len(s) \in 1..Len(u) /\ j - Len(s) \in 1..(i - Len(s) - 1)
    BY <1>1, <1>6
  <2>2. u[i - Len(s)] \in F /\ u[j - Len(s)] \in G
    BY <1>2, <1>3, <1>6
  <2> QED BY <2>1, <2>2 DEF Precedes
<1> QED BY <1>1, <1>4, <1>5, <1>6

LEMMA PrecedesTail ==
  ASSUME NEW S, NEW F, NEW G, NEW s \in Seq(S), s # <<>>
  PROVE  /\ Precedes(s, F, G) => Precedes(Tail(s), F, G) /\ (Head(s) \in G => ~Has(Tail(s), F))
         /\ ~Has(s, F) => ~Has(Tail(s), F) /\ Head(s) \notin F
<1>1. Len(s) \in Nat \ {0} /\ Head(s) = s[1]
  OBVIOUS
<1>2. Len(Tail(s)) = Len(s) - 1 /\ \A i \in 1..Len(Tail(s)) : Tail(s)[i] = s[i + 1]
  BY HeadTailProperties
<1>3. ASSUME NEW i \in 1..Len(Tail(s)) PROVE i + 1 \in 1..Len(s) /\ s[i + 1] = Tail(s)[i] /\ 1 \in 1..(i + 1 - 1)
  BY <1>1, <1>2
<1>4. ASSUME Precedes(s, F, G), NEW i \in 1..Len(Tail(s)), NEW j \in 1..(i - 1), Tail(s)[j] \in G, Tail(s)[i] \in F
      PROVE  FALSE
  <2>1. j \in 1..Len(Tail(s)) /\ j + 1 \in 1..(i + 1 - 1)
    BY <1>1, <1>2, <1>4
  <2>2. s[i + 1] \in F /\ s[j + 1] \in G /\ i + 1 \in 1..Len(s)
    BY <1>3, <1>4, <2>1
  <2> QED BY <1>4, <2>1, <2>2 DEF Precedes
<1>5. ASSUME Precedes(s, F, G), Head(s) \in G, NEW i \in 1..Len(Tail(s)), Tail(s)[i] \in F
      PROVE  FALSE
  <2>1. s[i + 1] \in F /\ s[1] \in G /\ i + 1 \in 1..Len(s) /\ 1 \in 1..(i + 1 - 1)
    BY <1>1, <1>3, <1>5
  <2> QED BY <1>5, <2>1 DEF Precedes
<1>6. ASSUME ~Has(s, F) PROVE ~Has(Tail(s), F) /\ Head(s) \notin F
  <2>1. 1 \in 1..Len(s)
    BY <1>1
  <2> QED BY <1>1, <1>3, <1>6, <2>1 DEF Has
<1> QED BY <1>4, <1>5, <1>6 DEF Precedes, Has

\* What is last is put in front.
LEMMA AppendIsBack ==
  ASSUME NEW S, NEW u \in Seq(S), NEW g \in S
  PROVE  /\ Front(Append(u, g)) = u
         /\ Len(Reverse(Append(u, g))) = Len(u) + 1
         /\ Reverse(Append(u, g))[1] = g
         /\ \A i \in 2..(Len(u) + 1) : Reverse(Append(u, g))[i] \in {u[k] : k \in 1..Len(u)}
<1> DEFINE a == Append(u, g)
<1>1. /\ a \in Seq(S) /\ Len(a) = Len(u) + 1 /\ Len(u) \in Nat /\ a[Len(u) + 1] = g
      /\ \A i \in 1..Len(u) : a[i] = u[i]
  BY AppendProperties
<1> HIDE DEF a
<1>2. Front(a) = u
  <2>1. Front(a) = SubSeq(a, 1, Len(u))
    BY <1>1 DEF Front
  <2>2. SubSeq(a, 1, Len(u)) \in Seq(S) /\ Len(SubSeq(a, 1, Len(u))) = Len(u)
        /\ \A i \in 1..Len(u) : SubSeq(a, 1, Len(u))[i] = u[i]
    <3>1. \A i \in 1..Len(u) : a[i] \in S
      BY <1>1, ElementOfSeq
    <3> QED BY <1>1, <3>1, SubSeqProperties
  <2> QED BY <2>1, <2>2, SeqEqual
<1>3. Reverse(a) = [i \in 1..Len(a) |-> a[(Len(a) - i) + 1]]
  BY DEF Reverse
<1>4. Len(Reverse(a)) = Len(u) + 1
  <2>1. Reverse(a) \in Seq(S) /\ DOMAIN Reverse(a) = 1..(Len(u) + 1)
    BY <1>1, <1>3, ReverseFits
  <2> QED BY <1>1, <2>1, LenProperties
<1>5. Reverse(a)[1] = g
  <2>1. 1 \in 1..Len(a) /\ Len(a) - 1 + 1 = Len(u) + 1
    BY <1>1
  <2> QED BY <1>1, <1>3, <2>1
<1>6. ASSUME NEW i \in 2..(Len(u) + 1) PROVE Reverse(a)[i] \in {u[k] : k \in 1..Len(u)}
  <2>1. i \in 1..Len(a) /\ Len(a) - i + 1 \in 1..Len(u)
    BY <1>1
  <2>2. Reverse(a)[i] = u[Len(a) - i + 1]
    BY <1>1, <1>3, <2>1
  <2> QED BY <2>1, <2>2
<1> QED BY <1>2, <1>4, <1>5, <1>6 DEF a

-----------------------------------------------------------------------------
(* The scripts, by sets of steps that have their commands.                 *)

\* Q has these commands, in any block, and also as the last of their kind.
Supplies(Q, commands, prior) ==
  /\ \A do \in Verbs, s \in Service :
       <<do, s>> \in commands /\ (do \in {"backup", "write-prior"} => prior # None) =>
         Command(do, s) \in Q /\ Lenient(do, s) \in Q
  /\ \A step \in Q, block \in Blocks : [step EXCEPT !.in = block] \in Q
  /\ \A step \in Q, b \in BOOLEAN : [step EXCEPT !.clears = b] \in Q

\* Only the canonical service is defined.
Definable(commands) == \A c \in commands : c[1] \in {"define", "restore-definition"} => c[2] = Canonical

LEMMA GivingSupplies ==
  ASSUME NEW commands, NEW prior, Definable(commands)
  PROVE  Supplies(Giving(commands, prior), commands, prior)
<1> HIDE DEF Verbs, Blocks
<1>1. ASSUME NEW do \in Verbs, NEW s \in Service, <<do, s>> \in commands,
             do \in {"backup", "write-prior"} => prior # None
      PROVE  Command(do, s) \in Giving(commands, prior) /\ Lenient(do, s) \in Giving(commands, prior)
  <2>1. <<do, s>>[1] \in {"define", "restore-definition"} => <<do, s>>[2] = Canonical
    BY <1>1 DEF Definable
  <2>2. do \in {"define", "restore-definition"} => s = Canonical
    BY <2>1
  <2> QED BY <1>1, <2>2, GivingCommand
<1>2. \A step \in Giving(commands, prior), block \in Blocks : [step EXCEPT !.in = block] \in Giving(commands, prior)
  BY GivingExcept
<1>3. \A step \in Giving(commands, prior), b \in BOOLEAN : [step EXCEPT !.clears = b] \in Giving(commands, prior)
  BY GivingExcept
<1> QED BY <1>1, <1>2, <1>3 DEF Supplies

LEMMA TamedSupplies ==
  ASSUME NEW commands, NEW x, NEW prior, Definable(commands)
  PROVE  Supplies(Tamed(commands, x, prior), commands, prior)
<1> DEFINE Q == Tamed(commands, x, prior)
           G == Giving(commands, prior)
<1> HIDE DEF Verbs, Blocks, G
<1>1. Supplies(G, commands, prior)
  BY GivingSupplies DEF G
<1>2. <<>> \in Withdrawn(x)
  BY EmptySeq DEF Withdrawn
<1>3. \A do, s : Command(do, s).undo = <<>> /\ Lenient(do, s).undo = <<>>
  BY DEF Command, Lenient
<1>4. ASSUME NEW step \in Q
      PROVE  /\ step \in G
             /\ \A block \in Blocks : [step EXCEPT !.in = block].undo \in Withdrawn(x)
             /\ \A b \in BOOLEAN : [step EXCEPT !.clears = b].undo \in Withdrawn(x)
  <2>1. step \in G /\ step.undo \in Withdrawn(x)
    BY DEF Tamed, G
  <2>2. step \in Fields(Seq(Taking))
    BY <2>1 DEF Giving, Plain, Steps, G
  <2>3. /\ \A block \in Blocks : [step EXCEPT !.in = block].undo = step.undo
        /\ \A b \in BOOLEAN : [step EXCEPT !.clears = b].undo = step.undo
    BY <2>2 DEF Fields
  <2> QED BY <2>1, <2>3
<1>5. \A step \in G : step.undo \in Withdrawn(x) => step \in Q
  BY DEF Tamed, G
<1> HIDE DEF Q
<1>6. \A do \in Verbs, s \in Service :
        <<do, s>> \in commands /\ (do \in {"backup", "write-prior"} => prior # None) =>
          Command(do, s) \in Q /\ Lenient(do, s) \in Q
  BY <1>1, <1>2, <1>3, <1>5 DEF Supplies
<1>7. \A step \in Q, block \in Blocks : [step EXCEPT !.in = block] \in Q
  BY <1>1, <1>4, <1>5 DEF Supplies
<1>8. \A step \in Q, b \in BOOLEAN : [step EXCEPT !.clears = b] \in Q
  BY <1>1, <1>4, <1>5 DEF Supplies
<1> QED BY <1>6, <1>7, <1>8 DEF Supplies, Q

\* A block of steps, and a command for several services.
LEMMA SuppliedIn ==
  ASSUME NEW Q, NEW commands, NEW prior, Supplies(Q, commands, prior), NEW s \in Seq(Q), NEW block \in Blocks
  PROVE  In(block, s) \in Seq(Q)
<1>1. Len(s) \in Nat /\ DOMAIN s = 1..Len(s) /\ \A i \in 1..Len(s) : s[i] \in Q
  BY ElementOfSeq
<1> HIDE DEF Blocks
<1>2. \A i \in 1..Len(s) : [s[i] EXCEPT !.in = block] \in Q
  BY <1>1 DEF Supplies
<1>3. In(block, s) = [i \in 1..Len(s) |-> In(block, s)[i]]
      /\ \A i \in 1..Len(s) : In(block, s)[i] = [s[i] EXCEPT !.in = block]
  BY <1>1 DEF In
<1>4. \A i \in 1..Len(s) : In(block, s)[i] \in Q
  BY <1>2, <1>3
<1> QED BY <1>1, <1>3, <1>4, SeqFits

LEMMA SuppliedAll ==
  ASSUME NEW Q, NEW commands, NEW prior, Supplies(Q, commands, prior),
         NEW do \in Verbs \ {"backup", "write-prior"}, NEW services \in Seq(LegacySet),
         {do} \X LegacySet \subseteq commands
  PROVE  All(do, services) \in Seq(Q)
<1>1. Len(services) \in Nat /\ DOMAIN services = 1..Len(services)
      /\ \A i \in 1..Len(services) : services[i] \in LegacySet /\ services[i] \in Service
  BY LenProperties, ElementOfSeq DEF Service
<1>2. \A i \in 1..Len(services) : <<do, services[i]>> \in commands
  BY <1>1
<1>3. do \in Verbs /\ do \notin {"backup", "write-prior"}
  OBVIOUS
<1> HIDE DEF Verbs
<1>4. \A i \in 1..Len(services) : Command(do, services[i]) \in Q
  BY <1>1, <1>2, <1>3 DEF Supplies
<1>5. All(do, services) = [i \in 1..Len(services) |-> All(do, services)[i]]
      /\ \A i \in 1..Len(services) : All(do, services)[i] = Command(do, services[i])
  BY <1>1 DEF All
<1> QED BY <1>1, <1>4, <1>5, SeqFits

\* The commands about the canonical service.
LEMMA SuppliedCanonical ==
  ASSUME NEW Q, NEW commands, NEW prior, Supplies(Q, commands, prior)
  PROVE  \A do \in Verbs \ {"backup", "write-prior"} : <<do, Canonical>> \in commands =>
           Command(do, Canonical) \in Q /\ Lenient(do, Canonical) \in Q
<1>1. Canonical \in Service
  BY DEF Service
<1> HIDE DEF Verbs
<1> QED BY <1>1 DEF Supplies

LEMMA SuppliedPrelude ==
  ASSUME NEW t, NEW Q, NEW commands, Supplies(Q, commands, t.prior),
         {"previous", "drop-one", "pending", "backup"} \X {Canonical} \subseteq commands
  PROVE  Prelude(t) \in Seq(Q) /\ Stage(t) \in Seq(Q)
<1>1. /\ Command("previous", Canonical) \in Q /\ Command("drop-one", Canonical) \in Q
      /\ Command("pending", Canonical) \in Q
  BY SuppliedCanonical DEF Verbs
<1>2. Prelude(t) \in Seq(Q)
  <2>1. /\ <<Command("previous", Canonical)>> \in Seq(Q)
        /\ <<Command("drop-one", Canonical)>> \in Seq(Q)
        /\ <<Command("pending", Canonical)>> \in Seq(Q)
    BY <1>1
  <2>2. Only(t.prior # None /\ t.prior = ReadRecord(t.before), <<Command("previous", Canonical)>>) \in Seq(Q)
    BY <2>1, OnlyFits
  <2>3. Only(t.prior # None /\ t.prior.format = 1, <<Command("drop-one", Canonical)>>) \in Seq(Q)
    BY <2>1, OnlyFits
  <2>4. (   Only(t.prior # None /\ t.prior = ReadRecord(t.before), <<Command("previous", Canonical)>>)
         \o Only(t.prior # None /\ t.prior.format = 1, <<Command("drop-one", Canonical)>>)
         \o <<Command("pending", Canonical)>>) \in Seq(Q)
    BY <2>1, <2>2, <2>3, ConcatFits
  <2> QED BY <2>4, SuppliedIn DEF Prelude, Blocks
<1>3. Stage(t) \in Seq(Q)
  <2>1. CASE t.prior # None
    <3>1. Command("backup", Canonical) \in Q
      <4>1. "backup" \in Verbs /\ Canonical \in Service /\ <<"backup", Canonical>> \in commands
        BY DEF Verbs, Service
      <4> HIDE DEF Verbs
      <4> QED BY <2>1, <4>1 DEF Supplies
    <3>2. <<Command("backup", Canonical)>> \in Seq(Q)
      BY <3>1
    <3> QED BY <3>2, OnlyFits DEF Stage
  <2>2. CASE t.prior = None
    BY <2>2, EmptySeq DEF Stage, Only
  <2> QED BY <2>1, <2>2
<1> QED BY <1>2, <1>3

LEMMA SuppliedFinish ==
  ASSUME NEW Q, NEW commands, NEW prior, Supplies(Q, commands, prior),
         {"unstage", "commit", "drop-one", "drop-previous"} \X {Canonical} \subseteq commands
  PROVE  Finish \in Seq(Q)
<1>1. /\ Lenient("unstage", Canonical) \in Q /\ Command("commit", Canonical) \in Q
      /\ Command("drop-one", Canonical) \in Q /\ Command("drop-previous", Canonical) \in Q
  BY SuppliedCanonical DEF Verbs
<1>2. <<Lenient("unstage", Canonical), Command("commit", Canonical),
        Command("drop-one", Canonical), Command("drop-previous", Canonical)>> \in Seq(Q)
  BY <1>1
<1> QED BY <1>2, SuppliedIn DEF Finish, Blocks

\* What removes legacy services.
LEMMA SuppliedCleanups ==
  ASSUME NEW Q, NEW commands, NEW prior, Supplies(Q, commands, prior), NEW services \in Seq(LegacySet),
         {"undefine", "forget", "wipe"} \X LegacySet \subseteq commands
  PROVE  /\ MacCleanup(services) \in Seq(Q)
         /\ {"quiesce", "stop"} \X LegacySet \subseteq commands => Each(WindowsUninstall, services) \in Seq(Q)
<1>1. Len(services) \in Nat /\ DOMAIN services = 1..Len(services)
      /\ \A i \in 1..Len(services) : services[i] \in LegacySet
  BY LenProperties, ElementOfSeq
<1> DEFINE Part(s) == << [Command("undefine", s) EXCEPT !.clears = TRUE], Command("forget", s), Command("wipe", s) >>
<1>0. \A do \in Verbs \ {"backup", "write-prior"}, s \in LegacySet :
         <<do, s>> \in commands => Command(do, s) \in Q /\ Lenient(do, s) \in Q
  <2>1. LegacySet \subseteq Service
    BY DEF Service
  <2> HIDE DEF Verbs
  <2> QED BY <2>1 DEF Supplies
<1>2. ASSUME NEW s \in LegacySet PROVE Part(s) \in Seq(Q)
  <2>1. Command("undefine", s) \in Q /\ Command("forget", s) \in Q /\ Command("wipe", s) \in Q
    BY <1>0 DEF Verbs
  <2> DEFINE one == [Command("undefine", s) EXCEPT !.clears = TRUE]
  <2>2. one \in Q
    BY <2>1 DEF Supplies
  <2> HIDE DEF one
  <2>3. << one, Command("forget", s), Command("wipe", s) >> \in Seq(Q)
    BY <2>1, <2>2
  <2> QED BY <2>3 DEF one
<1>3. ASSUME NEW s \in LegacySet, {"quiesce", "stop"} \X LegacySet \subseteq commands
      PROVE  WindowsUninstall(s) \in Seq(Q)
  <2>1. /\ Command("undefine", s) \in Q /\ Command("forget", s) \in Q /\ Command("wipe", s) \in Q
        /\ Command("quiesce", s) \in Q /\ Lenient("stop", s) \in Q
    BY <1>0, <1>3 DEF Verbs
  <2>2. <<Command("quiesce", s), Lenient("stop", s), Command("undefine", s),
          Command("forget", s), Command("wipe", s)>> \in Seq(Q)
    BY <2>1
  <2> QED BY <2>2, SuppliedIn DEF WindowsUninstall, Blocks
<1> DEFINE parts == [i \in 1..Len(services) |-> Part(services[i])]
           others == [i \in 1..Len(services) |-> WindowsUninstall(services[i])]
<1>4. MacCleanup(services) = FlattenSeq(parts)
  BY <1>1 DEF MacCleanup, Each
<1>5. Each(WindowsUninstall, services) = FlattenSeq(others)
  BY <1>1 DEF Each
<1> HIDE DEF Part
<1>6. parts = [i \in 1..Len(services) |-> parts[i]] /\ others = [i \in 1..Len(services) |-> others[i]]
  OBVIOUS
<1>7. \A i \in 1..Len(services) : parts[i] \in Seq(Q)
  BY <1>1, <1>2
<1>8. {"quiesce", "stop"} \X LegacySet \subseteq commands => \A i \in 1..Len(services) : others[i] \in Seq(Q)
  BY <1>1, <1>3
<1> HIDE DEF parts, others
<1>9. FlattenSeq(parts) \in Seq(Q)
  BY <1>1, <1>6, <1>7, PartsFit
<1>10. ASSUME {"quiesce", "stop"} \X LegacySet \subseteq commands PROVE FlattenSeq(others) \in Seq(Q)
  BY <1>1, <1>6, <1>8, <1>10, PartsFit
<1> QED BY <1>4, <1>5, <1>9, <1>10

LEMMA SuppliedBootout ==
  ASSUME NEW Q, NEW commands, NEW prior, Supplies(Q, commands, prior), NEW services \in Seq(LegacySet),
         NEW clearLast \in BOOLEAN, {"bootout"} \X LegacySet \subseteq commands
  PROVE  MacBootout(services, clearLast) \in Seq(Q)
<1>1. Len(services) \in Nat /\ DOMAIN services = 1..Len(services)
      /\ \A i \in 1..Len(services) : services[i] \in LegacySet /\ services[i] \in Service
  BY LenProperties, ElementOfSeq DEF Service
<1>2. \A i \in 1..Len(services) : Command("bootout", services[i]) \in Q
  <2>1. "bootout" \in Verbs /\ \A i \in 1..Len(services) : <<"bootout", services[i]>> \in commands
    BY <1>1 DEF Verbs
  <2> HIDE DEF Verbs
  <2> QED BY <1>1, <2>1 DEF Supplies
<1>3. ASSUME NEW i \in 1..Len(services)
      PROVE  [Command("bootout", services[i]) EXCEPT !.clears = clearLast /\ i = Len(services)] \in Q
  <2>1. (clearLast /\ i = Len(services)) \in BOOLEAN
    OBVIOUS
  <2> QED BY <1>2, <2>1 DEF Supplies
<1> DEFINE steps == MacBootout(services, clearLast)
<1>4. steps = [i \in 1..Len(services) |-> steps[i]]
      /\ \A i \in 1..Len(services) :
           steps[i] = [Command("bootout", services[i]) EXCEPT !.clears = clearLast /\ i = Len(services)]
  BY <1>1 DEF MacBootout
<1>5. \A i \in 1..Len(services) : steps[i] \in Q
  BY <1>3, <1>4
<1> HIDE DEF steps
<1>6. steps \in Seq(Q)
  BY <1>1, <1>4, <1>5, SeqFits
<1> QED BY <1>6 DEF steps

-----------------------------------------------------------------------------
(* The scripts of Linux and Windows disable only legacy services, and      *)
(* enable only the canonical one.                                          *)

LEMMA LawfulIs ==
  /\ Definable(Lawful)
  /\ (Verbs \ Lowering) \X {Canonical} \subseteq Lawful
  /\ (Verbs \ {"enable-now", "enable-and-run", "define", "restore-definition"}) \X LegacySet \subseteq Lawful
<1>1. Definable(Lawful)
  BY DEF Definable, Lawful
<1>2. Canonical \in Service /\ \A l \in LegacySet : l \in Service
  BY DEF Service
<1> HIDE DEF Verbs
<1>3. (Verbs \ Lowering) \X {Canonical} \subseteq Lawful
  <2> HIDE DEF Lowering
  <2>1. ASSUME NEW c \in (Verbs \ Lowering) \X {Canonical} PROVE c \in Lawful
    <3>1. c \in Verbs \X Service /\ c[1] \notin Lowering /\ c[2] = Canonical
      BY <1>2
    <3> QED BY <3>1 DEF Lawful
  <2> QED BY <2>1
<1>4. (Verbs \ {"enable-now", "enable-and-run", "define", "restore-definition"}) \X LegacySet \subseteq Lawful
  <2> SUFFICES ASSUME NEW do \in Verbs \ {"enable-now", "enable-and-run", "define", "restore-definition"},
                      NEW l \in LegacySet
               PROVE  <<do, l>> \in Lawful
    OBVIOUS
  <2>1. <<do, l>> \in Verbs \X Service /\ <<do, l>>[1] = do /\ <<do, l>>[2] = l
    BY <1>2
  <2> QED BY <2>1 DEF Lawful
<1> QED BY <1>1, <1>3, <1>4

LEMMA LawfulScripts ==
  ASSUME NEW t, t.legacy \in Seq(LegacySet), t.restart \in BOOLEAN
  PROVE  {LinuxInstall(t), WindowsInstall(t), LinuxStart(t), WindowsStart(t)} \subseteq Seq(Giving(Lawful, t.prior))
<1>0. PICK Q : Q = Giving(Lawful, t.prior)
  OBVIOUS
<1>1. Supplies(Q, Lawful, t.prior)
  BY <1>0, LawfulIs, GivingSupplies
<1>2. \A do \in Verbs \ (Lowering \cup {"backup", "write-prior"}) :
        Command(do, Canonical) \in Q /\ Lenient(do, Canonical) \in Q
  <2> HIDE DEF Verbs, Lowering
  <2>1. \A do \in Verbs \ Lowering : <<do, Canonical>> \in Lawful
    BY LawfulIs
  <2>2. \A do \in Verbs \ (Lowering \cup {"backup", "write-prior"}) :
          do \in Verbs \ Lowering /\ do \in Verbs \ {"backup", "write-prior"}
    OBVIOUS
  <2> QED BY <1>1, <2>1, <2>2, SuppliedCanonical
<1>3. /\ Command("quiesce", Canonical) \in Q /\ Command("runtime", Canonical) \in Q
      /\ Command("define", Canonical) \in Q /\ Command("enable-now", Canonical) \in Q
      /\ Command("ready", Canonical) \in Q /\ Command("commit", Canonical) \in Q
      /\ Command("start", Canonical) \in Q /\ Command("enable", Canonical) \in Q
      /\ Lenient("stop", Canonical) \in Q
  BY <1>2 DEF Verbs, Lowering
<1>4. ASSUME NEW do \in {"quiesce", "disable-now", "disable", "undefine", "forget"}
      PROVE  All(do, t.legacy) \in Seq(Q)
  <2>1. do \in Verbs \ {"enable-now", "enable-and-run", "define", "restore-definition"}
        /\ do \in Verbs \ {"backup", "write-prior"}
    BY DEF Verbs
  <2> HIDE DEF Verbs
  <2>2. {do} \X LegacySet \subseteq Lawful
    BY <2>1, LawfulIs
  <2> QED BY <1>1, <2>1, <2>2, SuppliedAll
<1>5. Prelude(t) \in Seq(Q) /\ Stage(t) \in Seq(Q) /\ Finish \in Seq(Q)
  <2>1. /\ {"previous", "drop-one", "pending", "backup"} \X {Canonical} \subseteq Lawful
        /\ {"unstage", "commit", "drop-one", "drop-previous"} \X {Canonical} \subseteq Lawful
    BY LawfulIs DEF Verbs, Lowering
  <2> QED BY <1>1, <2>1, SuppliedPrelude, SuppliedFinish
<1>6. Each(WindowsUninstall, t.legacy) \in Seq(Q)
  <2>1. /\ {"undefine", "forget", "wipe"} \X LegacySet \subseteq Lawful
        /\ {"quiesce", "stop"} \X LegacySet \subseteq Lawful
    BY LawfulIs DEF Verbs
  <2> QED BY <1>1, <2>1, SuppliedCleanups
<1> DEFINE quiesce == <<Command("quiesce", Canonical)>>
           linux == <<Command("runtime", Canonical), Command("define", Canonical), Command("enable-now", Canonical),
                      Command("ready", Canonical), Command("commit", Canonical)>>
           windows == <<Command("runtime", Canonical), Command("define", Canonical), Command("start", Canonical),
                        Command("ready", Canonical)>>
           stop == <<Lenient("stop", Canonical)>>
           started == <<Command("start", Canonical), Command("ready", Canonical)>>
           again == <<Command("enable", Canonical), Command("start", Canonical), Command("ready", Canonical)>>
           removal == All("undefine", t.legacy) \o All("forget", t.legacy)
           disabling == All("quiesce", t.legacy) \o All("disable", t.legacy)
<1>7. /\ quiesce \in Seq(Q) /\ linux \in Seq(Q) /\ windows \in Seq(Q) /\ stop \in Seq(Q)
      /\ started \in Seq(Q) /\ again \in Seq(Q)
  BY <1>3
<1>8. removal \in Seq(Q) /\ disabling \in Seq(Q)
  BY <1>4, ConcatFits
<1>9. LinuxInstall(t) = Prelude(t) \o Stage(t) \o quiesce \o All("quiesce", t.legacy) \o All("disable-now", t.legacy)
                        \o linux \o In("committed", removal) \o Finish
  BY DEF LinuxInstall
<1>10. WindowsInstall(t) =
         Only(t.kind = "replace", In("legacies", disabling)) \o Prelude(t) \o Stage(t) \o quiesce
         \o Only(t.before.defined[Canonical] # 0, stop) \o windows \o Finish
         \o Only(t.kind = "replace", Each(WindowsUninstall, t.legacy))
  BY DEF WindowsInstall
<1>11. LinuxStart(t) = Only(t.restart, quiesce) \o All("quiesce", t.legacy) \o All("disable-now", t.legacy)
                       \o Only(t.restart, started) \o In("after", removal)
  BY DEF LinuxStart
<1>12. WindowsStart(t) = Only(t.restart, quiesce) \o All("quiesce", t.legacy) \o All("disable", t.legacy)
                         \o Only(t.restart, again) \o Each(WindowsUninstall, t.legacy)
  BY DEF WindowsStart
<1> HIDE DEF quiesce, linux, windows, stop, started, again, removal, disabling
<1>13. /\ In("committed", removal) \in Seq(Q) /\ In("after", removal) \in Seq(Q)
       /\ In("legacies", disabling) \in Seq(Q)
  BY <1>1, <1>8, SuppliedIn DEF Blocks
<1>14. /\ Only(t.restart, quiesce) \in Seq(Q) /\ Only(t.restart, started) \in Seq(Q)
       /\ Only(t.restart, again) \in Seq(Q) /\ Only(t.before.defined[Canonical] # 0, stop) \in Seq(Q)
       /\ Only(t.kind = "replace", In("legacies", disabling)) \in Seq(Q)
       /\ Only(t.kind = "replace", Each(WindowsUninstall, t.legacy)) \in Seq(Q)
  BY <1>6, <1>7, <1>13, OnlyFits
<1>15. LinuxInstall(t) \in Seq(Q)
  BY <1>4, <1>5, <1>7, <1>9, <1>13, ConcatFits
<1>16. WindowsInstall(t) \in Seq(Q)
  BY <1>5, <1>7, <1>10, <1>14, ConcatFits
<1>17. LinuxStart(t) \in Seq(Q)
  BY <1>4, <1>11, <1>13, <1>14, ConcatFits
<1>18. WindowsStart(t) \in Seq(Q)
  BY <1>4, <1>6, <1>12, <1>14, ConcatFits
<1> QED BY <1>0, <1>15, <1>16, <1>17, <1>18

-----------------------------------------------------------------------------
(* The scripts of macOS: a service is disabled before it is quiesced, and  *)
(* is quiesced, if at all, before it is enabled; a way back that enables a *)
(* service that stays off is discarded with the next command.              *)

LEMMA PairedConcat ==
  ASSUME NEW S, NEW x, NEW prior, NEW s \in Seq(S), NEW u \in Seq(S), Paired(s, x, prior), Paired(u, x, prior)
  PROVE  Paired(s \o u, x, prior)
<1> DEFINE T == Tame(x, prior)
           Pair(v, i, y) == v[i] = Off(y) /\ (y = x \/ (i + 1 \in 1..Len(v) /\ v[i + 1] = Quiet(y)))
<1>1. Len(s) \in Nat /\ Len(u) \in Nat /\ Len(s \o u) = Len(s) + Len(u)
  BY ConcatProperties
<1>2. \A i \in 1..Len(s \o u) : (s \o u)[i] = IF i <= Len(s) THEN s[i] ELSE u[i - Len(s)]
  BY ConcatProperties
<1>3. /\ \A i \in 1..Len(s) : s[i] \in T \/ \E y \in Service : Pair(s, i, y)
      /\ \A i \in 1..Len(u) : u[i] \in T \/ \E y \in Service : Pair(u, i, y)
  BY DEF Paired
<1> HIDE DEF T
<1>4. ASSUME NEW i \in 1..Len(s \o u)
      PROVE  (s \o u)[i] \in T \/ \E y \in Service : Pair(s \o u, i, y)
  <2>1. CASE i <= Len(s)
    <3>1. i \in 1..Len(s) /\ (s \o u)[i] = s[i]
      BY <1>1, <1>2, <2>1
    <3>2. CASE s[i] \in T
      BY <3>1, <3>2
    <3>3. ASSUME NEW y \in Service, Pair(s, i, y) PROVE Pair(s \o u, i, y)
      <4>1. CASE i + 1 \in 1..Len(s) /\ s[i + 1] = Quiet(y)
        <5>1. i + 1 \in 1..Len(s \o u) /\ i + 1 <= Len(s)
          BY <1>1, <4>1
        <5>2. (s \o u)[i + 1] = s[i + 1]
          BY <1>2, <5>1
        <5> QED BY <3>1, <3>3, <4>1, <5>1, <5>2
      <4> QED BY <3>1, <3>3, <4>1
    <3> HIDE DEF Pair
    <3> QED BY <1>3, <3>1, <3>2, <3>3
  <2>2. CASE ~(i <= Len(s))
    <3> DEFINE k == i - Len(s)
    <3>1. k \in 1..Len(u) /\ (s \o u)[i] = u[k] /\ k + 1 = i + 1 - Len(s) /\ ~(i + 1 <= Len(s))
      BY <1>1, <1>2, <2>2
    <3> HIDE DEF k
    <3>2. CASE u[k] \in T
      BY <3>1, <3>2
    <3>3. ASSUME NEW y \in Service, Pair(u, k, y) PROVE Pair(s \o u, i, y)
      <4>1. CASE k + 1 \in 1..Len(u) /\ u[k + 1] = Quiet(y)
        <5>1. i + 1 \in 1..Len(s \o u)
          BY <1>1, <3>1, <4>1
        <5>2. (s \o u)[i + 1] = u[k + 1]
          BY <1>2, <3>1, <5>1
        <5> QED BY <3>1, <3>3, <4>1, <5>1, <5>2
      <4> QED BY <3>1, <3>3, <4>1
    <3> HIDE DEF Pair
    <3> QED BY <1>3, <3>1, <3>2, <3>3
  <2> QED BY <2>1, <2>2
<1> QED BY <1>4 DEF Paired, T

\* What comes next, and what is left behind it.
LEMMA PairedTail ==
  ASSUME NEW S, NEW x, NEW prior, NEW s \in Seq(S), s # <<>>, Paired(s, x, prior)
  PROVE  /\ Paired(Tail(s), x, prior)
         /\ \/ Head(s) \in Tame(x, prior)
            \/ \E y \in Service : /\ Head(s) = Off(y)
                                  /\ y = x \/ (Tail(s) # <<>> /\ Head(Tail(s)) = Quiet(y))
<1> DEFINE T == Tame(x, prior)
           Pair(v, i, y) == v[i] = Off(y) /\ (y = x \/ (i + 1 \in 1..Len(v) /\ v[i + 1] = Quiet(y)))
<1>1. Len(s) \in Nat \ {0} /\ Head(s) = s[1] /\ Tail(s) \in Seq(S)
  OBVIOUS
<1>2. Len(Tail(s)) = Len(s) - 1 /\ \A i \in 1..Len(Tail(s)) : Tail(s)[i] = s[i + 1]
  BY HeadTailProperties
<1>3. \A i \in 1..Len(s) : s[i] \in T \/ \E y \in Service : Pair(s, i, y)
  BY DEF Paired
<1> HIDE DEF T
<1>4. ASSUME NEW i \in 1..Len(Tail(s))
      PROVE  Tail(s)[i] \in T \/ \E y \in Service : Pair(Tail(s), i, y)
  <2>1. i + 1 \in 1..Len(s) /\ Tail(s)[i] = s[i + 1]
    BY <1>1, <1>2
  <2>2. ASSUME NEW y \in Service, Pair(s, i + 1, y) PROVE Pair(Tail(s), i, y)
    <3>1. CASE i + 1 + 1 \in 1..Len(s) /\ s[i + 1 + 1] = Quiet(y)
      <4>1. i + 1 \in 1..Len(Tail(s))
        BY <1>1, <1>2, <3>1
      <4> QED BY <1>2, <2>1, <2>2, <3>1, <4>1
    <3> QED BY <2>1, <2>2, <3>1
  <2> HIDE DEF Pair
  <2> QED BY <1>3, <2>1, <2>2
<1>5. Head(s) \in T \/ \E y \in Service : /\ Head(s) = Off(y)
                                          /\ y = x \/ (Tail(s) # <<>> /\ Head(Tail(s)) = Quiet(y))
  <2>1. 1 \in 1..Len(s)
    BY <1>1
  <2>2. CASE s[1] \in T
    BY <1>1, <2>2
  <2>3. ASSUME NEW y \in Service, Pair(s, 1, y)
        PROVE  Head(s) = Off(y) /\ (y = x \/ (Tail(s) # <<>> /\ Head(Tail(s)) = Quiet(y)))
    <3>1. CASE 1 + 1 \in 1..Len(s) /\ s[1 + 1] = Quiet(y)
      <4>0. 1 + 1 <= Len(s)
        BY <1>1, <3>1
      <4>1. 1 \in 1..Len(Tail(s)) /\ Tail(s) # <<>>
        <5>1. Len(Tail(s)) \in Nat /\ 1 <= Len(Tail(s))
          BY <1>1, <1>2, <4>0
        <5>2. Len(<<>>) = 0
          OBVIOUS
        <5> QED BY <5>1, <5>2
      <4>2. Head(Tail(s)) = Tail(s)[1]
        BY <1>1, <4>1
      <4>3. Tail(s)[1] = s[1 + 1]
        BY <1>2, <4>1
      <4>4. Head(Tail(s)) = Quiet(y) /\ Head(s) = Off(y)
        BY <1>1, <2>3, <3>1, <4>2, <4>3
      <4> QED BY <4>1, <4>4
    <3> QED BY <1>1, <2>3, <3>1
  <2> HIDE DEF Pair
  <2> QED BY <1>3, <2>1, <2>2, <2>3
<1> QED BY <1>4, <1>5 DEF Paired, T

\* A part of such a script.
Backed(s, x, prior) ==
  s \in Seq(Plain(prior, Service)) /\ Paired(s, x, prior) /\ \A y \in Service : Orderly(s, y, prior)

LEMMA BackedConcat ==
  ASSUME NEW x, NEW prior, NEW s, NEW u, Backed(s, x, prior), Backed(u, x, prior),
         \A y \in Service :
           /\ ~Has(s, Asking("quiesce", y, prior)) \/ ~Has(u, Asking("disable", y, prior))
           /\ ~Has(s, Asking("enable", y, prior)) \/ ~Has(u, Asking("quiesce", y, prior))
  PROVE  Backed(s \o u, x, prior)
<1> DEFINE P == Plain(prior, Service)
<1>1. s \in Seq(P) /\ u \in Seq(P) /\ Paired(s, x, prior) /\ Paired(u, x, prior)
  BY DEF Backed
<1> HIDE DEF P
<1>2. s \o u \in Seq(P) /\ Paired(s \o u, x, prior)
  BY <1>1, ConcatFits, PairedConcat
<1>3. ASSUME NEW y \in Service PROVE Orderly(s \o u, y, prior)
  <2> DEFINE D == Asking("disable", y, prior)
             Q == Asking("quiesce", y, prior)
             E == Asking("enable", y, prior)
  <2>1. Precedes(s, D, Q) /\ Precedes(s, Q, E) /\ Precedes(u, D, Q) /\ Precedes(u, Q, E)
    BY DEF Backed, Orderly
  <2>2. (~Has(s, Q) \/ ~Has(u, D)) /\ (~Has(s, E) \/ ~Has(u, Q))
    OBVIOUS
  <2> HIDE DEF D, Q, E
  <2>3. Precedes(s \o u, D, Q) /\ Precedes(s \o u, Q, E)
    BY <1>1, <2>1, <2>2, PrecedesConcat
  <2> QED BY <2>3 DEF Orderly, D, Q, E
<1> QED BY <1>2, <1>3 DEF Backed, P

LEMMA AskingIs ==
  ASSUME NEW do, NEW y, NEW prior, NEW step \in Asking(do, y, prior)
  PROVE  step.do = do /\ step.to = y
<1>1. <<step.do, step.to>> = <<do, y>>
  BY DEF Asking, Giving
<1> QED BY <1>1

\* Steps without a command do not ask for it.
LEMMA CommandingLacks ==
  ASSUME NEW x, NEW prior, NEW without, NEW s \in Seq(Tamed(Commanding(without), x, prior)), NEW do \in without, NEW y
  PROVE  ~Has(s, Asking(do, y, prior))
<1> DEFINE Q == Tamed(Commanding(without), x, prior)
           A == Asking(do, y, prior)
<1>1. ASSUME NEW step \in Q, step \in A PROVE FALSE
  <2>1. step.do = do
    BY <1>1, AskingIs
  <2>2. <<step.do, step.to>> \in Commanding(without)
    BY DEF Tamed, Giving
  <2>3. <<step.do, step.to>>[1] \notin without
    BY <2>2 DEF Commanding
  <2> QED BY <2>1, <2>3
<1>2. Q \cap A = {}
  BY <1>1
<1> HIDE DEF Q, A
<1>3. s \in Seq(Q)
  BY DEF Q
<1>4. ~Has(s, A)
  BY <1>2, <1>3, LacksAll
<1> QED BY <1>4 DEF A

LEMMA CommandingIs ==
  ASSUME NEW without
  PROVE  /\ Definable(Commanding(without))
         /\ (Verbs \ without) \X {Canonical} \subseteq Commanding(without)
         /\ (Verbs \ (without \cup {"define", "restore-definition"})) \X LegacySet \subseteq Commanding(without)
<1>1. Definable(Commanding(without))
  BY DEF Definable, Commanding
<1>2. Canonical \in Service /\ LegacySet \subseteq Service
  BY DEF Service
<1> HIDE DEF Verbs
<1>3. ASSUME NEW c \in (Verbs \ without) \X {Canonical} PROVE c \in Commanding(without)
  <2>1. c \in Verbs \X Service /\ c[1] \notin without /\ c[2] = Canonical
    BY <1>2
  <2> QED BY <2>1 DEF Commanding
<1>4. ASSUME NEW c \in (Verbs \ (without \cup {"define", "restore-definition"})) \X LegacySet
      PROVE  c \in Commanding(without)
  <2>1. c \in Verbs \X Service /\ c[1] \notin without /\ c[1] \notin {"define", "restore-definition"}
    BY <1>2
  <2> QED BY <2>1 DEF Commanding
<1> QED BY <1>1, <1>3, <1>4

\* A part that disables nothing, and either quiesces nothing or enables nothing.
LEMMA TamedIsBacked ==
  ASSUME NEW x, NEW prior, NEW without, Turning \subseteq without, "quiesce" \in without \/ "enable" \in without,
         NEW s \in Seq(Tamed(Commanding(without), x, prior))
  PROVE  Backed(s, x, prior)
<1> DEFINE Q == Tamed(Commanding(without), x, prior)
<1>1. Q \subseteq Tame(x, prior) /\ Tame(x, prior) \subseteq Plain(prior, Service)
  <2>1. Commanding(without) \subseteq Commanding(Turning)
    <3> HIDE DEF Turning, Verbs
    <3> QED BY DEF Commanding
  <2> QED BY <2>1 DEF Tame, Tamed, Giving
<1>2. s \in Seq(Plain(prior, Service)) /\ Len(s) \in Nat /\ \A i \in 1..Len(s) : s[i] \in Q
  <2>1. s \in Seq(Q)
    OBVIOUS
  <2> HIDE DEF Q
  <2>2. Q \subseteq Plain(prior, Service)
    BY <1>1
  <2>3. s \in Seq(Plain(prior, Service))
    BY <2>1, <2>2, SeqMonotonic
  <2> QED BY <2>1, <2>3, ElementOfSeq, LenProperties
<1> HIDE DEF Q
<1>3. Paired(s, x, prior)
  BY <1>1, <1>2 DEF Paired
<1>4. ASSUME NEW y \in Service PROVE Orderly(s, y, prior)
  <2>1. "disable" \in without
    BY DEF Turning
  <2>2. ~Has(s, Asking("disable", y, prior))
    BY <2>1, CommandingLacks
  <2>3. ~Has(s, Asking("quiesce", y, prior)) \/ ~Has(s, Asking("enable", y, prior))
    BY CommandingLacks
  <2>4. Precedes(s, Asking("disable", y, prior), Asking("quiesce", y, prior))
    BY <1>2, <2>2, PrecedesWhere
  <2>5. Precedes(s, Asking("quiesce", y, prior), Asking("enable", y, prior))
    BY <1>2, <2>3, PrecedesWhere
  <2> QED BY <2>4, <2>5 DEF Orderly
<1> QED BY <1>2, <1>3, <1>4 DEF Backed

LEMMA SuccessorIs ==
  ASSUME NEW t \in Transaction
  PROVE  Successor(t) \in Service
<1>1. t.before \in Machine
  BY DEF Transaction
<1>2. t.before.listed \subseteq LegacySet
  BY <1>1 DEF Machine
<1>3. Winner(t) \in LegacySet \cup {Canonical, None}
  BY <1>2 DEF Winner
<1> QED BY <1>3 DEF Successor, Service

LEMMA OffIs ==
  ASSUME NEW y \in Service, NEW prior
  PROVE  /\ Off(y) \in Giving({<<"disable", y>>}, prior) /\ Off(y) \in Plain(prior, Service)
         /\ Off(y).do = "disable" /\ Off(y).to = y /\ Off(y).on = "throw" /\ Off(y).undo = <<Command("enable", y)>>
         /\ ~Off(y).clears /\ ~Off(y).discards /\ Off(y).when = "always" /\ ~Off(y).restores
         /\ Quiet(y) \in Giving({<<"quiesce", y>>}, prior) /\ Quiet(y) \in Plain(prior, Service)
         /\ Quiet(y).do = "quiesce" /\ Quiet(y).to = y /\ Quiet(y).on = "throw" /\ Quiet(y).undo = <<>>
         /\ ~Quiet(y).clears /\ Quiet(y).discards /\ Quiet(y).when = "always" /\ ~Quiet(y).restores
<1> DEFINE d == Command("disable", y)
           q == Command("quiesce", y)
           e == <<Command("enable", y)>>
<1>1. d \in Giving({<<"disable", y>>}, prior) /\ q \in Giving({<<"quiesce", y>>}, prior)
  BY GivingCommand DEF Verbs
<1>2. e \in Seq(Taking) /\ <<>> \in Seq(Taking)
  <2>1. Command("enable", y) \in Taking
    BY TakingFits DEF Verbs
  <2> QED BY <2>1
<1>3. /\ [d EXCEPT !.undo = e] \in Giving({<<"disable", y>>}, prior)
      /\ [q EXCEPT !.discards = TRUE, !.undo = <<>>] \in Giving({<<"quiesce", y>>}, prior)
  BY <1>1, <1>2, GivingExcept
<1>4. /\ Off(y) \in Giving({<<"disable", y>>}, prior) /\ Quiet(y) \in Giving({<<"quiesce", y>>}, prior)
  BY <1>3 DEF Off, Quiet
<1>5. /\ Off(y).do = "disable" /\ Off(y).to = y /\ Off(y).on = "throw" /\ Off(y).undo = <<Command("enable", y)>>
      /\ ~Off(y).clears /\ ~Off(y).discards /\ Off(y).when = "always" /\ ~Off(y).restores
  BY DEF Off, Command
<1>6. /\ Quiet(y).do = "quiesce" /\ Quiet(y).to = y /\ Quiet(y).on = "throw" /\ Quiet(y).undo = <<>>
      /\ ~Quiet(y).clears /\ Quiet(y).discards /\ Quiet(y).when = "always" /\ ~Quiet(y).restores
  BY DEF Quiet, Command
<1> QED BY <1>4, <1>5, <1>6 DEF Giving

\* Commands that enable no other service than x.
LEMMA WithdrawnCommand ==
  ASSUME NEW x, NEW do \in Verbs \ {"backup", "write-prior"}, NEW s \in Service,
         do \in {"define", "restore-definition", "undefine", "forget"} => s = Canonical,
         do \in Raising("darwin") => s = x
  PROVE  /\ Command(do, s) \in {step \in Taking : step.do \in Raising("darwin") => step.to = x}
         /\ Lenient(do, s) \in {step \in Taking : step.do \in Raising("darwin") => step.to = x}
<1>1. Command(do, s) \in Taking /\ Lenient(do, s) \in Taking
  BY TakingFits
<1>2. Command(do, s).to = s /\ Lenient(do, s).to = s /\ Command(do, s).do = do /\ Lenient(do, s).do = do
  BY DEF Command, Lenient
<1> QED BY <1>1, <1>2

\* The two commands that quiesce a job of launchd.
LEMMA QuiesceBacked ==
  ASSUME NEW t \in Transaction, NEW x, x = Successor(t), NEW s \in Service, NEW restoreStopped \in BOOLEAN,
         s = x \/ ~restoreStopped, NEW prior
  PROVE  LET u == MacQuiesce(t, s, restoreStopped) IN
         /\ Backed(u, x, prior)
         /\ \A y : ~Has(u, Asking("enable", y, prior))
         /\ \A y, do : y # s => ~Has(u, Asking(do, y, prior))
<1> DEFINE back == IF s # Winner(t) THEN <<>>
                   ELSE <<Command("enable", s), Lenient("bootstrap", s), Command("kickstart", s)>>
           one == Off(s)
           two == [Command("quiesce", s) EXCEPT !.discards = s # Winner(t) /\ ~restoreStopped, !.undo = back]
           u == <<one, two>>
<1>1. MacQuiesce(t, s, restoreStopped) = u
  BY DEF MacQuiesce, Off
<1>2. s # x => s # Winner(t) /\ ~restoreStopped
  <2>1. s # None
    BY TargetsAssumption
  <2> QED BY <2>1 DEF Successor
<1>3. back \in Withdrawn(x)
  <2>1. CASE s # Winner(t)
    BY <2>1, EmptySeq DEF Withdrawn
  <2>2. CASE s = Winner(t)
    <3>1. s = x
      <4>1. s # None
        BY TargetsAssumption
      <4> QED BY <2>2, <4>1 DEF Successor
    <3>2. "enable" \in Verbs /\ "bootstrap" \in Verbs /\ "kickstart" \in Verbs
      BY DEF Verbs
    <3> DEFINE W == {step \in Taking : step.do \in Raising("darwin") => step.to = x}
    <3>3. Command("enable", s) \in W /\ Lenient("bootstrap", s) \in W /\ Command("kickstart", s) \in W
      BY <3>1, <3>2, WithdrawnCommand
    <3> HIDE DEF W
    <3>4. <<Command("enable", s), Lenient("bootstrap", s), Command("kickstart", s)>> \in Seq(W)
      BY <3>3
    <3> QED BY <2>2, <3>4 DEF Withdrawn, W
  <2> QED BY <2>1, <2>2
<1>4. two.do = "quiesce" /\ two.to = s /\ two.undo = back /\ two.when = "always" /\ two.on = "throw"
  <2> HIDE DEF back
  <2> QED BY DEF Command
<1>5. two \in Giving({<<"quiesce", s>>}, prior)
  <2>1. Command("quiesce", s) \in Giving({<<"quiesce", s>>}, prior)
    BY GivingCommand DEF Verbs
  <2>2. back \in Seq(Taking)
    <3>1. {step \in Taking : step.do \in Raising("darwin") => step.to = x} \subseteq Taking
      OBVIOUS
    <3> QED BY <1>3, <3>1, SeqMonotonic DEF Withdrawn
  <2>3. (s # Winner(t) /\ ~restoreStopped) \in BOOLEAN
    OBVIOUS
  <2> HIDE DEF back
  <2> QED BY <2>1, <2>2, <2>3, GivingExcept
<1>6. two \in Tame(x, prior)
  <2>1. <<"quiesce", s>> \in Commanding(Turning)
    <3>1. <<"quiesce", s>> \in Verbs \X Service /\ <<"quiesce", s>>[1] = "quiesce"
      BY DEF Verbs
    <3> QED BY <3>1 DEF Commanding, Turning
  <2>2. two \in Plain(prior, Service) /\ <<two.do, two.to>> = <<"quiesce", s>>
    BY <1>4, <1>5 DEF Giving
  <2> HIDE DEF two
  <2> QED BY <1>3, <1>4, <2>1, <2>2 DEF Tame, Tamed, Giving
<1>7. s # x => two = Quiet(s)
  BY <1>2 DEF Quiet
<1>8. one \in Plain(prior, Service) /\ two \in Plain(prior, Service) /\ one.do = "disable" /\ one.to = s
  BY <1>5, OffIs DEF Giving
<1> HIDE DEF back, one, two
<1>9. u \in Seq(Plain(prior, Service)) /\ Len(u) = 2 /\ u[1] = one /\ u[2] = two
  BY <1>8
<1>10. one = Off(s)
  BY DEF one
<1> HIDE DEF u
<1>11. Paired(u, x, prior)
  <2>1. ASSUME NEW i \in 1..Len(u)
        PROVE  \/ u[i] \in Tame(x, prior)
               \/ \E y \in Service : u[i] = Off(y) /\ (y = x \/ (i + 1 \in 1..Len(u) /\ u[i + 1] = Quiet(y)))
    <3>1. i = 1 \/ i = 2
      BY <1>9
    <3>2. CASE i = 1
      <4>1. u[i] = Off(s) /\ (s = x \/ (i + 1 \in 1..Len(u) /\ u[i + 1] = Quiet(s)))
        BY <1>7, <1>9, <1>10, <3>2
      <4> QED BY <4>1
    <3>3. CASE i = 2
      BY <1>6, <1>9, <3>3
    <3> QED BY <3>1, <3>2, <3>3
  <2> QED BY <2>1 DEF Paired
<1>12. ASSUME NEW do, NEW y, NEW i \in 1..Len(u), u[i] \in Asking(do, y, prior)
       PROVE  y = s /\ ((i = 1 /\ do = "disable") \/ (i = 2 /\ do = "quiesce"))
  <2>1. u[i].do = do /\ u[i].to = y
    BY <1>12, AskingIs
  <2> QED BY <1>4, <1>8, <1>9, <2>1
<1>13. ASSUME NEW y \in Service PROVE Orderly(u, y, prior)
  <2>1. Precedes(u, Asking("disable", y, prior), Asking("quiesce", y, prior))
    <3> SUFFICES ASSUME NEW i \in 1..Len(u), NEW j \in 1..(i - 1), u[j] \in Asking("quiesce", y, prior),
                        u[i] \in Asking("disable", y, prior)
                 PROVE  FALSE
      BY DEF Precedes
    <3>1. j \in 1..Len(u)
      BY <1>9
    <3>2. i = 1 /\ j = 2
      BY <1>12, <3>1
    <3> QED BY <3>2
  <2>2. Precedes(u, Asking("quiesce", y, prior), Asking("enable", y, prior))
    <3> SUFFICES ASSUME NEW i \in 1..Len(u), NEW j \in 1..(i - 1), u[j] \in Asking("enable", y, prior)
                 PROVE  FALSE
      BY DEF Precedes
    <3>1. j \in 1..Len(u)
      BY <1>9
    <3> QED BY <1>12, <3>1
  <2> QED BY <2>1, <2>2 DEF Orderly
<1>14. Backed(u, x, prior)
  BY <1>9, <1>11, <1>13 DEF Backed
<1>15. \A y : ~Has(u, Asking("enable", y, prior))
  BY <1>12 DEF Has
<1>16. \A y, do : y # s => ~Has(u, Asking(do, y, prior))
  BY <1>12 DEF Has
<1> QED BY <1>1, <1>14, <1>15, <1>16

-----------------------------------------------------------------------------
(* A transaction lists no legacy service twice.                            *)

Distinct(s) == \A i, j \in 1..Len(s) : s[i] = s[j] => i = j

LEMMA DistinctAppend ==
  ASSUME NEW S, NEW s \in Seq(S), Distinct(s), NEW e \in S, \A k \in 1..Len(s) : s[k] # e
  PROVE  /\ Distinct(s \o <<e>>)
         /\ \A k \in 1..Len(s \o <<e>>) : (s \o <<e>>)[k] = e \/ \E j \in 1..Len(s) : (s \o <<e>>)[k] = s[j]
<1> DEFINE u == s \o <<e>>
<1>1. Len(s) \in Nat /\ Len(u) = Len(s) + 1 /\ \A k \in 1..Len(u) : u[k] = IF k <= Len(s) THEN s[k] ELSE e
  BY ConcatProperties
<1> HIDE DEF u
<1>2. ASSUME NEW k \in 1..Len(u) PROVE (k = Len(s) + 1 /\ u[k] = e) \/ (k \in 1..Len(s) /\ u[k] = s[k])
  BY <1>1
<1>3. ASSUME NEW i \in 1..Len(u), NEW j \in 1..Len(u), u[i] = u[j] PROVE i = j
  <2>1. CASE i = Len(s) + 1 /\ u[i] = e
    BY <1>2, <1>3, <2>1
  <2>2. CASE i \in 1..Len(s) /\ u[i] = s[i]
    <3>1. j \in 1..Len(s) /\ u[j] = s[j]
      BY <1>2, <1>3, <2>2
    <3> QED BY <1>3, <2>2, <3>1 DEF Distinct
  <2> QED BY <1>2, <2>1, <2>2
<1>4. \A k \in 1..Len(u) : u[k] = e \/ \E j \in 1..Len(s) : u[k] = s[j]
  BY <1>2
<1> QED BY <1>3, <1>4 DEF Distinct, u

LEMMA LegaciesDistinct ==
  ASSUME NEW kind, NEW target, NEW version, NEW prior, NEW restart, NEW m \in Machine,
         NEW t, t = Begun(kind, target, version, prior, restart, m)
  PROVE  Distinct(t.legacy)
<1> DEFINE chosen == [i \in DOMAIN Legacies |-> Only(Legacies[i] \in m.listed, <<Legacies[i]>>)]
           n == Len(Legacies)
<1>1. Legacies \in Seq(LegacySet) /\ \A i, j \in DOMAIN Legacies : Legacies[i] = Legacies[j] => i = j
  BY TargetsAssumption
<1>2. n \in Nat /\ DOMAIN Legacies = 1..n /\ \A i \in 1..n : Legacies[i] \in LegacySet
  BY <1>1, LenProperties, ElementOfSeq
<1>3. \A i \in 1..n : <<Legacies[i]>> \in Seq(LegacySet)
  BY <1>2
<1>4. \A i \in 1..n : chosen[i] \in Seq(LegacySet)
  BY <1>2, <1>3, OnlyFits
<1>5. chosen = [i \in 1..n |-> chosen[i]]
  BY <1>2
<1>6. \A i \in 1..n : chosen[i] = <<>> \/ chosen[i] = <<Legacies[i]>>
  BY <1>2 DEF Only
<1>7. t.legacy = FlattenSeq(chosen)
  BY DEF Begun, Each, Where
<1> HIDE DEF chosen
<1>8. chosen \in Seq(Seq(LegacySet)) /\ Len(chosen) = n
  <2>1. chosen \in Seq(Seq(LegacySet))
    BY <1>2, <1>4, <1>5, SeqFits
  <2> QED BY <1>2, <1>5, <2>1, LenProperties
<1>9. CASE n = 0
  <2>1. FlattenSeq(chosen) = chosen
    BY <1>8, <1>9 DEF FlattenSeq
  <2> QED BY <1>7, <1>8, <1>9, <2>1 DEF Distinct
<1>10. CASE n # 0
  <2> DEFINE Fits(i) == {a \in Seq(LegacySet) : /\ Distinct(a)
                                                /\ \A k \in 1..Len(a) : \E j \in 1..i : a[k] = Legacies[j]}
             X == [i \in 1..n |-> Fits(i)]
  <2>1. chosen[1] \in Fits(1)
    <3>0. 1 \in 1..n
      BY <1>2, <1>10
    <3>1. CASE chosen[1] = <<>>
      BY <3>1, EmptySeq DEF Distinct
    <3>2. CASE chosen[1] = <<Legacies[1]>>
      <4>1. Len(<<Legacies[1]>>) = 1 /\ <<Legacies[1]>>[1] = Legacies[1] /\ <<Legacies[1]>> \in Seq(LegacySet)
        BY <1>3, <3>0
      <4>2. Distinct(<<Legacies[1]>>)
        BY <4>1 DEF Distinct
      <4> QED BY <3>0, <3>2, <4>1, <4>2
    <3> QED BY <1>6, <3>0, <3>1, <3>2
  <2>2. ASSUME NEW i \in 2..n, NEW a \in Fits(i - 1) PROVE a \o chosen[i] \in Fits(i)
    <3>1. i \in 1..n /\ a \in Seq(LegacySet) /\ Distinct(a)
          /\ \A k \in 1..Len(a) : \E j \in 1..(i - 1) : a[k] = Legacies[j]
      BY <1>2
    <3>2. CASE chosen[i] = <<>>
      <4>1. a \o chosen[i] = a
        BY <3>1, <3>2
      <4>2. \A k \in 1..Len(a) : \E j \in 1..i : a[k] = Legacies[j]
        BY <3>1
      <4> QED BY <3>1, <4>1, <4>2
    <3>3. CASE chosen[i] = <<Legacies[i]>>
      <4> DEFINE e == Legacies[i]
                 b == a \o <<e>>
      <4>1. \A k \in 1..Len(a) : a[k] # e
        <5>1. ASSUME NEW k \in 1..Len(a), a[k] = e PROVE FALSE
          <6>1. PICK j \in 1..(i - 1) : a[k] = Legacies[j]
            BY <3>1
          <6>2. j \in DOMAIN Legacies /\ i \in DOMAIN Legacies /\ j # i
            BY <1>2, <3>1
          <6> QED BY <1>1, <5>1, <6>1, <6>2
        <5> QED BY <5>1
      <4>2. e \in LegacySet /\ b \in Seq(LegacySet)
        BY <1>2, <1>3, <3>1, ConcatFits
      <4> HIDE DEF e
      <4>3. Distinct(b) /\ \A k \in 1..Len(b) : b[k] = e \/ \E j \in 1..Len(a) : b[k] = a[j]
        <5>1. a \in Seq(LegacySet) /\ Distinct(a) /\ e \in LegacySet /\ \A k \in 1..Len(a) : a[k] # e
          BY <3>1, <4>1, <4>2
        <5> HIDE DEF Fits
        <5> QED BY <5>1, DistinctAppend
      <4> HIDE DEF b
      <4>4. ASSUME NEW k \in 1..Len(b) PROVE \E j \in 1..i : b[k] = Legacies[j]
        <5>1. CASE b[k] = e
          BY <3>1, <5>1 DEF e
        <5>2. ASSUME NEW j \in 1..Len(a), b[k] = a[j] PROVE \E h \in 1..i : b[k] = Legacies[h]
          BY <3>1, <5>2
        <5> QED BY <4>3, <5>1, <5>2
      <4>5. b \in Fits(i)
        BY <4>2, <4>3, <4>4
      <4> QED BY <3>3, <4>5 DEF b, e
    <3> QED BY <1>6, <3>1, <3>2, <3>3
  <2>3. \A i \in 1..n : X[i] = Fits(i)
    OBVIOUS
  <2> HIDE DEF Fits, X
  <2>4. 1 \in 1..n /\ n \in 1..n /\ \A i \in 2..n : i \in 1..n /\ i - 1 \in 1..n
    BY <1>2, <1>10
  <2>5. chosen[1] \in X[1] /\ \A i \in 2..n : \A a \in X[i - 1] : a \o chosen[i] \in X[i]
    BY <2>1, <2>2, <2>3, <2>4
  <2> HIDE DEF n
  <2>6. FlattenSeq(chosen) \in X[n]
    BY <1>2, <1>8, <1>10, <2>5, FlattenSteps DEF n
  <2>7. FlattenSeq(chosen) \in Fits(n)
    BY <2>3, <2>4, <2>6
  <2> QED BY <1>7, <2>7 DEF Fits
<1> QED BY <1>9, <1>10

LEMMA LegaciesBacked ==
  ASSUME NEW t \in Transaction, NEW x, x = Successor(t), Distinct(t.legacy), NEW prior
  PROVE  LET u == MacQuiesceLegacies(t) IN
         /\ Backed(u, x, prior)
         /\ \A y : ~Has(u, Asking("enable", y, prior))
         /\ \A do, y : y \notin LegacySet => ~Has(u, Asking(do, y, prior))
<1> DEFINE services == t.legacy
           n == Len(services)
           P == Plain(prior, Service)
           Part(i) == MacQuiesce(t, services[i], FALSE)
           parts == [i \in 1..n |-> Part(i)]
<1>1. n \in Nat /\ DOMAIN services = 1..n
      /\ \A i \in 1..n : services[i] \in LegacySet /\ services[i] \in Service
  <2>1. services \in Seq(LegacySet)
    BY DEF Transaction
  <2> QED BY <2>1, LenProperties, ElementOfSeq DEF Service
<1>2. MacQuiesceLegacies(t) = FlattenSeq(parts)
  BY <1>1 DEF MacQuiesceLegacies, Each
<1>3. ASSUME NEW i \in 1..n
      PROVE  /\ Backed(Part(i), x, prior)
             /\ \A y : ~Has(Part(i), Asking("enable", y, prior))
             /\ \A y, do : y # services[i] => ~Has(Part(i), Asking(do, y, prior))
  <2>1. services[i] \in Service /\ FALSE \in BOOLEAN /\ (services[i] = x \/ ~FALSE)
    BY <1>1
  <2> QED BY <2>1, QuiesceBacked
<1>4. \A i, j \in 1..n : services[i] = services[j] => i = j
  BY DEF Distinct
<1>5. parts = [i \in 1..n |-> parts[i]] /\ \A i \in 1..n : parts[i] = Part(i)
  OBVIOUS
<1> HIDE DEF Part, services, parts, P
<1>6. \A i \in 1..n : Part(i) \in Seq(P)
  BY <1>3 DEF Backed, P
<1>7. parts \in Seq(Seq(P)) /\ Len(parts) = n
  <2>1. \A i \in 1..n : parts[i] \in Seq(P)
    BY <1>5, <1>6
  <2>2. parts \in Seq(Seq(P))
    BY <1>1, <1>5, <2>1, SeqFits
  <2> QED BY <1>1, <1>5, <2>2, LenProperties
<1>8. CASE n = 0
  <2>1. FlattenSeq(parts) = <<>>
    <3>1. parts = <<>>
      BY <1>7, <1>8
    <3> QED BY <3>1 DEF FlattenSeq
  <2>2. \A do, y : ~Has(<<>>, Asking(do, y, prior))
    BY DEF Has
  <2>3. Backed(<<>>, x, prior)
    BY EmptySeq DEF Backed, Paired, Orderly, Precedes
  <2> QED BY <1>2, <2>1, <2>2, <2>3
<1>9. CASE n # 0
  <2> DEFINE Fits(i) == {a \in Seq(P) : /\ Backed(a, x, prior)
                                        /\ \A y : ~Has(a, Asking("enable", y, prior))
                                        /\ \A y, do : (\A j \in 1..i : y # services[j]) => ~Has(a, Asking(do, y, prior))}
             X == [i \in 1..n |-> Fits(i)]
  <2>1. parts[1] \in Fits(1)
    <3>1. 1 \in 1..n
      BY <1>1, <1>9
    <3> QED BY <1>3, <1>5, <1>6, <3>1
  <2>2. ASSUME NEW i \in 2..n, NEW a \in Fits(i - 1) PROVE a \o parts[i] \in Fits(i)
    <3>1. /\ i \in 1..n /\ a \in Seq(P) /\ Backed(a, x, prior) /\ parts[i] = Part(i) /\ parts[i] \in Seq(P)
          /\ \A y : ~Has(a, Asking("enable", y, prior))
          /\ \A y, do : (\A j \in 1..(i - 1) : y # services[j]) => ~Has(a, Asking(do, y, prior))
      BY <1>1, <1>5, <1>6
    <3>2. /\ Backed(parts[i], x, prior)
          /\ \A y : ~Has(parts[i], Asking("enable", y, prior))
          /\ \A y, do : y # services[i] => ~Has(parts[i], Asking(do, y, prior))
      BY <1>3, <3>1
    <3>3. \A do : ~Has(a, Asking(do, services[i], prior))
      <4>1. \A j \in 1..(i - 1) : services[i] # services[j]
        BY <1>1, <1>4, <3>1
      <4> QED BY <3>1, <4>1
    <3>4. Backed(a \o parts[i], x, prior)
      <4>1. ASSUME NEW y \in Service
            PROVE  /\ ~Has(a, Asking("quiesce", y, prior)) \/ ~Has(parts[i], Asking("disable", y, prior))
                   /\ ~Has(a, Asking("enable", y, prior)) \/ ~Has(parts[i], Asking("quiesce", y, prior))
        BY <3>1, <3>2, <3>3
      <4> QED BY <3>1, <3>2, <4>1, BackedConcat
    <3>5. a \o parts[i] \in Seq(P)
      BY <3>1, ConcatFits
    <3>6. ASSUME NEW y PROVE ~Has(a \o parts[i], Asking("enable", y, prior))
      BY <3>1, <3>2, LacksConcat
    <3>7. ASSUME NEW y, NEW do, \A j \in 1..i : y # services[j] PROVE ~Has(a \o parts[i], Asking(do, y, prior))
      <4>1. ~Has(a, Asking(do, y, prior)) /\ ~Has(parts[i], Asking(do, y, prior))
        BY <3>1, <3>2, <3>7
      <4> QED BY <3>1, <4>1, LacksConcat
    <3> QED BY <3>4, <3>5, <3>6, <3>7
  <2>3. \A i \in 1..n : X[i] = Fits(i)
    OBVIOUS
  <2> HIDE DEF Fits, X
  <2>4. 1 \in 1..n /\ n \in 1..n /\ \A i \in 2..n : i \in 1..n /\ i - 1 \in 1..n
    BY <1>1, <1>9
  <2>5. parts[1] \in X[1] /\ \A i \in 2..n : \A a \in X[i - 1] : a \o parts[i] \in X[i]
    BY <2>1, <2>2, <2>3, <2>4
  <2> HIDE DEF n
  <2>6. FlattenSeq(parts) \in X[n]
    BY <1>1, <1>7, <1>9, <2>5, FlattenSteps
  <2>7. FlattenSeq(parts) \in Fits(n)
    BY <2>3, <2>4, <2>6
  <2>8. /\ Backed(FlattenSeq(parts), x, prior)
        /\ \A y : ~Has(FlattenSeq(parts), Asking("enable", y, prior))
        /\ \A y, do : (\A j \in 1..n : y # services[j]) => ~Has(FlattenSeq(parts), Asking(do, y, prior))
    BY <2>7 DEF Fits
  <2> QED BY <1>1, <1>2, <2>8 DEF n
<1> QED BY <1>8, <1>9

LEMMA TamedUndo ==
  ASSUME NEW commands, NEW x, NEW prior, NEW step \in Tamed(commands, x, prior), NEW back \in Withdrawn(x)
  PROVE  [step EXCEPT !.undo = back] \in Tamed(commands, x, prior)
<1>1. step \in Giving(commands, prior) /\ step \in Fields(Seq(Taking))
  BY DEF Tamed, Giving, Plain, Steps
<1>2. back \in Seq(Taking)
  <2>1. {one \in Taking : one.do \in Raising("darwin") => one.to = x} \subseteq Taking
    OBVIOUS
  <2> QED BY <2>1, SeqMonotonic DEF Withdrawn
<1> DEFINE s == [step EXCEPT !.undo = back]
<1>3. s \in Giving(commands, prior)
  BY <1>1, <1>2, GivingExcept
<1>4. s.undo = back
  BY <1>1 DEF Fields
<1> HIDE DEF s
<1>5. s \in Tamed(commands, x, prior)
  BY <1>3, <1>4 DEF Tamed
<1> QED BY <1>5 DEF s

\* What runs the new service, or the old one again, and removes the legacy services.
LEMMA MacRest ==
  ASSUME NEW t \in Transaction, NEW x, NEW Q, Q = Tamed(Commanding(Turning \cup {"quiesce"}), x, t.prior)
  PROVE  /\ Only(t.prior # None, <<[Command("test-backup", Canonical) EXCEPT
                                      !.undo = <<Command("bootout", Canonical), Command("restore-files", Canonical),
                                                 Command("restore-definition", Canonical)>>]>>) \in Seq(Q)
         /\ \A clearLast \in BOOLEAN : MacBootout(t.legacy, clearLast) \in Seq(Q)
         /\ MacNew(t.prior) \in Seq(Q) /\ Only(t.restart, MacAgain) \in Seq(Q)
         /\ MacCleanup(t.legacy) \in Seq(Q) /\ Finish \in Seq(Q)
<1> DEFINE without == Turning \cup {"quiesce"}
           C == Commanding(without)
<1>0. t.legacy \in Seq(LegacySet)
  BY DEF Transaction
<1>1. Supplies(Q, C, t.prior)
  BY CommandingIs, TamedSupplies
<1>2. /\ (Verbs \ without) \X {Canonical} \subseteq C
      /\ (Verbs \ (without \cup {"define", "restore-definition"})) \X LegacySet \subseteq C
  BY CommandingIs
<1> HIDE DEF C
<1>3. \A do \in Verbs \ (without \cup {"backup", "write-prior"}) : Command(do, Canonical) \in Q
  <2> HIDE DEF Verbs, without
  <2>1. \A do \in Verbs \ without : <<do, Canonical>> \in C
    BY <1>2
  <2>2. ASSUME NEW do \in Verbs \ (without \cup {"backup", "write-prior"})
        PROVE  do \in Verbs \ without /\ do \in Verbs \ {"backup", "write-prior"}
    OBVIOUS
  <2>3. \A do \in Verbs \ {"backup", "write-prior"} : <<do, Canonical>> \in C =>
          Command(do, Canonical) \in Q /\ Lenient(do, Canonical) \in Q
    BY <1>1, SuppliedCanonical
  <2> QED BY <2>1, <2>2, <2>3
<1>4. /\ Command("test-backup", Canonical) \in Q /\ Command("runtime", Canonical) \in Q
      /\ Command("define", Canonical) \in Q /\ Command("bootout", Canonical) \in Q
      /\ Command("enable", Canonical) \in Q /\ Command("bootstrap", Canonical) \in Q
      /\ Command("kickstart", Canonical) \in Q /\ Command("ready", Canonical) \in Q
      /\ Command("commit", Canonical) \in Q
  BY <1>3 DEF Verbs, Turning
<1> DEFINE restore == <<Command("bootout", Canonical), Command("restore-files", Canonical),
                        Command("restore-definition", Canonical)>>
           remove == <<Command("bootout", Canonical), Command("undefine", Canonical), Command("wipe", Canonical)>>
           stop == <<Command("disable", Canonical), Command("bootout", Canonical)>>
<1>5. /\ restore \in Withdrawn(x) /\ remove \in Withdrawn(x) /\ stop \in Withdrawn(x) /\ <<>> \in Withdrawn(x)
  <2> DEFINE W == {step \in Taking : step.do \in Raising("darwin") => step.to = x}
  <2>1. \A do \in {"bootout", "restore-files", "restore-definition", "undefine", "wipe", "disable"} :
          Command(do, Canonical) \in W
    <3>1. \A do \in {"bootout", "restore-files", "restore-definition", "undefine", "wipe", "disable"} :
            do \in Verbs \ {"backup", "write-prior"} /\ do \notin Raising("darwin")
      BY DEF Verbs, Raising
    <3>2. Canonical \in Service
      BY DEF Service
    <3> HIDE DEF Verbs
    <3> QED BY <3>1, <3>2, WithdrawnCommand
  <2> HIDE DEF W
  <2>2. restore \in Seq(W) /\ remove \in Seq(W) /\ stop \in Seq(W) /\ <<>> \in Seq(W)
    BY <2>1
  <2> QED BY <2>2 DEF Withdrawn, W
<1> HIDE DEF restore, remove, stop
<1> DEFINE test == [Command("test-backup", Canonical) EXCEPT !.undo = restore]
           back == IF t.prior = None THEN remove ELSE <<>>
           boot == [Command("bootstrap", Canonical) EXCEPT !.undo = back]
           ready == [Command("ready", Canonical) EXCEPT !.clears = TRUE]
           enable == [Command("enable", Canonical) EXCEPT !.undo = stop]
<1>6. test \in Q /\ boot \in Q /\ enable \in Q
  <2>1. back \in Withdrawn(x)
    BY <1>5
  <2> HIDE DEF back
  <2> QED BY <1>4, <1>5, <2>1, TamedUndo
<1>7. ready \in Q
  BY <1>1, <1>4 DEF Supplies
<1>8. MacNew(t.prior) = <<Command("runtime", Canonical), Command("define", Canonical), Command("bootout", Canonical),
                          Command("enable", Canonical), boot, Command("kickstart", Canonical), ready,
                          Command("commit", Canonical)>>
      /\ MacAgain = <<enable, Command("kickstart", Canonical), ready>>
  BY DEF MacNew, MacAgain, remove, stop
<1> HIDE DEF boot, ready, enable
<1>9. MacNew(t.prior) \in Seq(Q) /\ MacAgain \in Seq(Q)
  BY <1>4, <1>6, <1>7, <1>8
<1>10. <<test>> \in Seq(Q)
  BY <1>6
<1>11. Only(t.prior # None, <<test>>) \in Seq(Q) /\ Only(t.restart, MacAgain) \in Seq(Q)
  BY <1>9, <1>10, OnlyFits
<1>12. \A clearLast \in BOOLEAN : MacBootout(t.legacy, clearLast) \in Seq(Q)
  <2>1. {"bootout"} \X LegacySet \subseteq C
    BY <1>2 DEF Verbs, Turning
  <2> QED BY <1>0, <1>1, <2>1, SuppliedBootout
<1>13. MacCleanup(t.legacy) \in Seq(Q)
  <2>1. {"undefine", "forget", "wipe"} \X LegacySet \subseteq C
    BY <1>2 DEF Verbs, Turning
  <2> QED BY <1>0, <1>1, <2>1, SuppliedCleanups
<1>14. Finish \in Seq(Q)
  <2>1. {"unstage", "commit", "drop-one", "drop-previous"} \X {Canonical} \subseteq C
    BY <1>2 DEF Verbs, Turning
  <2> QED BY <1>1, <2>1, SuppliedFinish
<1> QED BY <1>9, <1>11, <1>12, <1>13, <1>14 DEF test, restore

\* What neither disables nor quiesces may come last.
LEMMA BackedThen ==
  ASSUME NEW x, NEW prior, NEW s, Backed(s, x, prior),
         NEW r \in Seq(Tamed(Commanding(Turning \cup {"quiesce"}), x, prior))
  PROVE  Backed(s \o r, x, prior)
<1> DEFINE without == Turning \cup {"quiesce"}
<1>1. Turning \subseteq without /\ "quiesce" \in without /\ "disable" \in without
  BY DEF Turning
<1>2. r \in Seq(Tamed(Commanding(without), x, prior))
  OBVIOUS
<1> HIDE DEF without
<1>3. Backed(r, x, prior)
  BY <1>1, <1>2, TamedIsBacked
<1>4. \A y : ~Has(r, Asking("quiesce", y, prior)) /\ ~Has(r, Asking("disable", y, prior))
  BY <1>1, <1>2, CommandingLacks
<1>5. \A y \in Service :
        /\ ~Has(s, Asking("quiesce", y, prior)) \/ ~Has(r, Asking("disable", y, prior))
        /\ ~Has(s, Asking("enable", y, prior)) \/ ~Has(r, Asking("quiesce", y, prior))
  BY <1>4
<1> QED BY <1>3, <1>5, BackedConcat

\* The canonical job is quiesced when there is one to return to.
LEMMA CanonicalBacked ==
  ASSUME NEW t \in Transaction, NEW x, x = Successor(t), NEW prior, NEW condition
  PROVE  LET u == Only(condition, MacQuiesce(t, Canonical, Winner(t) = None)) IN
         /\ Backed(u, x, prior)
         /\ \A y : ~Has(u, Asking("enable", y, prior))
         /\ \A y, do : y # Canonical \/ ~condition => ~Has(u, Asking(do, y, prior))
<1> DEFINE q == MacQuiesce(t, Canonical, Winner(t) = None)
<1>1. /\ Backed(q, x, prior)
      /\ \A y : ~Has(q, Asking("enable", y, prior))
      /\ \A y, do : y # Canonical => ~Has(q, Asking(do, y, prior))
  <2>1. Canonical \in Service /\ (Winner(t) = None) \in BOOLEAN /\ (Canonical = x \/ ~(Winner(t) = None))
    BY DEF Service, Successor
  <2> QED BY <2>1, QuiesceBacked
<1>2. \A y, do : ~Has(<<>>, Asking(do, y, prior))
  BY DEF Has
<1>3. Backed(<<>>, x, prior)
  BY EmptySeq DEF Backed, Paired, Orderly, Precedes
<1> HIDE DEF q
<1>4. CASE condition
  <2>1. Only(condition, q) = q
    BY <1>4 DEF Only
  <2> QED BY <1>1, <1>4, <2>1 DEF q
<1>5. CASE ~condition
  <2>1. Only(condition, q) = <<>>
    BY <1>5 DEF Only
  <2> QED BY <1>2, <1>3, <2>1 DEF q
<1> QED BY <1>4, <1>5

LEMMA MacInstallBacked ==
  ASSUME NEW t \in Transaction, Distinct(t.legacy)
  PROVE  Backed(MacInstall(t), Successor(t), t.prior)
<1> DEFINE x == Successor(t)
           first == IF t.prior = None THEN <<Command("quiesce", Canonical)>> ELSE Stage(t)
           a == Prelude(t) \o first
           q == Only(t.prior # None, MacQuiesce(t, Canonical, Winner(t) = None))
           l == MacQuiesceLegacies(t)
           test == Only(t.prior # None, <<[Command("test-backup", Canonical) EXCEPT
                                             !.undo = <<Command("bootout", Canonical), Command("restore-files", Canonical),
                                                        Command("restore-definition", Canonical)>>]>>)
           bootout == MacBootout(t.legacy, FALSE)
           P == Plain(t.prior, Service)
           R == Tamed(Commanding(Turning \cup {"quiesce"}), x, t.prior)
           A == Tamed(Commanding(Turning \cup {"enable"}), x, t.prior)
<1>1. MacInstall(t) = Prelude(t) \o first \o q \o l \o test \o bootout \o MacNew(t.prior)
                      \o MacCleanup(t.legacy) \o Finish
  BY DEF MacInstall, MacNew
<1>2. test \in Seq(R) /\ bootout \in Seq(R) /\ MacNew(t.prior) \in Seq(R) /\ MacCleanup(t.legacy) \in Seq(R)
      /\ Finish \in Seq(R)
  BY MacRest
<1>3. Prelude(t) \in Seq(A) /\ first \in Seq(A) /\ (t.prior # None => first = Stage(t))
  <2> DEFINE C == Commanding(Turning \cup {"enable"})
  <2>1. Supplies(A, C, t.prior)
    BY CommandingIs, TamedSupplies
  <2>2. (Verbs \ (Turning \cup {"enable"})) \X {Canonical} \subseteq C
    BY CommandingIs
  <2> HIDE DEF C, A
  <2>3. {"previous", "drop-one", "pending", "backup"} \X {Canonical} \subseteq C /\ <<"quiesce", Canonical>> \in C
    BY <2>2 DEF Verbs, Turning
  <2>4. Prelude(t) \in Seq(A) /\ Stage(t) \in Seq(A)
    BY <2>1, <2>3, SuppliedPrelude
  <2>5. Command("quiesce", Canonical) \in A
    <3>1. "quiesce" \in Verbs \ {"backup", "write-prior"}
      BY DEF Verbs
    <3> HIDE DEF Verbs
    <3>2. \A do \in Verbs \ {"backup", "write-prior"} : <<do, Canonical>> \in C => Command(do, Canonical) \in A
      BY <2>1, SuppliedCanonical
    <3> QED BY <2>3, <3>1, <3>2
  <2>6. <<Command("quiesce", Canonical)>> \in Seq(A)
    BY <2>5
  <2> QED BY <2>4, <2>6
<1> HIDE DEF first, q, l, test, bootout, R, A, P
<1>4. a \in Seq(A)
  BY <1>3, ConcatFits
<1>5. Backed(a, x, t.prior) /\ \A y : ~Has(a, Asking("enable", y, t.prior)) /\ ~Has(a, Asking("disable", y, t.prior))
  <2> DEFINE without == Turning \cup {"enable"}
  <2>1. Turning \subseteq without /\ "enable" \in without /\ "disable" \in without
    BY DEF Turning
  <2>2. a \in Seq(Tamed(Commanding(without), x, t.prior))
    BY <1>4 DEF A
  <2> HIDE DEF without, a, x
  <2> QED BY <2>1, <2>2, TamedIsBacked, CommandingLacks
<1>6. \A y : (y # Canonical \/ t.prior # None) => ~Has(a, Asking("quiesce", y, t.prior))
  <2>1. ASSUME NEW step \in A, NEW y, step \in Asking("quiesce", y, t.prior), y # Canonical
        PROVE  step \notin {Command("quiesce", Canonical)}
    <3>1. Command("quiesce", Canonical).to = Canonical /\ step.to = y
      BY <2>1, AskingIs DEF Command
    <3> QED BY <2>1, <3>1
  <2> DEFINE C == Commanding(Turning \cup {"quiesce"})
  <2>2. Prelude(t) \in Seq(R) /\ Stage(t) \in Seq(R)
    <3>1. Supplies(R, C, t.prior)
      BY CommandingIs, TamedSupplies DEF R
    <3>2. (Verbs \ (Turning \cup {"quiesce"})) \X {Canonical} \subseteq C
      BY CommandingIs
    <3> HIDE DEF C
    <3>3. {"previous", "drop-one", "pending", "backup"} \X {Canonical} \subseteq C
      BY <3>2 DEF Verbs, Turning
    <3> QED BY <3>1, <3>3, SuppliedPrelude
  <2>3. \A s \in Seq(R) : \A y : ~Has(s, Asking("quiesce", y, t.prior))
    <3> DEFINE without == Turning \cup {"quiesce"}
    <3>1. "quiesce" \in without /\ R = Tamed(Commanding(without), x, t.prior)
      BY DEF R
    <3> HIDE DEF without, x
    <3> QED BY <3>1, CommandingLacks
  <2>4. CASE t.prior # None
    <3>1. a \in Seq(R)
      BY <1>3, <2>2, <2>4, ConcatFits
    <3> QED BY <2>3, <3>1
  <2>5. CASE t.prior = None
    <3>1. ASSUME NEW y, y # Canonical PROVE ~Has(first, Asking("quiesce", y, t.prior))
      <4>1. first = <<Command("quiesce", Canonical)>>
        BY <2>5 DEF first
      <4>2. Len(first) = 1 /\ first[1] = Command("quiesce", Canonical)
        BY <4>1
      <4>3. Command("quiesce", Canonical) \notin Asking("quiesce", y, t.prior)
        <5>1. Command("quiesce", Canonical).to = Canonical
          BY DEF Command
        <5> QED BY <3>1, <5>1, AskingIs
      <4> QED BY <4>2, <4>3 DEF Has
    <3>2. ASSUME NEW y, y # Canonical PROVE ~Has(a, Asking("quiesce", y, t.prior))
      <4>1. ~Has(Prelude(t), Asking("quiesce", y, t.prior))
        BY <2>2, <2>3
      <4> QED BY <1>3, <3>1, <3>2, <4>1, LacksConcat
    <3> QED BY <2>5, <3>2
  <2> QED BY <2>4, <2>5
<1>7. /\ Backed(q, x, t.prior)
      /\ \A y : ~Has(q, Asking("enable", y, t.prior))
      /\ \A y, do : y # Canonical \/ ~(t.prior # None) => ~Has(q, Asking(do, y, t.prior))
  BY CanonicalBacked DEF q
<1>8. /\ Backed(l, x, t.prior)
      /\ \A y : ~Has(l, Asking("enable", y, t.prior))
      /\ \A do, y : y \notin LegacySet => ~Has(l, Asking(do, y, t.prior))
  BY LegaciesBacked DEF l
<1> HIDE DEF a, x
<1>9. a \in Seq(P) /\ q \in Seq(P) /\ l \in Seq(P)
  BY <1>5, <1>7, <1>8 DEF Backed, P
<1> DEFINE b == a \o q
           c == b \o l
<1>10. Backed(b, x, t.prior) /\ b \in Seq(P)
  <2>1. \A y \in Service :
          /\ ~Has(a, Asking("quiesce", y, t.prior)) \/ ~Has(q, Asking("disable", y, t.prior))
          /\ ~Has(a, Asking("enable", y, t.prior)) \/ ~Has(q, Asking("quiesce", y, t.prior))
    BY <1>5, <1>6, <1>7
  <2> QED BY <1>5, <1>7, <1>9, <2>1, BackedConcat, ConcatFits
<1>11. \A y : ~Has(b, Asking("enable", y, t.prior))
  BY <1>5, <1>7, <1>9, LacksConcat
<1>12. \A y : y # Canonical => ~Has(b, Asking("quiesce", y, t.prior))
  BY <1>6, <1>7, <1>9, LacksConcat
<1> HIDE DEF b
<1>13. Backed(c, x, t.prior)
  <2>1. \A y \in Service :
          /\ ~Has(b, Asking("quiesce", y, t.prior)) \/ ~Has(l, Asking("disable", y, t.prior))
          /\ ~Has(b, Asking("enable", y, t.prior)) \/ ~Has(l, Asking("quiesce", y, t.prior))
    <3>1. Canonical \notin LegacySet
      BY TargetsAssumption
    <3> QED BY <1>8, <1>11, <1>12, <3>1
  <2> QED BY <1>8, <1>10, <2>1, BackedConcat
<1> HIDE DEF c
<1>14. \A s : Backed(s, x, t.prior) => \A r \in Seq(R) : Backed(s \o r, x, t.prior)
  BY BackedThen DEF R
<1>15. PICK m \in Seq(R) : m = MacNew(t.prior)
  BY <1>2
<1>16. PICK k \in Seq(R) : k = MacCleanup(t.legacy)
  BY <1>2
<1>17. PICK f \in Seq(R) : f = Finish
  BY <1>2
<1>18. Backed(c \o test \o bootout \o m \o k \o f, x, t.prior)
  <2>1. Backed(c \o test, x, t.prior)
    BY <1>2, <1>13, <1>14
  <2>2. Backed(c \o test \o bootout, x, t.prior)
    BY <1>2, <1>14, <2>1
  <2>3. Backed(c \o test \o bootout \o m, x, t.prior)
    BY <1>14, <1>15, <2>2
  <2>4. Backed(c \o test \o bootout \o m \o k, x, t.prior)
    BY <1>14, <1>16, <2>3
  <2> QED BY <1>14, <1>17, <2>4
<1> QED BY <1>1, <1>15, <1>16, <1>17, <1>18 DEF a, b, c, x

LEMMA MacStartBacked ==
  ASSUME NEW t \in Transaction, Distinct(t.legacy)
  PROVE  Backed(MacStart(t), Successor(t), t.prior)
<1> DEFINE x == Successor(t)
           l == MacQuiesceLegacies(t)
           q == Only(t.restart, MacQuiesce(t, Canonical, Winner(t) = None))
           bootout == MacBootout(t.legacy, ~t.restart)
           again == Only(t.restart, MacAgain)
           R == Tamed(Commanding(Turning \cup {"quiesce"}), x, t.prior)
           c == l \o q
<1>1. MacStart(t) = l \o q \o bootout \o again \o MacCleanup(t.legacy)
  BY DEF MacStart, MacAgain
<1>2. bootout \in Seq(R) /\ again \in Seq(R) /\ MacCleanup(t.legacy) \in Seq(R)
  <2>1. (~t.restart) \in BOOLEAN
    OBVIOUS
  <2> QED BY <2>1, MacRest
<1>3. /\ Backed(q, x, t.prior)
      /\ \A y, do : y # Canonical => ~Has(q, Asking(do, y, t.prior))
  BY CanonicalBacked
<1>4. /\ Backed(l, x, t.prior)
      /\ \A y : ~Has(l, Asking("enable", y, t.prior))
      /\ \A do, y : y \notin LegacySet => ~Has(l, Asking(do, y, t.prior))
  BY LegaciesBacked
<1> HIDE DEF l, q, bootout, again, R, x
<1>5. Backed(c, x, t.prior)
  <2>1. \A y \in Service :
          /\ ~Has(l, Asking("quiesce", y, t.prior)) \/ ~Has(q, Asking("disable", y, t.prior))
          /\ ~Has(l, Asking("enable", y, t.prior)) \/ ~Has(q, Asking("quiesce", y, t.prior))
    <3>1. Canonical \notin LegacySet
      BY TargetsAssumption
    <3> QED BY <1>3, <1>4, <3>1
  <2> QED BY <1>3, <1>4, <2>1, BackedConcat
<1> HIDE DEF c
<1>6. \A s : Backed(s, x, t.prior) => \A r \in Seq(R) : Backed(s \o r, x, t.prior)
  BY BackedThen DEF R
<1>7. PICK k \in Seq(R) : k = MacCleanup(t.legacy)
  BY <1>2
<1>8. Backed(c \o bootout \o again \o k, x, t.prior)
  <2>1. Backed(c \o bootout, x, t.prior)
    BY <1>2, <1>5, <1>6
  <2>2. Backed(c \o bootout \o again, x, t.prior)
    BY <1>2, <1>6, <2>1
  <2> QED BY <1>6, <1>7, <2>2
<1> QED BY <1>1, <1>7, <1>8 DEF c, x

-----------------------------------------------------------------------------
(* The catch blocks: what starts a legacy service again comes before what  *)
(* enables the canonical one, and each only while nothing is restored.     *)

\* Commands that enable no service that may be off, and restore none.
Idle(t) ==
  {step \in Steps(t.prior, {Canonical}) :
     /\ step.do \in Lowering => step.to \in Contested(t)
     /\ ~step.restores
     /\ <<step.do, step.to>> \notin RaisesCommands(t)}
\* Commands that enable such a service, if at all, to restore it.
Bringer(t) == {step \in Calm(t) : step \notin Alone(t)}

Restoring(s, t) == s \in Seq(Calm(t)) /\ Precedes(s, Rises(t), Alone(t))

LEMMA IdleIs ==
  ASSUME NEW t
  PROVE  /\ Idle(t) \subseteq Bringer(t) /\ Bringer(t) \subseteq Calm(t)
         /\ Idle(t) \cap Rises(t) = {} /\ Bringer(t) \cap Alone(t) = {}
<1>1. \A step \in Idle(t) : step \notin Rises(t)
  BY DEF Idle, Rises
<1>2. Alone(t) \subseteq Rises(t)
  BY DEF Alone
<1>3. Idle(t) \subseteq Calm(t)
  BY <1>1, <1>2 DEF Idle, Calm
<1> QED BY <1>1, <1>2, <1>3 DEF Bringer

LEMMA RestoringConcat ==
  ASSUME NEW t, NEW s, NEW u, Restoring(s, t), Restoring(u, t), ~Has(s, Alone(t)) \/ ~Has(u, Rises(t))
  PROVE  Restoring(s \o u, t)
<1>1. s \in Seq(Calm(t)) /\ u \in Seq(Calm(t))
  BY DEF Restoring
<1>2. Precedes(s, Rises(t), Alone(t)) /\ Precedes(u, Rises(t), Alone(t))
  BY DEF Restoring
<1>3. Precedes(s \o u, Rises(t), Alone(t))
  BY <1>1, <1>2, PrecedesConcat
<1>4. s \o u \in Seq(Calm(t))
  BY <1>1, ConcatFits
<1> QED BY <1>3, <1>4 DEF Restoring

LEMMA RestoringParts ==
  ASSUME NEW t
  PROVE  /\ \A s \in Seq(Bringer(t)) : Restoring(s, t) /\ ~Has(s, Alone(t))
         /\ \A s \in Seq(Idle(t)) : Restoring(s, t) /\ ~Has(s, Rises(t))
         /\ \A step \in Calm(t) : Restoring(<<step>>, t)
<1>1. /\ Idle(t) \subseteq Bringer(t) /\ Bringer(t) \subseteq Calm(t)
      /\ Idle(t) \cap Rises(t) = {} /\ Bringer(t) \cap Alone(t) = {}
  BY IdleIs
<1>2. ASSUME NEW s \in Seq(Bringer(t)) PROVE Restoring(s, t) /\ ~Has(s, Alone(t))
  <2>1. s \in Seq(Calm(t)) /\ Len(s) \in Nat
    BY <1>1, SeqMonotonic, LenProperties
  <2>2. ~Has(s, Alone(t))
    BY <1>1, LacksAll
  <2> QED BY <2>1, <2>2, PrecedesWhere DEF Restoring
<1>3. ASSUME NEW s \in Seq(Idle(t)) PROVE Restoring(s, t) /\ ~Has(s, Rises(t))
  <2>1. s \in Seq(Bringer(t))
    BY <1>1, SeqMonotonic
  <2>2. ~Has(s, Rises(t))
    BY <1>1, LacksAll
  <2> QED BY <1>2, <2>1, <2>2
<1>4. ASSUME NEW step \in Calm(t) PROVE Restoring(<<step>>, t)
  <2>1. <<step>> \in Seq(Calm(t)) /\ Len(<<step>>) = 1
    OBVIOUS
  <2>2. Precedes(<<step>>, Rises(t), Alone(t))
    BY <2>1 DEF Precedes
  <2> QED BY <2>1, <2>2 DEF Restoring
<1> QED BY <1>2, <1>3, <1>4

LEMMA IdleExcept ==
  ASSUME NEW t, NEW step \in Idle(t)
  PROVE  /\ \A condition \in Conditions : When(condition, step) \in Idle(t)
         /\ \A block \in Blocks : [step EXCEPT !.in = block] \in Idle(t)
         /\ \A on \in Answers : [step EXCEPT !.on = on] \in Idle(t)
<1>1. step \in Fields(Seq(Taking)) /\ Proper(step, t.prior, {Canonical})
  BY DEF Idle, Steps
<1>2. ASSUME NEW s \in Fields(Seq(Taking)), s.do = step.do, s.to = step.to, s.restores = step.restores
      PROVE  s \in Idle(t)
  BY <1>1, <1>2 DEF Idle, Steps, Proper
<1>3. ASSUME NEW condition \in Conditions PROVE When(condition, step) \in Idle(t)
  <2> DEFINE s == [step EXCEPT !.when = condition]
  <2>1. s \in Fields(Seq(Taking)) /\ s.do = step.do /\ s.to = step.to /\ s.restores = step.restores
    BY <1>1 DEF Fields
  <2> QED BY <1>2, <2>1 DEF When
<1>4. ASSUME NEW block \in Blocks PROVE [step EXCEPT !.in = block] \in Idle(t)
  <2> DEFINE s == [step EXCEPT !.in = block]
  <2>1. s \in Fields(Seq(Taking)) /\ s.do = step.do /\ s.to = step.to /\ s.restores = step.restores
    BY <1>1 DEF Fields
  <2> QED BY <1>2, <2>1
<1>5. ASSUME NEW on \in Answers PROVE [step EXCEPT !.on = on] \in Idle(t)
  <2> DEFINE s == [step EXCEPT !.on = on]
  <2>1. s \in Fields(Seq(Taking)) /\ s.do = step.do /\ s.to = step.to /\ s.restores = step.restores
    BY <1>1 DEF Fields
  <2> QED BY <1>2, <2>1
<1> QED BY <1>3, <1>4, <1>5

\* The commands about the canonical service that a catch block may run.
LEMMA IdleCommand ==
  ASSUME NEW t, NEW do \in Verbs, do \in {"backup", "write-prior"} => t.prior # None,
         do \in Lowering => ~Spared(t), do \in Raising(t.before.platform) => Spared(t)
  PROVE  Command(do, Canonical) \in Idle(t) /\ Lenient(do, Canonical) \in Idle(t)
<1>0. Canonical \in Service /\ Canonical \notin LegacySet
  BY TargetsAssumption DEF Service
<1>1. Command(do, Canonical) \in Plain(t.prior, {Canonical}) /\ Lenient(do, Canonical) \in Plain(t.prior, {Canonical})
  BY <1>0, CommandFits
<1>2. /\ Command(do, Canonical).do = do /\ Command(do, Canonical).to = Canonical /\ ~Command(do, Canonical).restores
      /\ Lenient(do, Canonical).do = do /\ Lenient(do, Canonical).to = Canonical /\ ~Lenient(do, Canonical).restores
  BY DEF Command, Lenient
<1>3. do \in Lowering => Canonical \in Contested(t)
  BY <1>0 DEF Contested
<1>4. <<do, Canonical>> \notin RaisesCommands(t)
  <2>1. Spared(t) => Canonical \notin Contested(t)
    BY <1>0 DEF Contested
  <2> HIDE DEF Raising
  <2> QED BY <2>1 DEF RaisesCommands
<1> HIDE DEF Verbs, Lowering
<1> QED BY <1>1, <1>2, <1>3, <1>4 DEF Idle, Plain

\* The canonical service is enabled only if nothing is restored.
LEMMA EnablesUnrestored ==
  ASSUME NEW t, NEW do \in {"enable", "enable-now"}
  PROVE  When("unrestored", Lenient(do, Canonical)) \in Calm(t)
<1> DEFINE s == When("unrestored", Lenient(do, Canonical))
<1>1. Lenient(do, Canonical) \in Plain(t.prior, {Canonical})
  BY CommandFits DEF Verbs, Service
<1>2. s \in Plain(t.prior, {Canonical})
  BY <1>1, PlainExcept DEF Conditions
<1>3. s.do = do /\ s.to = Canonical /\ s.when = "unrestored" /\ ~s.restores
  BY DEF When, Lenient, Command
<1> HIDE DEF s
<1>4. s \in Steps(t.prior, {Canonical}) /\ s.do \notin Lowering
  BY <1>2, <1>3 DEF Plain, Lowering
<1>5. s \in Calm(t)
  BY <1>3, <1>4 DEF Calm
<1> QED BY <1>5 DEF s

LEMMA ReinstateBrings ==
  ASSUME NEW t, t.legacy \in Seq(LegacySet), NEW when \in {"unrestored", "handed-back"}
  PROVE  Reinstate(t, when) \in Seq(Bringer(t))
<1>1. ASSUME NEW do \in {"enable-now", "enable-and-run", "start"}, NEW l \in LegacySet
      PROVE  Again(when, do, l) \in Bringer(t)
  <2>1. Command(do, l) \in Plain(t.prior, {Canonical})
    <3>1. do \in Verbs /\ l \in Service
      BY DEF Verbs, Service
    <3> HIDE DEF Verbs
    <3> QED BY <3>1, CommandFits
  <2>2. when \in Conditions
    BY DEF Conditions
  <2>3. When(when, Command(do, l)) \in Plain(t.prior, {Canonical})
    BY <2>1, <2>2, PlainExcept
  <2> DEFINE s == When(when, Command(do, l))
             r == [s EXCEPT !.on = "disable", !.restores = TRUE]
  <2>4. s \in Fields(Seq(Taking)) /\ Proper(s, t.prior, {Canonical})
    BY <2>3 DEF Plain, Steps
  <2>5. s.do = do /\ s.when = when
    BY DEF When, Command
  <2> HIDE DEF s
  <2>6. r \in Fields(Seq(Taking)) /\ r.do = s.do /\ r.to = s.to /\ r.restores /\ r.when = s.when
    BY <2>4 DEF Fields, Answers
  <2> HIDE DEF r
  <2>7. r \in Steps(t.prior, {Canonical}) /\ r.do \notin Lowering
    BY <2>4, <2>5, <2>6 DEF Steps, Proper, Lowering
  <2>8. r \notin Alone(t)
    BY <2>6 DEF Alone
  <2>9. r \in Bringer(t)
    BY <2>5, <2>6, <2>7, <2>8 DEF Bringer, Calm
  <2> QED BY <2>9 DEF r, s, Again
<1> QED BY <1>1, ReinstateWithin

LEMMA LinuxRollbackRestores ==
  ASSUME NEW t, t.legacy \in Seq(LegacySet), t.before.platform = "linux"
  PROVE  Restoring(LinuxInstallRollback(t), t) /\ Restoring(LinuxStartRollback(t), t)
<1> DEFINE I == Idle(t)
           B == Bringer(t)
           again == t.prior # None /\ Canonical \in t.stopped
           stopping == <<Lenient("disable-now", Canonical)>>
           files == <<Command("restore-files", Canonical), Command("restore-definition", Canonical)>>
           one == << When("restored", Lenient("disable-now", Canonical)) >>
           enabling == When("unrestored", Lenient(IF again THEN "enable-now" ELSE "enable", Canonical))
           three == << When("unrestored", Lenient("start", Canonical)) >>
           stop == <<Lenient("stop", Canonical)>>
<1>1. ~Spared(t)
  BY DEF Spared
<1>2. \A do \in {"disable-now", "restore-files", "restore-definition", "start", "stop"} :
        Command(do, Canonical) \in I /\ Lenient(do, Canonical) \in I
  <2>1. \A do \in {"disable-now", "restore-files", "restore-definition", "start", "stop"} :
          do \in Verbs /\ do \notin {"backup", "write-prior"} /\ do \notin Raising(t.before.platform)
    BY DEF Verbs, Raising
  <2> HIDE DEF Verbs, I, Raising
  <2> QED BY <1>1, <2>1, IdleCommand DEF I
<1>3. /\ When("restored", Lenient("disable-now", Canonical)) \in I
      /\ When("unrestored", Lenient("start", Canonical)) \in I
  <2>1. Lenient("disable-now", Canonical) \in I /\ Lenient("start", Canonical) \in I
    BY <1>2
  <2> QED BY <2>1, IdleExcept DEF Conditions
<1>4. enabling \in Calm(t)
  <2> DEFINE do == IF again THEN "enable-now" ELSE "enable"
  <2>1. do \in {"enable", "enable-now"}
    OBVIOUS
  <2> HIDE DEF do
  <2>2. When("unrestored", Lenient(do, Canonical)) \in Calm(t)
    BY <2>1, EnablesUnrestored
  <2> QED BY <2>2 DEF do
<1> DEFINE two == <<enabling>>
<1>5. LinuxInstallRollback(t) =
           Only(t.mutated, stopping)
        \o Only(t.prior # None /\ t.mutated, files)
        \o Only(~again, Reinstate(t, "unrestored"))
        \o Only(t.prior # None, one \o (IF t.mutated THEN two ELSE Only(again, three)))
  BY DEF LinuxInstallRollback
<1>6. LinuxStartRollback(t) = Only(t.restart, stop) \o ReinstateAfterStart(t)
                              \o Only(t.restart, one \o Only(Canonical \in t.stopped, three))
  BY DEF LinuxStartRollback
<1> HIDE DEF I
<1>7. stopping \in Seq(I) /\ files \in Seq(I) /\ one \in Seq(I) /\ three \in Seq(I) /\ stop \in Seq(I)
  BY <1>2, <1>3
<1> HIDE DEF enabling
<1>8. Restoring(two, t)
  BY <1>4, RestoringParts
<1> HIDE DEF stopping, files, one, two, three, stop, again, B
<1>9. I \subseteq B
  BY IdleIs DEF I, B
<1>10. Reinstate(t, "unrestored") \in Seq(B) /\ ReinstateAfterStart(t) \in Seq(B)
  BY ReinstateBrings, AfterStartWithin DEF B
<1>11. /\ stopping \in Seq(B) /\ files \in Seq(B) /\ one \in Seq(B) /\ three \in Seq(B) /\ stop \in Seq(B)
  BY <1>7, <1>9, SeqMonotonic
<1>12. /\ \A s \in Seq(B) : Restoring(s, t) /\ ~Has(s, Alone(t))
       /\ \A s \in Seq(I) : Restoring(s, t) /\ ~Has(s, Rises(t))
  BY RestoringParts DEF B, I
<1>13. Restoring(LinuxStartRollback(t), t)
  <2>1. Only(t.restart, stop) \in Seq(B) /\ Only(Canonical \in t.stopped, three) \in Seq(B)
    BY <1>11, OnlyFits
  <2>2. one \o Only(Canonical \in t.stopped, three) \in Seq(B)
    BY <1>11, <2>1, ConcatFits
  <2>3. Only(t.restart, one \o Only(Canonical \in t.stopped, three)) \in Seq(B)
    BY <2>2, OnlyFits
  <2>4. LinuxStartRollback(t) \in Seq(B)
    BY <1>6, <1>10, <2>1, <2>3, ConcatFits
  <2> QED BY <1>12, <2>4
<1>14. Restoring(LinuxInstallRollback(t), t)
  <2> DEFINE a == Only(t.mutated, stopping) \o Only(t.prior # None /\ t.mutated, files)
                  \o Only(~again, Reinstate(t, "unrestored"))
             c == IF t.mutated THEN two ELSE Only(again, three)
             b == one \o c
  <2>1. /\ Only(t.mutated, stopping) \in Seq(B) /\ Only(t.prior # None /\ t.mutated, files) \in Seq(B)
        /\ Only(~again, Reinstate(t, "unrestored")) \in Seq(B)
    BY <1>10, <1>11, OnlyFits
  <2>2. a \in Seq(B)
    BY <2>1, ConcatFits
  <2>3. Restoring(c, t)
    <3>1. Only(again, three) \in Seq(I)
      BY <1>7, OnlyFits
    <3> QED BY <1>8, <1>12, <3>1
  <2>4. LinuxInstallRollback(t) = a \o Only(t.prior # None, b)
    BY <1>5
  <2> HIDE DEF a, c
  <2>5. Restoring(b, t)
    <3>1. Restoring(one, t) /\ ~Has(one, Alone(t))
      BY <1>11, <1>12
    <3> QED BY <2>3, <3>1, RestoringConcat
  <2> HIDE DEF b
  <2>6. Restoring(Only(t.prior # None, b), t)
    <3>1. <<>> \in Seq(I)
      BY EmptySeq
    <3>2. Only(t.prior # None, b) \in {b, <<>>}
      BY DEF Only
    <3> QED BY <1>12, <2>5, <3>1, <3>2
  <2>7. Restoring(a, t) /\ ~Has(a, Alone(t))
    BY <1>12, <2>2
  <2>8. Restoring(a \o Only(t.prior # None, b), t)
    BY <2>6, <2>7, RestoringConcat
  <2> QED BY <2>4, <2>8
<1> QED BY <1>13, <1>14

LEMMA WindowsRollbackRestores ==
  ASSUME NEW t, t.legacy \in Seq(LegacySet), t.before.platform = "win32"
  PROVE  /\ t.kind # "start" => Restoring(WindowsInstallRollback(t), t)
         /\ t.kind = "start" => Restoring(WindowsStartRollback(t), t)
<1> DEFINE I == Idle(t)
           B == Bringer(t)
<1>1. ASSUME t.kind # "start" PROVE Restoring(WindowsInstallRollback(t), t)
  <2>1. Spared(t)
    BY <1>1 DEF Spared
  <2>2. \A do \in {"restore-files", "restore-definition", "start"} : Command(do, Canonical) \in I
    <3>1. \A do \in {"restore-files", "restore-definition", "start"} :
            do \in Verbs /\ do \notin {"backup", "write-prior"} /\ do \notin Lowering
      BY DEF Verbs, Lowering
    <3> HIDE DEF Verbs, I, Lowering
    <3> QED BY <2>1, <3>1, IdleCommand DEF I
  <2> DEFINE files == <<Command("restore-files", Canonical)>>
             definition == <<Command("restore-definition", Canonical)>>
             start == <<Command("start", Canonical)>>
             both == definition \o Only(Canonical \in t.stopped, start)
             all == files \o Only(t.before.defined[Canonical] # 0, both)
  <2>3. WindowsInstallRollback(t) = Only(t.prior # None /\ t.mutated, all)
    BY DEF WindowsInstallRollback
  <2> HIDE DEF I
  <2>4. files \in Seq(I) /\ definition \in Seq(I) /\ start \in Seq(I)
    BY <2>2
  <2> HIDE DEF files, definition, start
  <2>5. both \in Seq(I)
    <3>1. Only(Canonical \in t.stopped, start) \in Seq(I)
      BY <2>4, OnlyFits
    <3> QED BY <2>4, <3>1, ConcatFits
  <2> HIDE DEF both
  <2>6. all \in Seq(I)
    <3>1. Only(t.before.defined[Canonical] # 0, both) \in Seq(I)
      BY <2>5, OnlyFits
    <3> QED BY <2>4, <3>1, ConcatFits
  <2> HIDE DEF all
  <2>7. WindowsInstallRollback(t) \in Seq(I)
    BY <2>3, <2>6, OnlyFits
  <2> QED BY <2>7, RestoringParts DEF I
<1>2. ASSUME t.kind = "start" PROVE Restoring(WindowsStartRollback(t), t)
  <2>1. ~Spared(t)
    BY <1>2 DEF Spared
  <2>2. \A do \in {"disable", "start"} : Lenient(do, Canonical) \in I
    <3>1. \A do \in {"disable", "start"} :
            do \in Verbs /\ do \notin {"backup", "write-prior"} /\ do \notin Raising(t.before.platform)
      BY DEF Verbs, Raising
    <3> HIDE DEF Verbs, I, Raising
    <3> QED BY <2>1, <3>1, IdleCommand DEF I
  <2>3. When("unrestored", Lenient("start", Canonical)) \in I
    <3>1. Lenient("start", Canonical) \in I
      BY <2>2
    <3> QED BY <3>1, IdleExcept DEF Conditions
  <2>4. When("unrestored", Lenient("enable", Canonical)) \in Calm(t)
    BY EnablesUnrestored
  <2> DEFINE disabling == <<Lenient("disable", Canonical)>>
             two == << When("unrestored", Lenient("enable", Canonical)) >>
             three == << When("unrestored", Lenient("start", Canonical)) >>
             a == Only(t.restart, disabling) \o ReinstateAfterStart(t)
             b == two \o Only(Canonical \in t.stopped, three)
  <2>5. WindowsStartRollback(t) = a \o Only(t.restart, b)
    BY DEF WindowsStartRollback
  <2> HIDE DEF I, B
  <2>6. disabling \in Seq(I) /\ three \in Seq(I)
    BY <2>2, <2>3
  <2>7. Restoring(two, t)
    BY <2>4, RestoringParts
  <2> HIDE DEF disabling, two, three
  <2>8. /\ \A s \in Seq(B) : Restoring(s, t) /\ ~Has(s, Alone(t))
        /\ \A s \in Seq(I) : Restoring(s, t) /\ ~Has(s, Rises(t))
    BY RestoringParts DEF B, I
  <2>9. Restoring(b, t)
    <3>1. Only(Canonical \in t.stopped, three) \in Seq(I)
      BY <2>6, OnlyFits
    <3>2. /\ Restoring(Only(Canonical \in t.stopped, three), t)
          /\ ~Has(Only(Canonical \in t.stopped, three), Rises(t))
      BY <2>8, <3>1
    <3> QED BY <2>7, <3>2, RestoringConcat
  <2>10. a \in Seq(B)
    <3>1. disabling \in Seq(B)
      <4>1. I \subseteq B
        BY IdleIs DEF I, B
      <4> QED BY <2>6, <4>1, SeqMonotonic
    <3>2. ReinstateAfterStart(t) \in Seq(B)
      BY ReinstateBrings, AfterStartWithin DEF B
    <3>3. Only(t.restart, disabling) \in Seq(B)
      BY <3>1, OnlyFits
    <3> QED BY <3>2, <3>3, ConcatFits
  <2> HIDE DEF a, b
  <2>11. Restoring(Only(t.restart, b), t)
    <3>1. <<>> \in Seq(I)
      BY EmptySeq
    <3>2. Only(t.restart, b) \in {b, <<>>}
      BY DEF Only
    <3> QED BY <2>8, <2>9, <3>1, <3>2
  <2>12. Restoring(a, t) /\ ~Has(a, Alone(t))
    BY <2>8, <2>10
  <2>13. Restoring(a \o Only(t.restart, b), t)
    BY <2>11, <2>12, RestoringConcat
  <2> QED BY <2>5, <2>13
<1> QED BY <1>1, <1>2

-----------------------------------------------------------------------------
(* The catch blocks that mend the records and hand port 443 back.          *)

Mending(prior) ==
  {step \in Plain(prior, {Canonical}) :
     step.do \in {"write-prior", "write-planned", "drop-two", "drop-previous"} /\ ~step.restores}

LEMMA MendsRecords ==
  ASSUME NEW m
  PROVE  Mend(m) \in Seq(Mending(tx.prior))
<1>0. PICK P : P = Mending(tx.prior)
  OBVIOUS
<1>1. \A do \in {"write-prior", "write-planned", "drop-two", "drop-previous"} :
        (do = "write-prior" => tx.prior # None) => Command(do, Canonical) \in P /\ Lenient(do, Canonical) \in P
  <2> SUFFICES ASSUME NEW do \in {"write-prior", "write-planned", "drop-two", "drop-previous"},
                      do = "write-prior" => tx.prior # None
               PROVE  Command(do, Canonical) \in P /\ Lenient(do, Canonical) \in P
    OBVIOUS
  <2>1. do \in Verbs /\ Canonical \in Service /\ (do \in {"backup", "write-prior"} => tx.prior # None)
        /\ do \notin {"undefine", "forget"}
    BY DEF Verbs, Service
  <2> HIDE DEF Verbs
  <2>2. Command(do, Canonical) \in Plain(tx.prior, {Canonical}) /\ Lenient(do, Canonical) \in Plain(tx.prior, {Canonical})
    BY <2>1, CommandFits
  <2>3. /\ Command(do, Canonical).do = do /\ ~Command(do, Canonical).restores
        /\ Lenient(do, Canonical).do = do /\ ~Lenient(do, Canonical).restores
    BY DEF Command, Lenient
  <2> QED BY <1>0, <2>2, <2>3 DEF Mending
<1>2. /\ <<Lenient("drop-two", Canonical)>> \in Seq(P) /\ <<Lenient("drop-previous", Canonical)>> \in Seq(P)
      /\ <<Command("write-planned", Canonical)>> \in Seq(P) /\ <<>> \in Seq(P)
  BY <1>1
<1>3. CASE tx.prior # None
  <2>1. <<Command("write-prior", Canonical)>> \in Seq(P)
    BY <1>1, <1>3
  <2>2. Only(tx.prior.format = 1, <<Lenient("drop-two", Canonical)>>) \in Seq(P)
    BY <1>2, OnlyFits
  <2> DEFINE all == <<Command("write-prior", Canonical)>>
                    \o Only(tx.prior.format = 1, <<Lenient("drop-two", Canonical)>>)
                    \o <<Lenient("drop-previous", Canonical)>>
  <2>3. all \in Seq(P)
    BY <1>2, <2>1, <2>2, ConcatFits
  <2>4. Mend(m) \in {<<>>, Only(Owns(m, tx.prior), all)}
    BY <1>3 DEF Mend
  <2> HIDE DEF all
  <2>5. Only(Owns(m, tx.prior), all) \in Seq(P)
    BY <2>3, OnlyFits
  <2> QED BY <1>0, <1>2, <2>4, <2>5
<1>4. CASE tx.prior = None
  <2>1. Mend(m) \in {<<>>, <<Command("write-planned", Canonical)>>, <<Lenient("drop-two", Canonical)>>}
    BY <1>4 DEF Mend
  <2> QED BY <1>0, <1>2, <2>1
<1> QED BY <1>3, <1>4

LEMMA MendBrings ==
  ASSUME NEW m, NEW x, NEW platform
  PROVE  Restoring(Mend(m), tx) /\ Mend(m) \in Seq(Bringing(x, platform))
<1>1. Mending(tx.prior) \subseteq Idle(tx) /\ Mending(tx.prior) \subseteq Bringing(x, platform)
  <2> SUFFICES ASSUME NEW step \in Mending(tx.prior) PROVE step \in Idle(tx) /\ step \in Bringing(x, platform)
    OBVIOUS
  <2>1. step \in Steps(tx.prior, {Canonical}) /\ ~step.restores
    BY DEF Mending, Plain
  <2>2. step.do \notin Lowering /\ \A p : step.do \notin Raising(p)
    BY DEF Mending, Lowering, Raising
  <2>3. <<step.do, step.to>> \notin RaisesCommands(tx)
    BY <2>2 DEF RaisesCommands
  <2> QED BY <2>1, <2>2, <2>3 DEF Idle, Bringing, Steps
<1>2. Mend(m) \in Seq(Idle(tx)) /\ Mend(m) \in Seq(Bringing(x, platform))
  BY <1>1, MendsRecords, SeqMonotonic
<1> QED BY <1>2, RestoringParts

LEMMA CleanupBrings ==
  ASSUME NEW t, NEW s,
         s = [i \in 1..5 |-> [WindowsUninstall(Canonical)[i] EXCEPT !.on = IF @ = "throw" THEN "cleanup" ELSE @]]
  PROVE  s \in Seq(Idle(t))
<1> DEFINE w == <<Command("quiesce", Canonical), Lenient("stop", Canonical), Command("undefine", Canonical),
                  Command("forget", Canonical), Command("wipe", Canonical)>>
<1>1. \A do \in {"quiesce", "stop", "undefine", "forget", "wipe"} :
        Command(do, Canonical) \in Idle(t) /\ Lenient(do, Canonical) \in Idle(t)
  <2>1. \A do \in {"quiesce", "stop", "undefine", "forget", "wipe"} :
          do \in Verbs /\ do \notin {"backup", "write-prior"} /\ do \notin Lowering /\ \A p : do \notin Raising(p)
    BY DEF Verbs, Lowering, Raising
  <2> HIDE DEF Verbs, Lowering, Raising
  <2> QED BY <2>1, IdleCommand
<1>2. Len(w) = 5 /\ DOMAIN w = 1..5 /\ WindowsUninstall(Canonical) = In("after", w)
  BY DEF WindowsUninstall
<1>3. \A i \in 1..5 : w[i] \in Idle(t)
  <2>1. w \in Seq(Idle(t))
    BY <1>1
  <2> QED BY <1>2, <2>1, ElementOfSeq
<1> HIDE DEF w
<1>4. \A i \in 1..5 : WindowsUninstall(Canonical)[i] = [w[i] EXCEPT !.in = "after"]
  BY <1>2 DEF In
<1>5. \A i \in 1..5 : WindowsUninstall(Canonical)[i] \in Idle(t)
  <2>1. "after" \in Blocks
    BY DEF Blocks
  <2>2. \A step \in Idle(t) : \A block \in Blocks : [step EXCEPT !.in = block] \in Idle(t)
    BY IdleExcept
  <2>3. \A step \in Idle(t) : [step EXCEPT !.in = "after"] \in Idle(t)
    BY <2>1, <2>2
  <2> QED BY <1>3, <1>4, <2>3
<1>6. ASSUME NEW p \in Idle(t)
      PROVE  [p EXCEPT !.on = IF @ = "throw" THEN "cleanup" ELSE @] \in Idle(t)
  <2> DEFINE on == IF p.on = "throw" THEN "cleanup" ELSE p.on
  <2>1. on \in Answers
    BY DEF Idle, Steps, Fields, Answers
  <2> HIDE DEF on
  <2>2. [p EXCEPT !.on = on] \in Idle(t)
    BY <2>1, IdleExcept
  <2> QED BY <2>2 DEF on
<1>7. \A i \in 1..5 : s[i] \in Idle(t)
  BY <1>5, <1>6
<1>8. s = [i \in 1..5 |-> s[i]] /\ 5 \in Nat
  OBVIOUS
<1> QED BY <1>7, <1>8, SeqFits

LEMMA HandBackRestores ==
  ASSUME NEW m, tx.legacy \in Seq(LegacySet)
  PROVE  Restoring(HandBack(m), tx)
<1> DEFINE attempted == ReadRecord(m) # None /\ Owns(m, ReadRecord(m))
           before == ReadRecord(tx.before)
           uninstalls == [i \in 1..5 |-> [WindowsUninstall(Canonical)[i] EXCEPT
                                           !.on = IF @ = "throw" THEN "cleanup" ELSE @]]
           keeps == before # None /\ Owns(m, before)
           yields == <<Lenient("stop", Canonical), Lenient("yield", Canonical)>>
           yielding == keeps /\ tx.before.running # Canonical /\ tx.stopped \ {Canonical} # {}
           I == Idle(tx)
           B == Bringer(tx)
<1>1. HandBack(m) = Only(attempted /\ ~keeps, uninstalls) \o Only(yielding, yields) \o Reinstate(tx, "handed-back")
  BY DEF HandBack
<1>2. uninstalls \in Seq(I)
  BY CleanupBrings
<1>3. yields \in Seq(I)
  <2>1. \A do \in {"stop", "yield"} : Lenient(do, Canonical) \in I
    <3>1. \A do \in {"stop", "yield"} :
            do \in Verbs /\ do \notin {"backup", "write-prior"} /\ do \notin Lowering /\ \A p : do \notin Raising(p)
      BY DEF Verbs, Lowering, Raising
    <3> HIDE DEF Verbs, Lowering, Raising, I
    <3> QED BY <3>1, IdleCommand DEF I
  <2> HIDE DEF I
  <2> QED BY <2>1
<1>4. Reinstate(tx, "handed-back") \in Seq(B)
  BY ReinstateBrings
<1> HIDE DEF attempted, keeps, yielding, uninstalls, yields
<1>5. uninstalls \in Seq(B) /\ yields \in Seq(B)
  <2>1. I \subseteq B
    BY IdleIs
  <2> HIDE DEF I, B
  <2> QED BY <1>2, <1>3, <2>1, SeqMonotonic
<1> HIDE DEF B
<1>6. Only(attempted /\ ~keeps, uninstalls) \in Seq(B) /\ Only(yielding, yields) \in Seq(B)
  BY <1>5, OnlyFits
<1>7. HandBack(m) \in Seq(B)
  BY <1>1, <1>4, <1>6, ConcatFits
<1> QED BY <1>7, RestoringParts DEF B

-----------------------------------------------------------------------------
(* The catch block of macOS.                                               *)

LEMMA TakenBack ==
  ASSUME NEW x, NEW u \in Seq(Withdrawn(x))
  PROVE  FlattenSeq(Reverse(u)) \in Seq(Bringing(x, "darwin"))
<1> DEFINE W == {step \in Taking : step.do \in Raising("darwin") => step.to = x}
<1>1. W \subseteq Bringing(x, "darwin")
  <2> SUFFICES ASSUME NEW step \in W PROVE step \in Bringing(x, "darwin")
    OBVIOUS
  <2>1. step \in Fields(Seq(Taking))
    BY StepSets DEF Steps
  <2> QED BY <2>1 DEF Bringing
<1>2. u \in Seq(Seq(W))
  BY DEF Withdrawn
<1> HIDE DEF W
<1>3. FlattenSeq(Reverse(u)) \in Seq(W)
  BY <1>2, ReverseFits, FlattenFits
<1> QED BY <1>1, <1>3, SeqMonotonic

\* The service that was disabled last is enabled first.
LEMMA TakenBackFirst ==
  ASSUME NEW x, NEW u \in Seq(Withdrawn(x)), NEW y \in Service, NEW s,
         s = FlattenSeq(Reverse(Append(u, <<Command("enable", y)>>)))
  PROVE  s # <<>> /\ Head(s) = Command("enable", y) /\ Tail(s) \in Seq(Bringing(x, "darwin"))
<1> DEFINE W == {step \in Taking : step.do \in Raising("darwin") => step.to = x}
           e == Command("enable", y)
           Y == {a \in Seq(Taking) : a # <<>> /\ a[1] = e /\ \A k \in 2..Len(a) : a[k] \in W}
           seqs == Reverse(Append(u, <<e>>))
           n == Len(u) + 1
<1>1. e \in Taking
  <2>1. "enable" \in Verbs \ {"backup", "write-prior"} /\ "enable" \notin {"define", "restore-definition", "undefine", "forget"}
    BY DEF Verbs
  <2> HIDE DEF Verbs
  <2>2. Command("enable", y) \in {step \in Taking : step.do \in Raising("darwin") => step.to = y}
    BY <2>1, WithdrawnCommand
  <2> QED BY <2>2
<1>2. W \subseteq Taking /\ W \subseteq Bringing(x, "darwin")
  <2> SUFFICES ASSUME NEW step \in W PROVE step \in Bringing(x, "darwin")
    OBVIOUS
  <2>1. step \in Fields(Seq(Taking))
    BY StepSets DEF Steps
  <2> QED BY <2>1 DEF Bringing
<1>3. u \in Seq(Seq(W))
  BY DEF Withdrawn
<1> HIDE DEF W, e
<1>4. u \in Seq(Seq(Taking)) /\ <<e>> \in Seq(Taking)
  <2>1. Seq(W) \subseteq Seq(Taking)
    BY <1>2, SeqMonotonic
  <2> QED BY <1>1, <1>3, <2>1, SeqMonotonic
<1>5. /\ Len(seqs) = n /\ seqs[1] = <<e>>
      /\ \A i \in 2..n : seqs[i] \in {u[k] : k \in 1..Len(u)}
  <2>1. PICK g : g = <<e>>
    OBVIOUS
  <2>2. PICK S : S = Seq(Taking)
    OBVIOUS
  <2>3. u \in Seq(S) /\ g \in S
    BY <1>4, <2>1, <2>2
  <2>4. /\ Len(Reverse(Append(u, g))) = Len(u) + 1 /\ Reverse(Append(u, g))[1] = g
        /\ \A i \in 2..(Len(u) + 1) : Reverse(Append(u, g))[i] \in {u[k] : k \in 1..Len(u)}
    BY <2>3, AppendIsBack
  <2> QED BY <2>1, <2>4
<1>6. seqs \in Seq(Seq(Taking)) /\ n \in Nat /\ n # 0
  <2>1. PICK S : S = Seq(Taking)
    OBVIOUS
  <2>2. u \in Seq(S) /\ <<e>> \in S
    BY <1>4, <2>1
  <2>3. Append(u, <<e>>) \in Seq(S) /\ Len(u) \in Nat
    BY <2>2, AppendProperties, LenProperties
  <2>4. seqs \in Seq(S)
    BY <2>3, ReverseFits
  <2> QED BY <2>1, <2>3, <2>4
<1>7. \A i \in 2..n : seqs[i] \in Seq(W)
  <2>1. \A k \in 1..Len(u) : u[k] \in Seq(W)
    BY <1>3, ElementOfSeq
  <2> QED BY <1>5, <2>1
<1> HIDE DEF seqs, n
<1>8. <<e>> \in Y
  <2>1. Len(<<e>>) = 1 /\ <<e>>[1] = e /\ <<e>> # <<>>
    OBVIOUS
  <2> QED BY <1>4, <2>1
<1>9. ASSUME NEW a \in Y, NEW b \in Seq(W) PROVE a \o b \in Y
  <2>1. b \in Seq(Taking) /\ a \in Seq(Taking) /\ Len(a) \in Nat \ {0} /\ Len(b) \in Nat
    BY <1>2, SeqMonotonic
  <2>2. a \o b \in Seq(Taking) /\ Len(a \o b) = Len(a) + Len(b)
        /\ \A k \in 1..(Len(a) + Len(b)) : (a \o b)[k] = IF k <= Len(a) THEN a[k] ELSE b[k - Len(a)]
    BY <2>1, ConcatProperties
  <2>3. (a \o b)[1] = e /\ a \o b # <<>>
    <3>1. 1 \in 1..(Len(a) + Len(b)) /\ 1 <= Len(a)
      BY <2>1
    <3>2. (a \o b)[1] = a[1]
      BY <2>2, <3>1
    <3>3. Len(a \o b) # 0
      BY <2>1, <2>2
    <3> QED BY <3>2, <3>3
  <2>4. ASSUME NEW k \in 2..Len(a \o b) PROVE (a \o b)[k] \in W
    <3>1. k \in 1..(Len(a) + Len(b))
      BY <2>1, <2>2
    <3>2. CASE k <= Len(a)
      <4>1. k \in 2..Len(a)
        BY <2>1, <3>2
      <4> QED BY <2>2, <3>1, <3>2, <4>1
    <3>3. CASE ~(k <= Len(a))
      <4>1. k - Len(a) \in 1..Len(b)
        BY <2>1, <3>1, <3>3
      <4>2. b[k - Len(a)] \in W
        BY <4>1, ElementOfSeq
      <4> QED BY <2>2, <3>1, <3>3, <4>2
    <3> QED BY <3>2, <3>3
  <2> QED BY <2>2, <2>3, <2>4
<1> HIDE DEF Y
<1>10. FlattenSeq(seqs) \in Y
  <2> DEFINE X == [i \in 1..n |-> Y]
  <2>1. \A i \in 1..n : X[i] = Y
    OBVIOUS
  <2>2. 1 \in 1..n /\ n \in 1..n /\ \A i \in 2..n : i \in 1..n /\ i - 1 \in 1..n
    BY <1>6
  <2> HIDE DEF X
  <2>3. seqs[1] \in X[1]
    BY <1>5, <1>8, <2>1, <2>2
  <2>4. \A i \in 2..n : \A a \in X[i - 1] : a \o seqs[i] \in X[i]
    BY <1>7, <1>9, <2>1, <2>2
  <2>5. n = Len(seqs)
    BY <1>5
  <2>6. FlattenSeq(seqs) \in X[n]
    BY <1>6, <2>3, <2>4, <2>5, FlattenSteps
  <2> QED BY <2>1, <2>2, <2>6
<1>11. s \in Y
  BY <1>10 DEF seqs, e
<1>12. s \in Seq(Taking) /\ s # <<>> /\ s[1] = e /\ \A k \in 2..Len(s) : s[k] \in W
  BY <1>11 DEF Y
<1>13. Head(s) = e
  BY <1>12
<1>14. Tail(s) \in Seq(W)
  <2>1. Tail(s) \in Seq(Taking) /\ Len(s) \in Nat \ {0} /\ Len(Tail(s)) = Len(s) - 1
        /\ \A i \in 1..Len(Tail(s)) : Tail(s)[i] = s[i + 1]
    BY <1>12, HeadTailProperties
  <2>2. \A i \in 1..Len(Tail(s)) : i + 1 \in 2..Len(s)
    BY <2>1
  <2>3. \A i \in 1..Len(Tail(s)) : Tail(s)[i] \in W
    BY <1>12, <2>1, <2>2
  <2>4. Tail(s) = [i \in 1..Len(Tail(s)) |-> Tail(s)[i]] /\ Len(Tail(s)) \in Nat
    BY <2>1
  <2> QED BY <2>3, <2>4, SeqFits
<1>15. Tail(s) \in Seq(Bringing(x, "darwin"))
  BY <1>2, <1>14, SeqMonotonic
<1> QED BY <1>12, <1>13, <1>15 DEF e

-----------------------------------------------------------------------------
(* What a command enables and disables.                                    *)

\* Of a machine m, n has no service more enabled than one that was enabled.
Raises(m, n, do, s) ==
  n.platform = m.platform /\ n.enabled \subseteq m.enabled \cup (IF do \in Raising(m.platform) THEN {s} ELSE {})

LEMMA MovesRaise ==
  ASSUME NEW m \in Machine, NEW s \in Service, NEW do \in Verbs, NEW n, Moves(m, n, do, s)
  PROVE  Raises(m, n, do, s)
<1> HIDE DEF Verbs
<1>1. CASE do \in {"enable", "enable-now", "enable-and-run"} /\ Unmoved(Enabled(m, s), n)
  <2>1. Enabled(m, s).platform = m.platform /\ Enabled(m, s).enabled = m.enabled \cup {s}
    BY DEF Machine, Enabled
  <2>2. n.platform = m.platform /\ n.enabled = m.enabled \cup {s}
    BY <1>1, <2>1 DEF Unmoved
  <2>3. do \in Raising(m.platform)
    BY <1>1 DEF Raising
  <2> QED BY <2>2, <2>3 DEF Raises
<1>2. CASE do \in Disabling /\ Unmoved(Disabled(m, s), n)
  <2>1. Disabled(m, s).platform = m.platform /\ Disabled(m, s).enabled = m.enabled \ {s}
    BY DEF Machine, Disabled
  <2>2. n.platform = m.platform /\ n.enabled = m.enabled \ {s}
    BY <1>2, <2>1 DEF Unmoved
  <2> QED BY <2>2 DEF Raises
<1>3. ASSUME NEW format, NEW enabled, n = Redefined(m, s, format, enabled),
             enabled \subseteq m.enabled \cup (IF do \in Raising(m.platform) THEN {s} ELSE {})
      PROVE  Raises(m, n, do, s)
  <2>1. n.platform = m.platform /\ n.enabled = enabled
    BY <1>3, RedefinedLeaves
  <2> QED BY <1>3, <2>1 DEF Raises
<1>4. ASSUME do \in {"define", "restore-definition"}, NEW format,
             n = Redefined(m, s, format, IF m.platform = "win32" THEN m.enabled \cup {s} ELSE m.enabled)
      PROVE  Raises(m, n, do, s)
  <2> DEFINE e == IF m.platform = "win32" THEN m.enabled \cup {s} ELSE m.enabled
  <2>1. n = Redefined(m, s, format, e)
    BY <1>4
  <2>2. m.platform = "win32" => do \in Raising(m.platform)
    BY <1>4 DEF Raising
  <2>3. e \subseteq m.enabled \cup (IF do \in Raising(m.platform) THEN {s} ELSE {})
    BY <2>2
  <2> HIDE DEF e
  <2> QED BY <1>3, <2>1, <2>3
<1>5. ASSUME do = "undefine", n = Redefined(m, s, 0, IF m.platform = "win32" THEN m.enabled \ {s} ELSE m.enabled)
      PROVE  Raises(m, n, do, s)
  <2> DEFINE e == IF m.platform = "win32" THEN m.enabled \ {s} ELSE m.enabled
  <2>1. n = Redefined(m, s, 0, e)
    BY <1>5
  <2>2. e \subseteq m.enabled
    OBVIOUS
  <2>3. e \subseteq m.enabled \cup (IF do \in Raising(m.platform) THEN {s} ELSE {})
    BY <2>2
  <2> HIDE DEF e
  <2> QED BY <1>3, <2>1, <2>3
<1>6. CASE do = "forget" /\ n = [m EXCEPT !.listed = m.listed \ {s}]
  <2>1. n.platform = m.platform /\ n.enabled = m.enabled
    BY <1>6 DEF Machine
  <2> QED BY <2>1 DEF Raises
<1>7. CASE Unmoved(m, n)
  BY <1>7 DEF Raises, Unmoved
<1> QED BY <1>1, <1>2, <1>4, <1>5, <1>6, <1>7 DEF Moves

LEMMA FailureRaises ==
  ASSUME NEW m \in Machine, NEW s \in Service, NEW do \in Verbs, NEW n \in AfterFailure(m, do, s)
  PROVE  Raises(m, n, do, s)
<1>1. CASE n = Effect(m, do, s)
  BY <1>1, EffectMoves, MovesRaise
<1>2. CASE n = m \/ n = [m EXCEPT !.runtime = Mixed]
  <2>1. Unmoved(m, n)
    BY <1>2, FieldsUnmoved
  <2> QED BY <2>1 DEF Raises, Unmoved
<1>3. CASE n = Enabled(m, s) /\ do \in {"enable-now", "enable-and-run"}
  <2>1. Moves(m, n, do, s)
    <3>1. Unmoved(n, n)
      BY DEF Unmoved
    <3> QED BY <1>3, <3>1 DEF Moves
  <2> QED BY <2>1, MovesRaise
<1>4. \/ n = m \/ n = Effect(m, do, s) \/ n = [m EXCEPT !.runtime = Mixed]
      \/ n = Enabled(m, s) /\ do \in {"enable-now", "enable-and-run"}
  <2> HIDE DEF Verbs
  <2> QED BY DEF AfterFailure
<1> QED BY <1>1, <1>2, <1>3, <1>4

\* What is disabled does not start at boot.
LEMMA EffectLowers ==
  ASSUME NEW m \in Machine, NEW s \in Service, NEW do \in Lowering
  PROVE  s \notin Effect(m, do, s).enabled
<1>1. Effect(m, do, s) = Commanded(m, do, s)
  BY DEF Effect, Lowering
<1>2. Commanded(m, do, s) \in {Disabled(m, s), Stopped(Disabled(m, s), s)}
  BY DEF Commanded, Lowering
<1>3. Disabled(m, s).enabled = m.enabled \ {s} /\ Stopped(Disabled(m, s), s).enabled = m.enabled \ {s}
  <2>1. Disabled(m, s) \in Machine /\ Disabled(m, s).enabled = m.enabled \ {s}
    BY CommandsChange DEF Machine, Disabled
  <2>2. Unmoved(Disabled(m, s), Stopped(Disabled(m, s), s))
    BY ManagedUnmoved
  <2> QED BY <2>1, <2>2 DEF Unmoved
<1> QED BY <1>1, <1>2, <1>3

\* What the code notes of what is off.
LEMMA NotedOff ==
  ASSUME tx \in Transaction, NEW step \in Steps(tx.prior, Service)
  PROVE  /\ Tried(step).off = IF phase = "forward" /\ step.do = "enable" THEN tx.off \ {step.to} ELSE tx.off
         /\ Tried(step).disabled = IF phase = "forward" /\ step.do \in Lowering THEN tx.disabled \cup {step.to}
                                                                                ELSE tx.disabled
         /\ Tried(step).restored = tx.restored
         /\ Noted(step).off = Tried(step).off \cup (IF TurnsOff(step) THEN {step.to} ELSE {})
         /\ Noted(step).disabled = Tried(step).disabled
         /\ Noted(step).restored = IF step.restores THEN step.to ELSE tx.restored
         /\ Tried(step).before = tx.before /\ Noted(step).before = tx.before
         /\ Tried(step).unsure = tx.unsure /\ Noted(step).unsure = tx.unsure
<1> DEFINE u == Tried(step)
           n == Noted(step)
<1>1. u \in Transaction
  BY NotedFits
<1>2. /\ u.off = IF phase = "forward" /\ step.do = "enable" THEN tx.off \ {step.to} ELSE tx.off
      /\ u.disabled = IF phase = "forward" /\ step.do \in Lowering THEN tx.disabled \cup {step.to} ELSE tx.disabled
      /\ u.restored = tx.restored /\ u.before = tx.before /\ u.unsure = tx.unsure
  <2> DEFINE disabled == IF phase = "forward" /\ step.do \in {"disable", "disable-now"}
                         THEN tx.disabled \cup {step.to} ELSE tx.disabled
             off == IF phase = "forward" /\ step.do = "enable" THEN tx.off \ {step.to} ELSE tx.off
             mutated == tx.mutated \/ step.do = "runtime"
  <2>1. u = [tx EXCEPT !.disabled = disabled, !.off = off, !.mutated = mutated]
    BY DEF Tried
  <2>2. disabled = (IF phase = "forward" /\ step.do \in Lowering THEN tx.disabled \cup {step.to} ELSE tx.disabled)
    BY DEF Lowering
  <2> HIDE DEF u, disabled, off, mutated
  <2>3. /\ u.off = off /\ u.disabled = disabled /\ u.restored = tx.restored /\ u.before = tx.before
        /\ u.unsure = tx.unsure
    BY <2>1 DEF Transaction
  <2> QED BY <2>2, <2>3 DEF off
<1>3. /\ n.off = u.off \cup (IF TurnsOff(step) THEN {step.to} ELSE {})
      /\ n.disabled = u.disabled /\ n.before = u.before /\ n.unsure = u.unsure
      /\ n.restored = IF step.restores THEN step.to ELSE u.restored
  <2> DEFINE off == IF TurnsOff(step) THEN u.off \cup {step.to} ELSE u.off
             stopped == IF step.do = "quiesce" /\ machine.running = step.to THEN u.stopped \cup {step.to} ELSE u.stopped
             created == u.created \/ step.do = "define"
             answered == u.answered \/ step.do = "ready"
             yielded == u.yielded \/ step.do = "yield"
             restored == IF step.restores THEN step.to ELSE u.restored
  <2>1. n = [u EXCEPT !.off = off, !.stopped = stopped, !.created = created, !.answered = answered,
                      !.yielded = yielded, !.restored = restored]
    BY DEF Noted
  <2>2. off = u.off \cup (IF TurnsOff(step) THEN {step.to} ELSE {})
    OBVIOUS
  <2> HIDE DEF n, u, off, stopped, created, answered, yielded, restored
  <2>3. n.off = off /\ n.disabled = u.disabled /\ n.before = u.before
    BY <1>1, <2>1 DEF Transaction
  <2>4. n.unsure = u.unsure /\ n.restored = restored
    BY <1>1, <2>1 DEF Transaction
  <2> QED BY <2>2, <2>3, <2>4 DEF restored
<1> HIDE DEF u, n
<1>4. u = Tried(step) /\ n = Noted(step)
  BY DEF u, n
<1>5. /\ n.before = tx.before /\ n.unsure = tx.unsure
      /\ n.restored = IF step.restores THEN step.to ELSE tx.restored
  BY <1>2, <1>3
<1> QED BY <1>2, <1>3, <1>4, <1>5

-----------------------------------------------------------------------------
(* The next command on macOS.                                              *)

LEMMA OffFields ==
  /\ \A y : /\ Off(y).do = "disable" /\ Off(y).to = y /\ Off(y).undo = <<Command("enable", y)>>
            /\ Off(y).on = "throw" /\ ~Off(y).clears /\ ~Off(y).discards
  /\ \A y : /\ Quiet(y).do = "quiesce" /\ Quiet(y).to = y /\ Quiet(y).undo = <<>>
            /\ Quiet(y).on = "throw" /\ ~Quiet(y).clears /\ Quiet(y).discards
BY DEF Off, Quiet, Command

LEMMA EnableTaken ==
  ASSUME NEW y \in Service
  PROVE  Command("enable", y) \in Taking /\ <<Command("enable", y)>> \in Seq(Taking) /\ <<Command("enable", y)>> \in Withdrawn(y)
<1>1. "enable" \in Verbs \ {"backup", "write-prior"}
      /\ "enable" \notin {"define", "restore-definition", "undefine", "forget"}
  BY DEF Verbs
<1> HIDE DEF Verbs
<1>2. Command("enable", y) \in {s \in Taking : s.do \in Raising("darwin") => s.to = y}
  BY <1>1, WithdrawnCommand
<1> QED BY <1>2 DEF Withdrawn

LEMMA NextPaired ==
  ASSUME InstallInv, phase = "forward", MacForward, script # <<>>
  PROVE  /\ Paired(Tail(script), Successor(tx), tx.prior)
         /\ \/ Head(script) \in Tame(Successor(tx), tx.prior)
            \/ \E y \in Service :
                 /\ Head(script) = Off(y)
                 /\ y = Successor(tx) \/ (Tail(script) # <<>> /\ Head(Tail(script)) = Quiet(y))
<1>1. script \in Seq(Plain(tx.prior, Service))
  BY DEF InstallInv
<1>2. Paired(script, Successor(tx), tx.prior)
  BY DEF MacForward
<1> QED BY <1>1, <1>2, PairedTail

\* What a command on macOS leaves enabled, disabled and off, if it worked.
Turned(step, e, d, o) ==
  /\ e \subseteq machine.enabled \cup (IF step.do \in Raising("darwin") THEN {step.to} ELSE {})
  /\ d \subseteq tx.disabled \cup (IF step.do \in Lowering THEN {step.to} ELSE {})
  /\ o \subseteq (IF step.do = "enable" THEN tx.off \ {step.to} ELSE tx.off)
                   \cup (IF step.do = "quiesce" /\ step.to \in tx.disabled THEN {step.to} ELSE {})
  /\ step.do \in Lowering => step.to \notin e

LEMMA MacNext ==
  ASSUME InstallInv, phase = "forward", MacForward, tx.off \cap machine.enabled = {}, script # <<>>,
         NEW step, step = Head(script), NEW e, NEW d, NEW o, Turned(step, e, d, o)
  PROVE  /\ o \cap e = {}
         /\ Paired(Tail(script), Successor(tx), tx.prior)
         /\ \A y \in Service :
              /\ Orderly(Tail(script), y, tx.prior)
              /\ y \in d \cap e => ~Has(Tail(script), Asking("quiesce", y, tx.prior))
              /\ y \in o => ~Has(Tail(script), Asking("disable", y, tx.prior))
<1> DEFINE p == tx.prior
           x == Successor(tx)
<1>1. script \in Seq(Plain(p, Service)) /\ step \in Plain(p, Service)
  BY HeadFits DEF InstallInv
<1>2. /\ Paired(script, x, p)
      /\ \A y \in Service :
           /\ Orderly(script, y, p)
           /\ y \in tx.disabled \cap machine.enabled => ~Has(script, Asking("quiesce", y, p))
           /\ y \in tx.off => ~Has(script, Asking("disable", y, p))
  BY DEF MacForward
<1>3. step \in Asking(step.do, step.to, p) /\ step.to \in Service
  BY <1>1 DEF Asking, Giving, Plain, Steps, Fields
<1>4. step.do \in Raising("darwin") => step.do = "enable"
  <2>1. \/ step \in Tame(x, p)
        \/ \E y \in Service : /\ step = Off(y)
                              /\ y = x \/ (Tail(script) # <<>> /\ Head(Tail(script)) = Quiet(y))
    BY NextPaired
  <2>2. CASE step \in Tame(x, p)
    <3>1. step.do \notin Turning
      BY <2>2 DEF Tame, Tamed, Giving, Commanding
    <3> QED BY <3>1 DEF Raising, Turning
  <2>3. CASE \E y \in Service : step = Off(y)
    <3>1. step.do = "disable"
      BY <2>3, OffFields
    <3> QED BY <3>1 DEF Raising
  <2> QED BY <2>1, <2>2, <2>3
<1>5. Paired(Tail(script), x, p)
  BY <1>1, <1>2, PairedTail
<1>6. ASSUME NEW y \in Service
      PROVE  /\ Orderly(Tail(script), y, p)
             /\ ~Has(script, Asking("quiesce", y, p)) => ~Has(Tail(script), Asking("quiesce", y, p))
                                                         /\ step \notin Asking("quiesce", y, p)
             /\ ~Has(script, Asking("disable", y, p)) => ~Has(Tail(script), Asking("disable", y, p))
             /\ step \in Asking("quiesce", y, p) => ~Has(Tail(script), Asking("disable", y, p))
             /\ step \in Asking("enable", y, p) => ~Has(Tail(script), Asking("quiesce", y, p))
  <2>1. /\ Precedes(script, Asking("disable", y, p), Asking("quiesce", y, p))
        /\ Precedes(script, Asking("quiesce", y, p), Asking("enable", y, p))
    BY <1>2 DEF Orderly
  <2>2. \A F, G : /\ Precedes(script, F, G) => Precedes(Tail(script), F, G) /\ (step \in G => ~Has(Tail(script), F))
                  /\ ~Has(script, F) => ~Has(Tail(script), F) /\ step \notin F
    BY <1>1, PrecedesTail
  <2> QED BY <2>1, <2>2 DEF Orderly
<1>7. \A y \in Service : y \in tx.disabled \cap machine.enabled => step \notin Asking("quiesce", y, p)
  BY <1>2, <1>6
<1> USE DEF Turned
<1>8. o \cap e = {}
  <2> SUFFICES ASSUME NEW y \in o, y \in e PROVE FALSE
    OBVIOUS
  <2>1. CASE y \in machine.enabled
    <3>1. y \notin tx.off
      BY <2>1
    <3>2. step.do = "quiesce" /\ y = step.to /\ y \in tx.disabled
      BY <3>1
    <3>3. step \in Asking("quiesce", y, p) /\ y \in Service
      BY <1>3, <3>2
    <3> QED BY <1>7, <2>1, <3>2, <3>3
  <2>2. CASE y \notin machine.enabled
    <3>1. step.do \in Raising("darwin") /\ y = step.to
      BY <2>2
    <3>2. step.do = "enable"
      BY <1>4, <3>1
    <3> QED BY <3>1, <3>2
  <2> QED BY <2>1, <2>2
<1>9. ASSUME NEW y \in Service, y \in d, y \in e PROVE ~Has(Tail(script), Asking("quiesce", y, p))
  <2>1. CASE y \in machine.enabled
    <3>1. y \in tx.disabled
      BY <1>9
    <3> QED BY <1>2, <1>6, <2>1, <3>1
  <2>2. CASE y \notin machine.enabled
    <3>1. step.do \in Raising("darwin") /\ y = step.to
      BY <1>9, <2>2
    <3>2. step \in Asking("enable", y, p)
      BY <1>3, <1>4, <3>1
    <3> QED BY <1>6, <3>2
  <2> QED BY <2>1, <2>2
<1>10. ASSUME NEW y \in Service, y \in o PROVE ~Has(Tail(script), Asking("disable", y, p))
  <2>1. CASE y \in tx.off
    BY <1>2, <1>6, <2>1
  <2>2. CASE y \notin tx.off
    <3>1. step.do = "quiesce" /\ y = step.to
      BY <1>10, <2>2
    <3>2. step \in Asking("quiesce", y, p)
      BY <1>3, <3>1
    <3> QED BY <1>6, <3>2
  <2> QED BY <2>1, <2>2
<1> QED BY <1>5, <1>6, <1>8, <1>9, <1>10

\* What takes back a command, and those before it.
LEMMA MacKept ==
  ASSUME InstallInv, phase = "forward", MacForward, script # <<>>,
         NEW step, step = Head(script), NEW e, NEW d, NEW o, Turned(step, e, d, o)
  PROVE  \E u \in {Kept(step), Front(Kept(step))} :
           /\ u \in Seq(Withdrawn(Successor(tx)))
           /\ \/ Kept(step) = u
              \/ \E y \in Service \ o :
                   /\ Kept(step) = Append(u, <<Command("enable", y)>>)
                   /\ Tail(script) # <<>> /\ Head(Tail(script)) = Quiet(y)
<1> DEFINE p == tx.prior
           x == Successor(tx)
           W == Withdrawn(x)
           k == Kept(step)
<1>1. script \in Seq(Plain(p, Service)) /\ step \in Plain(p, Service)
  BY HeadFits DEF InstallInv
<1>2. PICK u \in {undo, Front(undo)} :
        /\ u \in Seq(W)
        /\ \/ undo = u
           \/ \E y \in Service \ tx.off : undo = Append(u, <<Command("enable", y)>>) /\ step = Quiet(y)
  BY DEF MacForward
<1>3. /\ Paired(script, x, p)
      /\ \A y \in Service : y \in tx.off => ~Has(script, Asking("disable", y, p))
  BY DEF MacForward
<1>4. \/ step \in Tame(x, p)
      \/ \E y \in Service : /\ step = Off(y)
                            /\ y = x \/ (Tail(script) # <<>> /\ Head(Tail(script)) = Quiet(y))
  BY NextPaired
<1> HIDE DEF W
<1>5. ASSUME NEW y \in Service, undo = Append(u, <<Command("enable", y)>>), step = Quiet(y)
      PROVE  k = u
  <2>1. step.undo = <<>> /\ ~step.clears /\ step.discards
    BY <1>5, OffFields
  <2>2. k = Front(undo)
    BY <2>1 DEF Kept
  <2>3. Front(undo) = u
    <3>1. u \in Seq(Seq(Taking)) /\ <<Command("enable", y)>> \in Seq(Taking)
      <4>1. W \subseteq Seq(Taking)
        <5> DEFINE V == {s \in Taking : s.do \in Raising("darwin") => s.to = x}
        <5>1. V \subseteq Taking
          OBVIOUS
        <5> HIDE DEF V
        <5>2. Seq(V) \subseteq Seq(Taking)
          BY <5>1, SeqMonotonic
        <5> QED BY <5>2 DEF W, Withdrawn, V
      <4>2. u \in Seq(Seq(Taking))
        BY <1>2, <4>1, SeqMonotonic
      <4> QED BY <4>2, EnableTaken
    <3>2. PICK S : S = Seq(Taking)
      OBVIOUS
    <3>3. PICK g : g = <<Command("enable", y)>>
      OBVIOUS
    <3>4. u \in Seq(S) /\ g \in S
      BY <3>1, <3>2, <3>3
    <3>5. Front(Append(u, g)) = u
      BY <3>4, AppendIsBack
    <3> QED BY <1>5, <3>3, <3>5
  <2> QED BY <2>2, <2>3
<1>6. ASSUME undo = u, step \in Tame(x, p) PROVE k \in Seq(W)
  <2>1. step.undo \in W
    BY <1>6 DEF Tame, Tamed, W
  <2> DEFINE ways == IF step.clears THEN <<>> ELSE IF step.discards THEN Front(undo) ELSE undo
  <2>2. ways \in Seq(W)
    BY <1>2, <1>6, FrontFits, EmptySeq
  <2>3. k = ways \/ k = Append(ways, step.undo)
    BY DEF Kept
  <2> HIDE DEF ways
  <2>4. Append(ways, step.undo) \in Seq(W)
    BY <2>1, <2>2, AppendProperties
  <2> QED BY <2>2, <2>3, <2>4
<1>7. ASSUME undo = u, NEW y \in Service, step = Off(y) PROVE k = Append(u, <<Command("enable", y)>>) /\ y \notin o
  <2>1. step.undo = <<Command("enable", y)>> /\ ~step.clears /\ ~step.discards /\ step.do = "disable" /\ step.to = y
    BY <1>7, OffFields
  <2>2. k = Append(u, <<Command("enable", y)>>)
    <3>1. \A c : <<c>> # <<>>
      OBVIOUS
    <3>2. step.undo # <<>>
      BY <2>1, <3>1
    <3> QED BY <1>7, <2>1, <3>2 DEF Kept
  <2>3. y \notin tx.off
    <3>1. step \in Asking("disable", y, p)
      BY <1>1, <2>1 DEF Asking, Giving
    <3>2. ~Has(script, Asking("disable", y, p)) => step \notin Asking("disable", y, p)
      BY <1>1, PrecedesTail
    <3> QED BY <1>3, <3>1, <3>2
  <2>4. o \subseteq tx.off
    BY <2>1 DEF Turned
  <2> QED BY <2>2, <2>3, <2>4
<1>8. CASE undo = u /\ step \in Tame(x, p)
  <2>1. k \in Seq(W)
    BY <1>6, <1>8
  <2> HIDE DEF k
  <2> QED BY <2>1 DEF W, k
<1>9. CASE undo = u /\ \E y \in Service : step = Off(y)
  <2>1. PICK y \in Service : step = Off(y)
    BY <1>9
  <2>2. k = Append(u, <<Command("enable", y)>>) /\ y \notin o
    BY <1>7, <1>9, <2>1
  <2>3. CASE y = x
    <3>1. <<Command("enable", y)>> \in W
      <4> HIDE DEF x
      <4> QED BY <2>3, EnableTaken DEF W
    <3>2. k \in Seq(W)
      <4>1. PICK g \in W : g = <<Command("enable", y)>>
        BY <3>1
      <4>2. u \in Seq(W) /\ k = Append(u, g)
        BY <1>2, <2>2, <4>1
      <4> HIDE DEF k
      <4> QED BY <4>2, AppendProperties
    <3> HIDE DEF k
    <3> QED BY <3>2 DEF W, k
  <2>4. CASE y # x
    <3>1. Tail(script) # <<>> /\ Head(Tail(script)) = Quiet(y)
      <4>1. step \notin Tame(x, p)
        <5>1. step.do = "disable"
          BY <2>1, OffFields
        <5> QED BY <5>1 DEF Tame, Tamed, Giving, Commanding, Turning
      <4>2. PICK z \in Service : step = Off(z) /\ (z = x \/ (Tail(script) # <<>> /\ Head(Tail(script)) = Quiet(z)))
        BY <1>4, <4>1
      <4>3. z = y
        <5>1. step.to = y /\ step.to = z
          BY <2>1, <4>2, OffFields
        <5> QED BY <5>1
      <4> QED BY <2>4, <4>2, <4>3
    <3>2. Front(k) = u
      <4>1. PICK g \in Seq(Taking) : g = <<Command("enable", y)>>
        BY EnableTaken
      <4>2. PICK S : S = W \cup Seq(Taking)
        OBVIOUS
      <4>3. u \in Seq(S) /\ g \in S
        BY <1>2, <4>1, <4>2, SeqMonotonic
      <4>4. Front(Append(u, g)) = u
        BY <4>3, AppendIsBack
      <4> QED BY <2>2, <4>1, <4>4
    <3> HIDE DEF k
    <3> QED BY <1>2, <2>2, <3>1, <3>2 DEF W, k
  <2> QED BY <2>3, <2>4
<1>10. CASE \E y \in Service \ tx.off : undo = Append(u, <<Command("enable", y)>>) /\ step = Quiet(y)
  <2>1. k = u
    BY <1>5, <1>10
  <2> HIDE DEF k
  <2> QED BY <1>2, <2>1 DEF W, k
<1> QED BY <1>2, <1>4, <1>8, <1>9, <1>10

-----------------------------------------------------------------------------
(* The invariant behind AtMostOneRestored, action by action.               *)

\* What it says of a transaction depends on what the transaction began with.
LEMMA SameSays ==
  ASSUME Same(tx')
  PROVE  /\ tx'.prior = tx.prior /\ tx'.before = tx.before /\ tx'.kind = tx.kind
         /\ Converges' <=> Converges
         /\ Spared(tx') <=> Spared(tx)
         /\ Contested(tx') = Contested(tx) /\ Successor(tx') = Successor(tx)
         /\ Rises(tx') = Rises(tx) /\ Alone(tx') = Alone(tx) /\ Calm(tx') = Calm(tx)
<1>1. tx'.prior = tx.prior /\ tx'.before = tx.before /\ tx'.kind = tx.kind /\ tx'.restart = tx.restart
  BY DEF Same
<1>2. /\ Converges' <=> Converges
      /\ Spared(tx') <=> Spared(tx)
  BY <1>1 DEF Converges, Spared
<1>3. Contested(tx') = Contested(tx)
  BY <1>2 DEF Contested
<1>4. Successor(tx') = Successor(tx)
  BY <1>1 DEF Successor, Winner
<1>5. Rises(tx') = Rises(tx)
  BY <1>1, <1>3 DEF Rises, RaisesCommands
<1>6. Alone(tx') = Alone(tx)
  BY <1>5 DEF Alone
<1>7. Calm(tx') = Calm(tx)
  BY <1>1, <1>3, <1>5, <1>6 DEF Calm
<1> QED BY <1>1, <1>2, <1>3, <1>4, <1>5, <1>6, <1>7

LEMMA MacOn ==
  ASSUME InstallInv, phase = "forward", MacForward, tx.off \cap machine.enabled = {}, script # <<>>,
         script' = Tail(script), Same(tx'), NEW step, step = Head(script), undo' = Kept(step),
         Turned(step, machine'.enabled, tx'.disabled, tx'.off)
  PROVE  MacForward' /\ tx'.off \cap machine'.enabled = {}
<1>1. tx'.prior = tx.prior /\ Successor(tx') = Successor(tx)
  BY SameSays
<1>2. /\ tx'.off \cap machine'.enabled = {}
      /\ Paired(Tail(script), Successor(tx), tx.prior)
      /\ \A y \in Service :
           /\ Orderly(Tail(script), y, tx.prior)
           /\ y \in tx'.disabled \cap machine'.enabled => ~Has(Tail(script), Asking("quiesce", y, tx.prior))
           /\ y \in tx'.off => ~Has(Tail(script), Asking("disable", y, tx.prior))
  BY MacNext
<1>3. \E u \in {Kept(step), Front(Kept(step))} :
        /\ u \in Seq(Withdrawn(Successor(tx)))
        /\ \/ Kept(step) = u
           \/ \E y \in Service \ tx'.off :
                /\ Kept(step) = Append(u, <<Command("enable", y)>>)
                /\ Tail(script) # <<>> /\ Head(Tail(script)) = Quiet(y)
  BY MacKept
<1>4. /\ Paired(script', Successor(tx'), tx'.prior)
      /\ \A y \in Service :
           /\ Orderly(script', y, tx'.prior)
           /\ y \in tx'.disabled \cap machine'.enabled => ~Has(script', Asking("quiesce", y, tx'.prior))
           /\ y \in tx'.off => ~Has(script', Asking("disable", y, tx'.prior))
  BY <1>1, <1>2
<1>5. \E u \in {undo', Front(undo')} :
        /\ u \in Seq(Withdrawn(Successor(tx')))
        /\ \/ undo' = u
           \/ \E y \in Service \ tx'.off :
                /\ undo' = Append(u, <<Command("enable", y)>>)
                /\ script' # <<>> /\ Head(script') = Quiet(y)
  BY <1>1, <1>3
<1> QED BY <1>2, <1>4, <1>5 DEF MacForward

\* A command that is skipped, or that may fail, is none that disables a job.
LEMMA MacBy ==
  ASSUME InstallInv, phase = "forward", MacForward, tx.off \cap machine.enabled = {}, script # <<>>,
         script' = Tail(script), Same(tx'), NEW step, step = Head(script), undo' = undo,
         step.when # "always" \/ step.on # "throw",
         machine'.enabled \subseteq machine.enabled \cup (IF step.do \in Raising("darwin") THEN {step.to} ELSE {}),
         tx'.disabled \subseteq tx.disabled \cup (IF step.do \in Lowering THEN {step.to} ELSE {}),
         tx'.off \subseteq tx.off, tx'.off \cap machine'.enabled = {}
  PROVE  MacForward'
<1>1. tx'.prior = tx.prior /\ Successor(tx') = Successor(tx)
  BY SameSays
<1>2. \A y \in Service : step # Off(y) /\ step # Quiet(y)
  <2>1. \A y \in Service : Off(y).when = "always" /\ Off(y).on = "throw" /\ Quiet(y).when = "always" /\ Quiet(y).on = "throw"
    BY OffIs
  <2> QED BY <2>1
<1>3. step \in Tame(Successor(tx), tx.prior)
  BY <1>2, NextPaired
<1>4. step.do \notin Turning
  <2>1. step \in Giving(Commanding(Turning), tx.prior)
    BY <1>3 DEF Tame, Tamed
  <2>2. <<step.do, step.to>> \in Commanding(Turning)
    BY <2>1 DEF Giving
  <2> QED BY <2>2 DEF Commanding
<1> DEFINE e == machine'.enabled
           d == tx'.disabled
<1>5. /\ e \subseteq machine.enabled \cup (IF step.do \in Raising("darwin") THEN {step.to} ELSE {})
      /\ d \subseteq tx.disabled \cup (IF step.do \in Lowering THEN {step.to} ELSE {})
      /\ step.do \notin Lowering
  BY <1>4 DEF Turning, Lowering
<1> HIDE DEF e, d
<1>6. /\ Paired(Tail(script), Successor(tx), tx.prior)
      /\ \A y \in Service :
           /\ Orderly(Tail(script), y, tx.prior)
           /\ y \in d \cap e => ~Has(Tail(script), Asking("quiesce", y, tx.prior))
  <2> DEFINE o == {}
  <2>1. o \subseteq (IF step.do = "enable" THEN tx.off \ {step.to} ELSE tx.off)
                      \cup (IF step.do = "quiesce" /\ step.to \in tx.disabled THEN {step.to} ELSE {})
    OBVIOUS
  <2> HIDE DEF o
  <2>2. Turned(step, e, d, o)
    BY <1>5, <2>1 DEF Turned
  <2> QED BY <2>2, MacNext
<1>7. \A y \in Service : y \in tx.off => ~Has(Tail(script), Asking("disable", y, tx.prior))
  <2> SUFFICES ASSUME NEW y \in Service, y \in tx.off PROVE ~Has(Tail(script), Asking("disable", y, tx.prior))
    OBVIOUS
  <2>1. ~Has(script, Asking("disable", y, tx.prior))
    BY DEF MacForward
  <2>2. script \in Seq(Plain(tx.prior, Service))
    BY DEF InstallInv
  <2> QED BY <2>1, <2>2, PrecedesTail
<1>8. undo \in Seq(Withdrawn(Successor(tx)))
  <2>1. PICK u \in {undo, Front(undo)} :
          /\ u \in Seq(Withdrawn(Successor(tx)))
          /\ undo = u \/ \E y \in Service \ tx.off : script # <<>> /\ Head(script) = Quiet(y)
    BY DEF MacForward
  <2> QED BY <1>2, <2>1
<1>9. /\ Paired(script', Successor(tx'), tx'.prior)
      /\ \A y \in Service :
           /\ Orderly(script', y, tx'.prior)
           /\ y \in tx'.disabled \cap machine'.enabled => ~Has(script', Asking("quiesce", y, tx'.prior))
           /\ y \in tx'.off => ~Has(script', Asking("disable", y, tx'.prior))
  BY <1>1, <1>6, <1>7 DEF e, d
<1>10. undo' \in Seq(Withdrawn(Successor(tx')))
  BY <1>1, <1>8
<1> QED BY <1>9, <1>10 DEF MacForward

\* A transaction that is not taken back any more, or whose rollback failed too,
\* leaves off only what is contested.
LEMMA OffOtherwise ==
  ASSUME Same(tx'),
         Converges /\ ~tx'.unsure => /\ tx'.off \subseteq Contested(tx)
                                     /\ phase' = "rest" /\ (outcome' = "failed" => \E x \in Service : tx'.off \cap machine'.enabled \subseteq {x})
  PROVE  OffInv'
<1>1. (Converges' <=> Converges) /\ Contested(tx') = Contested(tx)
  BY SameSays
<1> SUFFICES ASSUME Converges', ~tx'.unsure
             PROVE  /\ tx'.off \subseteq Contested(tx')
                    /\ phase' \notin {"forward", "rollback", "mend", "hand-back"}
                    /\ outcome' = "failed" => \E x \in Service : tx'.off \cap machine'.enabled \subseteq {x}
  BY DEF OffInv
<1> QED BY <1>1

\* A script goes on, forward.
LEMMA OffOn ==
  ASSUME Same(tx'), phase' = "forward",
         Converges /\ ~tx'.unsure =>
           /\ tx'.off \subseteq Contested(tx) /\ tx'.off \cap machine'.enabled = {}
           /\ IF machine'.platform = "darwin" THEN MacForward'
              ELSE tx'.off \subseteq LegacySet /\ script' \in Seq(Giving(Lawful, tx.prior))
  PROVE  OffInv'
<1>1. (Converges' <=> Converges) /\ Contested(tx') = Contested(tx) /\ tx'.prior = tx.prior
  BY SameSays
<1> SUFFICES ASSUME Converges', ~tx'.unsure
             PROVE  /\ tx'.off \subseteq Contested(tx')
                    /\ tx'.off \cap machine'.enabled = {}
                    /\ IF machine'.platform = "darwin" THEN MacForward'
                       ELSE tx'.off \subseteq LegacySet /\ script' \in Seq(Giving(Lawful, tx'.prior))
  BY DEF OffInv
<1> QED BY <1>1

\* What is being taken back.
LEMMA OffBack ==
  ASSUME Same(tx'), phase' \in {"rollback", "mend", "hand-back"},
         Converges /\ ~tx'.unsure =>
           /\ tx'.off \subseteq Contested(tx)
           /\ Restores' \/ (~Spared(tx) /\ \E x \in Service : Returns(x)')
  PROVE  OffInv'
<1>1. (Converges' <=> Converges) /\ Contested(tx') = Contested(tx) /\ (Spared(tx') <=> Spared(tx))
  BY SameSays
<1> SUFFICES ASSUME Converges', ~tx'.unsure
             PROVE  /\ tx'.off \subseteq Contested(tx')
                    /\ phase' \notin {"forward", "rest"}
                    /\ Restores' \/ (~Spared(tx') /\ \E x \in Service : Returns(x)')
  BY DEF OffInv
<1> QED BY <1>1

\* With nothing off that is enabled, or only what is restored.
LEMMA RestoresNext ==
  ASSUME Same(tx'), Restoring(script', tx), tx'.off \cap machine'.enabled \subseteq {tx'.restored}
  PROVE  Restores'
<1>1. Calm(tx') = Calm(tx) /\ Rises(tx') = Rises(tx) /\ Alone(tx') = Alone(tx)
  BY SameSays
<1> QED BY <1>1 DEF Restores, Restoring

LEMMA ContestedIs ==
  ASSUME NEW t
  PROVE  /\ Contested(t) \subseteq Service /\ LegacySet \subseteq Contested(t)
         /\ ~Spared(t) => Contested(t) = Service
         /\ Canonical \in Contested(t) => ~Spared(t)
BY TargetsAssumption DEF Contested, Service

LEMMA SkipStepOff ==
  ASSUME InstallInv, OffInv, SkipStep
  PROVE  OffInv'
<1>1. /\ machine' = machine /\ tx' = tx /\ phase' = phase /\ outcome' = outcome /\ undo' = undo
      /\ phase # "rest" /\ script # <<>> /\ script' = Tail(script) /\ ~Applies(Head(script))
  BY DEF SkipStep
<1> DEFINE step == Head(script)
<1>2. step.when # "always"
  BY <1>1 DEF Applies
<1>3. Same(tx')
  BY <1>1 DEF Same
<1>4. CASE phase = "forward"
  <2> SUFFICES ASSUME Converges, ~tx.unsure
               PROVE  /\ tx.off \subseteq Contested(tx) /\ tx.off \cap machine.enabled = {}
                      /\ IF machine.platform = "darwin" THEN MacForward'
                         ELSE tx.off \subseteq LegacySet /\ script' \in Seq(Giving(Lawful, tx.prior))
    BY <1>1, <1>3, <1>4, OffOn
  <2>1. /\ tx.off \subseteq Contested(tx) /\ tx.off \cap machine.enabled = {}
        /\ IF machine.platform = "darwin" THEN MacForward
           ELSE tx.off \subseteq LegacySet /\ script \in Seq(Giving(Lawful, tx.prior))
    BY <1>4 DEF OffInv
  <2>2. ASSUME MacForward PROVE MacForward'
    <3> HIDE DEF step
    <3>1. /\ machine'.enabled \subseteq machine.enabled /\ tx'.disabled \subseteq tx.disabled /\ tx'.off \subseteq tx.off
          /\ tx'.off \cap machine'.enabled = {}
      BY <1>1, <2>1
    <3>2. /\ machine'.enabled \subseteq machine.enabled \cup (IF step.do \in Raising("darwin") THEN {step.to} ELSE {})
          /\ tx'.disabled \subseteq tx.disabled \cup (IF step.do \in Lowering THEN {step.to} ELSE {})
      BY <3>1
    <3> QED BY <1>1, <1>2, <1>3, <1>4, <2>1, <2>2, <3>1, <3>2, MacBy DEF step
  <2>3. script \in Seq(Giving(Lawful, tx.prior)) => script' \in Seq(Giving(Lawful, tx.prior))
    BY <1>1, HeadTailProperties
  <2> QED BY <2>1, <2>2, <2>3
<1>5. CASE phase # "forward"
  <2>1. phase \in {"rollback", "mend", "hand-back"}
    BY <1>1, <1>5, Bounds
  <2> SUFFICES ASSUME Converges, ~tx.unsure
               PROVE  /\ tx.off \subseteq Contested(tx)
                      /\ Restores' \/ (~Spared(tx) /\ \E x \in Service : Returns(x)')
    BY <1>1, <1>3, <2>1, OffBack
  <2>2. /\ tx.off \subseteq Contested(tx)
        /\ Restores \/ (~Spared(tx) /\ \E x \in Service : Returns(x))
    BY <2>1 DEF OffInv
  <2>3. CASE Restores
    <3>1. /\ tx.off \cap machine.enabled \subseteq {tx.restored}
          /\ script \in Seq(Calm(tx)) /\ Precedes(script, Rises(tx), Alone(tx))
      BY <2>3 DEF Restores
    <3>2. Tail(script) \in Seq(Calm(tx)) /\ Precedes(Tail(script), Rises(tx), Alone(tx))
      BY <1>1, <3>1, HeadTailProperties, PrecedesTail
    <3>3. Restoring(script', tx)
      BY <1>1, <3>2 DEF Restoring
    <3> QED BY <1>1, <1>3, <2>2, <3>1, <3>3, RestoresNext
  <2>4. CASE ~Spared(tx) /\ \E x \in Service : Returns(x)
    <3>1. PICK x \in Service : Returns(x)
      BY <2>4
    <3>2. tx.off \cap machine.enabled \subseteq {x} /\ Tail(script) \in Seq(Bringing(x, machine.platform))
      BY <1>1, <3>1 DEF Returns
    <3>3. Returns(x)'
      <4>1. Tail(script) = <<>> \/ (Head(Tail(script)) \in Bringing(x, machine.platform)
                                   /\ Tail(Tail(script)) \in Seq(Bringing(x, machine.platform)))
        BY <3>2, HeadTailProperties
      <4> QED BY <1>1, <3>2, <4>1 DEF Returns
    <3> QED BY <2>2, <2>4, <3>3
  <2> QED BY <2>2, <2>3, <2>4
<1> QED BY <1>4, <1>5

-----------------------------------------------------------------------------

\* A command that works enables and disables what it says.
LEMMA SucceedTurns ==
  ASSUME InstallInv, Succeed, NEW step, step = Head(script)
  PROVE  /\ step \in Steps(tx.prior, Service) /\ Same(tx')
         /\ machine'.platform = machine.platform
         /\ machine'.enabled \subseteq machine.enabled \cup (IF step.do \in Raising(machine.platform) THEN {step.to} ELSE {})
         /\ step.do \in Lowering => step.to \notin machine'.enabled
         /\ tx'.off = (IF phase = "forward" /\ step.do = "enable" THEN tx.off \ {step.to} ELSE tx.off)
                        \cup (IF TurnsOff(step) THEN {step.to} ELSE {})
         /\ tx'.disabled = IF phase = "forward" /\ step.do \in Lowering THEN tx.disabled \cup {step.to} ELSE tx.disabled
         /\ tx'.restored = IF step.restores THEN step.to ELSE tx.restored
         /\ tx'.unsure = tx.unsure
<1>1. /\ script # <<>> /\ machine' = Effect(machine, step.do, step.to) /\ tx' = Noted(step)
  BY DEF Succeed
<1>2. step \in Steps(tx.prior, Service)
  BY <1>1, HeadFits
<1>3. step.do \in Verbs /\ step.to \in Service
  BY <1>2 DEF Steps, Fields
<1>4. machine \in Machine /\ tx \in Transaction
  BY Bounds
<1>5. Same(Noted(step))
  BY <1>2, <1>4, NotedSame
<1>6. Raises(machine, machine', step.do, step.to)
  <2>1. Moves(machine, Effect(machine, step.do, step.to), step.do, step.to)
    BY <1>3, <1>4, EffectMoves
  <2> QED BY <1>1, <1>3, <1>4, <2>1, MovesRaise
<1>7. step.do \in Lowering => step.to \notin machine'.enabled
  BY <1>1, <1>3, <1>4, EffectLowers
<1>8. /\ Tried(step).off = IF phase = "forward" /\ step.do = "enable" THEN tx.off \ {step.to} ELSE tx.off
      /\ Tried(step).disabled = IF phase = "forward" /\ step.do \in Lowering THEN tx.disabled \cup {step.to} ELSE tx.disabled
      /\ Noted(step).off = Tried(step).off \cup (IF TurnsOff(step) THEN {step.to} ELSE {})
      /\ Noted(step).disabled = Tried(step).disabled
      /\ Noted(step).restored = IF step.restores THEN step.to ELSE tx.restored
      /\ Noted(step).unsure = tx.unsure
  BY <1>2, <1>4, NotedOff
<1>9. Same(tx')
  BY <1>1, <1>5 DEF Same
<1> QED BY <1>1, <1>2, <1>6, <1>7, <1>8, <1>9 DEF Raises

\* Forward, a command enables nothing that stays off.
LEMMA SucceedForward ==
  ASSUME InstallInv, OwnerInv, OffInv, Succeed, phase = "forward"
  PROVE  OffInv'
<1>1. PICK step : step = Head(script)
  OBVIOUS
<1>2. /\ script # <<>> /\ undo' = Kept(step) /\ script' = Tail(script) /\ phase' = "forward"
  BY <1>1 DEF Succeed
<1>3. /\ step \in Steps(tx.prior, Service) /\ Same(tx')
      /\ machine'.platform = machine.platform
      /\ machine'.enabled \subseteq machine.enabled \cup (IF step.do \in Raising(machine.platform) THEN {step.to} ELSE {})
      /\ step.do \in Lowering => step.to \notin machine'.enabled
      /\ tx'.off = (IF phase = "forward" /\ step.do = "enable" THEN tx.off \ {step.to} ELSE tx.off)
                     \cup (IF TurnsOff(step) THEN {step.to} ELSE {})
      /\ tx'.disabled = IF phase = "forward" /\ step.do \in Lowering THEN tx.disabled \cup {step.to} ELSE tx.disabled
      /\ tx'.unsure = tx.unsure
  BY <1>1, SucceedTurns
<1> SUFFICES ASSUME Converges, ~tx.unsure
             PROVE  /\ tx'.off \subseteq Contested(tx) /\ tx'.off \cap machine'.enabled = {}
                    /\ IF machine'.platform = "darwin" THEN MacForward'
                       ELSE tx'.off \subseteq LegacySet /\ script' \in Seq(Giving(Lawful, tx.prior))
  BY <1>2, <1>3, OffOn
<1>4. /\ tx.off \subseteq Contested(tx) /\ tx.off \cap machine.enabled = {}
      /\ IF machine.platform = "darwin" THEN MacForward
         ELSE tx.off \subseteq LegacySet /\ script \in Seq(Giving(Lawful, tx.prior))
  BY DEF OffInv
<1>5. CASE machine.platform = "darwin"
  <2>1. Turned(step, machine'.enabled, tx'.disabled, tx'.off)
    BY <1>3, <1>5 DEF Turned, TurnsOff
  <2>2. MacForward' /\ tx'.off \cap machine'.enabled = {}
    BY <1>1, <1>2, <1>3, <1>4, <1>5, <2>1, MacOn
  <2>3. tx'.off \subseteq Contested(tx)
    <3>1. ~Spared(tx)
      BY <1>5 DEF Spared, OwnerInv
    <3>2. step.to \in Service
      BY <1>3 DEF Steps, Fields
    <3> QED BY <1>3, <1>4, <3>1, <3>2, ContestedIs
  <2> QED BY <1>3, <1>5, <2>2, <2>3
<1>6. CASE machine.platform # "darwin"
  <2>1. /\ tx.off \subseteq LegacySet /\ script \in Seq(Giving(Lawful, tx.prior))
    BY <1>4, <1>6
  <2>2. script' \in Seq(Giving(Lawful, tx.prior)) /\ step \in Giving(Lawful, tx.prior)
    BY <1>1, <1>2, <2>1, HeadTailProperties
  <2>3. step.do \in Lowering => step.to \in LegacySet
    BY <2>2 DEF Giving, Lawful
  <2>4. step.do \in Raising(machine.platform) => step.do = "enable" \/ step.to = Canonical
    BY <2>2 DEF Giving, Lawful, Raising
  <2>5. TurnsOff(step) <=> step.do \in Lowering
    BY <1>6 DEF TurnsOff, Lowering
  <2>6. tx'.off \subseteq LegacySet
    BY <1>3, <2>1, <2>3, <2>5
  <2>7. tx'.off \cap machine'.enabled = {}
    <3> SUFFICES ASSUME NEW z \in tx'.off, z \in machine'.enabled PROVE FALSE
      OBVIOUS
    <3>1. step.do = "enable" => step.do \notin Lowering
      BY DEF Lowering
    <3>2. z # Canonical
      BY <2>6, TargetsAssumption
    <3>3. z \in machine.enabled \/ (step.do \in Raising(machine.platform) /\ z = step.to)
      BY <1>3
    <3>4. CASE z \in machine.enabled
      BY <1>3, <1>4, <2>5, <3>4
    <3>5. CASE step.do \in Raising(machine.platform) /\ z = step.to
      BY <1>3, <2>4, <2>5, <3>1, <3>2, <3>5
    <3> QED BY <3>3, <3>4, <3>5
  <2>8. tx'.off \subseteq Contested(tx)
    BY <2>6, ContestedIs
  <2> QED BY <1>3, <1>6, <2>2, <2>6, <2>7, <2>8
<1> QED BY <1>5, <1>6

\* In a catch block that restores services, a command that enables one that is
\* off is the one that restores it, or the last that enables any.
LEMMA SucceedRestores ==
  ASSUME InstallInv, OwnerInv, Succeed, phase # "forward", Restores, tx.off \subseteq Contested(tx)
  PROVE  /\ tx'.off \subseteq Contested(tx)
         /\ Restores' \/ (~Spared(tx) /\ \E x \in Service : Returns(x)')
<1>1. PICK step : step = Head(script)
  OBVIOUS
<1> DEFINE p == machine.platform
<1>2. /\ script # <<>> /\ script' = Tail(script) /\ Applies(step)
  BY <1>1 DEF Succeed
<1>3. /\ step \in Steps(tx.prior, Service) /\ Same(tx')
      /\ machine'.platform = p
      /\ machine'.enabled \subseteq machine.enabled \cup (IF step.do \in Raising(p) THEN {step.to} ELSE {})
      /\ step.do \in Lowering => step.to \notin machine'.enabled
      /\ tx'.off = tx.off \cup (IF TurnsOff(step) THEN {step.to} ELSE {})
      /\ tx'.restored = IF step.restores THEN step.to ELSE tx.restored
  BY <1>1, SucceedTurns
<1>4. tx.before.platform = p
  BY DEF OwnerInv
<1>5. /\ tx.off \cap machine.enabled \subseteq {tx.restored}
      /\ script \in Seq(Calm(tx)) /\ Precedes(script, Rises(tx), Alone(tx))
  BY DEF Restores
<1>6. /\ step \in Calm(tx) /\ Tail(script) \in Seq(Calm(tx)) /\ Precedes(Tail(script), Rises(tx), Alone(tx))
      /\ step \in Alone(tx) => ~Has(Tail(script), Rises(tx))
  BY <1>1, <1>2, <1>5, HeadTailProperties, PrecedesTail
<1>7. /\ step.do \in Lowering => step.to \in Contested(tx)
      /\ step.restores \/ step \in Rises(tx) => step.when \in {"unrestored", "handed-back"}
      /\ step \in Alone(tx) => step.to = Canonical
      /\ step \in Steps(tx.prior, {Canonical})
  BY <1>6 DEF Calm
<1>8. TurnsOff(step) <=> step.do \in Lowering
  BY DEF TurnsOff, Lowering
<1>9. tx'.off \subseteq Contested(tx)
  BY <1>3, <1>7, <1>8
<1>10. Restoring(Tail(script), tx)
  BY <1>6 DEF Restoring
<1>11. step.restores \/ step \in Rises(tx) => tx.off \cap machine.enabled = {}
  <2>1. step.when \in {"unrestored", "handed-back"} => tx.restored = None
    BY <1>2 DEF Applies
  <2>2. None \notin tx.off
    BY <1>4, ContestedIs, TargetsAssumption
  <2> QED BY <1>5, <1>7, <2>1, <2>2
<1>12. ASSUME NEW z \in tx'.off, z \in machine'.enabled
       PROVE  z \in tx.off \cap machine.enabled \/ (step \in Rises(tx) /\ z = step.to)
  <2>1. CASE z \in machine.enabled
    BY <1>3, <1>8, <1>12, <2>1
  <2>2. CASE z \notin machine.enabled
    <3>1. step.do \in Raising(p) /\ z = step.to
      BY <1>3, <1>12, <2>2
    <3>2. step.do \notin Lowering
      BY <3>1 DEF Raising, Lowering
    <3>3. z \in Contested(tx)
      BY <1>9
    <3>4. <<step.do, step.to>> \in RaisesCommands(tx)
      BY <1>4, <3>1, <3>3 DEF RaisesCommands
    <3> QED BY <1>7, <3>1, <3>4 DEF Rises
  <2> QED BY <2>1, <2>2
<1>13. CASE step.restores
  <2>1. tx'.off \cap machine'.enabled \subseteq {tx'.restored}
    BY <1>3, <1>11, <1>12, <1>13
  <2>2. Restores'
    BY <1>2, <1>3, <1>10, <2>1, RestoresNext
  <2> QED BY <1>9, <2>2
<1>14. CASE ~step.restores /\ step \notin Rises(tx)
  <2>1. tx'.off \cap machine'.enabled \subseteq {tx'.restored}
    BY <1>3, <1>5, <1>12, <1>14
  <2>2. Restores'
    BY <1>2, <1>3, <1>10, <2>1, RestoresNext
  <2> QED BY <1>9, <2>2
<1>15. CASE ~step.restores /\ step \in Rises(tx)
  <2>1. step \in Alone(tx)
    BY <1>15 DEF Alone
  <2>2. step.to = Canonical /\ ~Has(Tail(script), Rises(tx))
    BY <1>6, <1>7, <2>1
  <2>3. Canonical \in Contested(tx)
    BY <1>15, <2>2 DEF Rises, RaisesCommands
  <2>4. ~Spared(tx) /\ Contested(tx) = Service
    BY <2>3, ContestedIs
  <2>5. tx'.off \cap machine'.enabled \subseteq {Canonical}
    BY <1>11, <1>12, <1>15, <2>2
  <2>6. Tail(script) \in Seq(Bringing(Canonical, p))
    <3>1. /\ Len(Tail(script)) \in Nat /\ Tail(script) = [i \in 1..Len(Tail(script)) |-> Tail(script)[i]]
          /\ \A i \in 1..Len(Tail(script)) : Tail(script)[i] \in Calm(tx)
      BY <1>6, ElementOfSeq, LenProperties
    <3>2. ASSUME NEW i \in 1..Len(Tail(script)) PROVE Tail(script)[i] \in Bringing(Canonical, p)
      <4>1. PICK other : other = Tail(script)[i]
        OBVIOUS
      <4>2. other \in Calm(tx) /\ other \notin Rises(tx)
        BY <2>2, <3>1, <4>1 DEF Has
      <4>3. other \in Steps(tx.prior, {Canonical})
        BY <4>2 DEF Calm
      <4>4. other \in Fields(Seq(Taking)) /\ other.to \in Service
        BY <4>3 DEF Steps, Fields
      <4>5. other.do \notin Raising(p)
        BY <1>4, <2>4, <4>2, <4>3, <4>4 DEF Rises, RaisesCommands
      <4> QED BY <4>1, <4>4, <4>5 DEF Bringing
    <3>3. PICK r : r = Tail(script)
      OBVIOUS
    <3>4. r \in Seq(Bringing(Canonical, p))
      BY <3>1, <3>2, <3>3, SeqFits
    <3> QED BY <3>3, <3>4
  <2>7. Tail(script) = <<>> \/ (Head(Tail(script)) \in Bringing(Canonical, p)
                                /\ Tail(Tail(script)) \in Seq(Bringing(Canonical, p)))
    BY <2>6, HeadTailProperties
  <2>8. Returns(Canonical)'
    BY <1>2, <1>3, <2>5, <2>7 DEF Returns
  <2>9. Canonical \in Service
    BY DEF Service
  <2>10. \E x \in Service : Returns(x)'
    BY <2>8, <2>9
  <2> QED BY <1>9, <2>4, <2>10
<1> QED BY <1>13, <1>14, <1>15

\* In one that enables no other service than x, none is enabled but x.
LEMMA SucceedReturns ==
  ASSUME InstallInv, Succeed, phase # "forward", NEW x \in Service, Returns(x), ~Spared(tx),
         tx.off \subseteq Contested(tx)
  PROVE  tx'.off \subseteq Contested(tx) /\ Returns(x)'
<1>1. PICK step : step = Head(script)
  OBVIOUS
<1> DEFINE p == machine.platform
<1>2. script # <<>> /\ script' = Tail(script)
  BY DEF Succeed
<1>3. /\ step \in Steps(tx.prior, Service)
      /\ machine'.platform = p
      /\ machine'.enabled \subseteq machine.enabled \cup (IF step.do \in Raising(p) THEN {step.to} ELSE {})
      /\ step.do \in Lowering => step.to \notin machine'.enabled
      /\ tx'.off = tx.off \cup (IF TurnsOff(step) THEN {step.to} ELSE {})
  BY <1>1, SucceedTurns
<1>4. /\ tx.off \cap machine.enabled \subseteq {x}
      /\ step \in Bringing(x, p) \/ step.to \notin tx.off
      /\ Tail(script) \in Seq(Bringing(x, p))
  BY <1>1, <1>2 DEF Returns
<1>5. TurnsOff(step) <=> step.do \in Lowering
  BY DEF TurnsOff, Lowering
<1>6. tx'.off \subseteq Contested(tx)
  <2>1. step.to \in Service /\ Contested(tx) = Service
    BY <1>3, ContestedIs DEF Steps, Fields
  <2> QED BY <1>3, <2>1
<1>7. tx'.off \cap machine'.enabled \subseteq {x}
  <2> SUFFICES ASSUME NEW z \in tx'.off, z \in machine'.enabled PROVE z = x
    OBVIOUS
  <2>1. CASE z \in machine.enabled
    BY <1>3, <1>4, <1>5, <2>1
  <2>2. CASE z \notin machine.enabled
    <3>1. step.do \in Raising(p) /\ z = step.to
      BY <1>3, <2>2
    <3>2. step.do \notin Lowering
      BY <3>1 DEF Raising, Lowering
    <3>3. step \in Bringing(x, p)
      BY <1>3, <1>4, <1>5, <3>1, <3>2
    <3> QED BY <3>1, <3>3 DEF Bringing
  <2> QED BY <2>1, <2>2
<1>8. Tail(script) = <<>> \/ (Head(Tail(script)) \in Bringing(x, p) /\ Tail(Tail(script)) \in Seq(Bringing(x, p)))
  BY <1>4, HeadTailProperties
<1> QED BY <1>2, <1>3, <1>6, <1>7, <1>8 DEF Returns

LEMMA SucceedOff ==
  ASSUME InstallInv, OwnerInv, OffInv, Succeed
  PROVE  OffInv'
<1>1. phase # "rest" /\ script # <<>> /\ phase' = phase
  BY DEF Succeed
<1>2. Same(tx') /\ tx'.unsure = tx.unsure
  BY SucceedTurns
<1>3. CASE phase = "forward"
  BY <1>3, SucceedForward
<1>4. CASE phase # "forward"
  <2>1. phase \in {"rollback", "mend", "hand-back"}
    BY <1>1, <1>4, Bounds
  <2> SUFFICES ASSUME Converges, ~tx.unsure
               PROVE  /\ tx'.off \subseteq Contested(tx)
                      /\ Restores' \/ (~Spared(tx) /\ \E x \in Service : Returns(x)')
    BY <1>1, <1>2, <2>1, OffBack
  <2>2. /\ tx.off \subseteq Contested(tx)
        /\ Restores \/ (~Spared(tx) /\ \E x \in Service : Returns(x))
    BY <2>1 DEF OffInv
  <2>3. CASE Restores
    BY <1>4, <2>2, <2>3, SucceedRestores
  <2>4. CASE ~Spared(tx) /\ \E x \in Service : Returns(x)
    BY <1>4, <2>2, <2>4, SucceedReturns
  <2> QED BY <2>2, <2>3, <2>4
<1> QED BY <1>3, <1>4

\* A command that fails may have enabled what it enables, but leaves nothing off.
LEMMA FailTurns ==
  ASSUME InstallInv, Fail, NEW step, step = Head(script)
  PROVE  /\ step \in Steps(tx.prior, Service) /\ Same(tx') /\ tx' \in Transaction
         /\ machine'.platform = machine.platform
         /\ machine'.enabled \subseteq machine.enabled \cup (IF step.do \in Raising(machine.platform) THEN {step.to} ELSE {})
         /\ tx'.off = IF phase = "forward" /\ step.do = "enable" THEN tx.off \ {step.to} ELSE tx.off
         /\ tx'.disabled = IF phase = "forward" /\ step.do \in Lowering THEN tx.disabled \cup {step.to} ELSE tx.disabled
         /\ tx'.unsure = (tx.unsure \/ NoWayBack)
<1> DEFINE u == Tried(step)
           unsure == u.unsure \/ NoWayBack
<1>1. /\ script # <<>> /\ machine' \in AfterFailure(machine, step.do, step.to)
      /\ tx' = [u EXCEPT !.unsure = unsure]
  BY DEF Fail
<1>2. step \in Steps(tx.prior, Service)
  BY <1>1, HeadFits
<1>3. step.do \in Verbs /\ step.to \in Service
  BY <1>2 DEF Steps, Fields
<1>4. machine \in Machine /\ tx \in Transaction
  BY Bounds
<1>5. u \in Transaction /\ Same(u)
  BY <1>2, <1>4, NotedSame, NotedFits
<1>6. Raises(machine, machine', step.do, step.to)
  BY <1>1, <1>3, <1>4, FailureRaises
<1>7. /\ u.off = IF phase = "forward" /\ step.do = "enable" THEN tx.off \ {step.to} ELSE tx.off
      /\ u.disabled = IF phase = "forward" /\ step.do \in Lowering THEN tx.disabled \cup {step.to} ELSE tx.disabled
      /\ u.unsure = tx.unsure
  BY <1>2, <1>4, NotedOff
<1>8. unsure = (tx.unsure \/ NoWayBack) /\ unsure \in BOOLEAN
  BY <1>7
<1> HIDE DEF u, unsure
<1>9. /\ tx' \in Transaction /\ tx'.off = u.off /\ tx'.disabled = u.disabled /\ tx'.unsure = unsure
  BY <1>1, <1>5, <1>8 DEF Transaction
<1>10. Same(tx')
  BY <1>1, <1>5 DEF Same, Transaction
<1> QED BY <1>2, <1>6, <1>7, <1>8, <1>9, <1>10 DEF Raises

\* Forward, what fails enables nothing that is off.
LEMMA FailLeavesOff ==
  ASSUME InstallInv, OwnerInv, OffInv, Fail, phase = "forward", Converges, ~tx.unsure
  PROVE  tx'.off \subseteq tx.off /\ tx'.off \cap machine'.enabled = {} /\ tx.off \subseteq Contested(tx)
<1>1. PICK step : step = Head(script)
  OBVIOUS
<1>2. script # <<>>
  BY DEF Fail
<1>3. /\ machine'.enabled \subseteq machine.enabled \cup (IF step.do \in Raising(machine.platform) THEN {step.to} ELSE {})
      /\ tx'.off = IF step.do = "enable" THEN tx.off \ {step.to} ELSE tx.off
  BY <1>1, FailTurns
<1>4. /\ tx.off \subseteq Contested(tx) /\ tx.off \cap machine.enabled = {}
      /\ IF machine.platform = "darwin" THEN MacForward
         ELSE tx.off \subseteq LegacySet /\ script \in Seq(Giving(Lawful, tx.prior))
  BY DEF OffInv
<1>5. step.do \in Raising(machine.platform) => step.do = "enable" \/ step.to \notin tx.off
  <2>1. CASE machine.platform = "darwin"
    <3>1. \/ step \in Tame(Successor(tx), tx.prior)
          \/ \E y \in Service : step = Off(y)
      BY <1>1, <1>2, <1>4, <2>1, NextPaired
    <3>2. CASE step \in Tame(Successor(tx), tx.prior)
      <4>1. step.do \notin Turning
        BY <3>2 DEF Tame, Tamed, Giving, Commanding
      <4> QED BY <2>1, <4>1 DEF Raising, Turning
    <3>3. CASE \E y \in Service : step = Off(y)
      <4>1. step.do = "disable"
        BY <3>3, OffFields
      <4> QED BY <2>1, <4>1 DEF Raising
    <3> QED BY <3>1, <3>2, <3>3
  <2>2. CASE machine.platform # "darwin"
    <3>1. step \in Giving(Lawful, tx.prior)
      BY <1>1, <1>2, <1>4, <2>2, HeadTailProperties
    <3>2. step.do \in Raising(machine.platform) => step.do = "enable" \/ step.to = Canonical
      BY <3>1 DEF Giving, Lawful, Raising
    <3>3. Canonical \notin tx.off
      BY <1>4, <2>2, TargetsAssumption
    <3> QED BY <3>2, <3>3
  <2> QED BY <2>1, <2>2
<1> QED BY <1>3, <1>4, <1>5

\* The script of the catch block enables only what was not off, or one service.
LEMMA FailRollsBack ==
  ASSUME InstallInv, OwnerInv, OffInv, Fail, phase = "forward", Converges, ~tx.unsure,
         script' = Rollback(tx')
  PROVE  Restores' \/ (~Spared(tx) /\ \E x \in Service : Returns(x)')
<1>1. tx'.off \subseteq tx.off /\ tx'.off \cap machine'.enabled = {}
  BY FailLeavesOff
<1>2. Same(tx') /\ tx' \in Transaction /\ machine'.platform = machine.platform
  BY FailTurns
<1>3. tx'.before = tx.before /\ tx'.kind = tx.kind /\ tx'.legacy \in Seq(LegacySet)
  BY <1>2 DEF Same, Transaction
<1>4. machine.platform = tx.before.platform /\ machine.platform \in Platform
  BY Bounds DEF OwnerInv, Machine
<1>5. CASE machine.platform = "darwin"
  <2>1. script' = FlattenSeq(Reverse(undo))
    BY <1>3, <1>4, <1>5 DEF Rollback
  <2>2. ~Spared(tx)
    BY <1>4, <1>5 DEF Spared
  <2>3. PICK x \in Service : x = Successor(tx)
    BY Bounds, SuccessorIs
  <2>4. MacForward
    BY <1>5 DEF OffInv
  <2>5. PICK u : /\ u \in Seq(Withdrawn(x))
                 /\ \/ undo = u
                    \/ \E y \in Service \ tx.off : undo = Append(u, <<Command("enable", y)>>)
    BY <2>3, <2>4 DEF MacForward
  <2>6. CASE undo = u
    <3>1. script' \in Seq(Bringing(x, "darwin"))
      BY <2>1, <2>5, <2>6, TakenBack
    <3>2. script' = <<>> \/ (Head(script') \in Bringing(x, "darwin") /\ Tail(script') \in Seq(Bringing(x, "darwin")))
      BY <3>1, HeadTailProperties
    <3>3. Returns(x)'
      BY <1>1, <1>2, <1>5, <3>2 DEF Returns
    <3> QED BY <2>2, <3>3
  <2>7. CASE \E y \in Service \ tx.off : undo = Append(u, <<Command("enable", y)>>)
    <3>1. PICK y \in Service \ tx.off : undo = Append(u, <<Command("enable", y)>>)
      BY <2>7
    <3>2. script' = FlattenSeq(Reverse(Append(u, <<Command("enable", y)>>)))
      BY <2>1, <3>1
    <3>3. Head(script') = Command("enable", y) /\ Tail(script') \in Seq(Bringing(x, "darwin"))
      BY <2>5, <3>2, TakenBackFirst
    <3>4. Head(script').to = y
      BY <3>3 DEF Command
    <3>5. Head(script').to \notin tx'.off
      BY <1>1, <3>1, <3>4
    <3>6. Returns(x)'
      BY <1>1, <1>2, <1>5, <3>3, <3>5 DEF Returns
    <3> QED BY <2>2, <3>6
  <2> QED BY <2>5, <2>6, <2>7
<1>6. CASE machine.platform # "darwin"
  <2>1. machine.platform \in {"linux", "win32"}
    BY <1>4, <1>6 DEF Platform
  <2>2. Restoring(script', tx')
    <3>1. CASE machine.platform = "linux"
      <4>1. Restoring(LinuxInstallRollback(tx'), tx') /\ Restoring(LinuxStartRollback(tx'), tx')
        BY <1>3, <1>4, <3>1, LinuxRollbackRestores
      <4> QED BY <1>3, <1>4, <3>1, <4>1 DEF Rollback
    <3>2. CASE machine.platform = "win32"
      <4>1. /\ tx'.kind # "start" => Restoring(WindowsInstallRollback(tx'), tx')
            /\ tx'.kind = "start" => Restoring(WindowsStartRollback(tx'), tx')
        BY <1>3, <1>4, <3>2, WindowsRollbackRestores
      <4> QED BY <1>3, <1>4, <3>2, <4>1 DEF Rollback
    <3> QED BY <2>1, <3>1, <3>2
  <2>3. Restoring(script', tx)
    <3>1. Calm(tx') = Calm(tx) /\ Rises(tx') = Rises(tx) /\ Alone(tx') = Alone(tx)
      BY <1>2, SameSays
    <3> QED BY <2>2, <3>1 DEF Restoring
  <2>4. Restores'
    BY <1>1, <1>2, <2>3, RestoresNext
  <2> QED BY <2>4
<1> QED BY <1>5, <1>6

LEMMA FailOff ==
  ASSUME InstallInv, OwnerInv, OffInv, Fail
  PROVE  OffInv'
<1>1. PICK step : step = Head(script)
  OBVIOUS
<1>2. PICK t : t = tx'
  OBVIOUS
<1>3. /\ phase # "rest" /\ script # <<>>
      /\ \/ step.on = "throw" /\ Thrown(step, t)
         \/ step.on # "throw" /\ script' = RemainderAfter(step) /\ UNCHANGED <<undo, phase, outcome>>
  BY <1>1, <1>2 DEF Fail
<1>4. /\ step \in Steps(tx.prior, Service) /\ Same(tx') /\ tx' \in Transaction
      /\ machine'.platform = machine.platform
      /\ machine'.enabled \subseteq machine.enabled \cup (IF step.do \in Raising(machine.platform) THEN {step.to} ELSE {})
      /\ tx'.disabled = IF phase = "forward" /\ step.do \in Lowering THEN tx.disabled \cup {step.to} ELSE tx.disabled
      /\ tx'.unsure = (tx.unsure \/ NoWayBack)
  BY <1>1, FailTurns
<1>5. CASE ~Converges \/ tx'.unsure
  <2>1. ~(Converges' /\ ~tx'.unsure)
    BY <1>4, <1>5, SameSays
  <2> QED BY <2>1 DEF OffInv
<1>6. CASE Converges /\ ~tx'.unsure
  <2>1. phase = "forward" /\ ~tx.unsure
    BY <1>4, <1>6 DEF NoWayBack
  <2>2. /\ tx'.off \subseteq tx.off /\ tx'.off \cap machine'.enabled = {} /\ tx'.off \subseteq Contested(tx)
    BY <1>6, <2>1, FailLeavesOff
  <2>3. tx'.off \cap machine'.enabled \subseteq {tx'.restored}
    BY <2>2
  <2>4. CASE step.on = "throw" /\ step.in = "try" /\ script' = Rollback(t) /\ phase' = "rollback"
    <3>1. Restores' \/ (~Spared(tx) /\ \E x \in Service : Returns(x)')
      BY <1>2, <1>6, <2>1, <2>4, FailRollsBack
    <3> QED BY <1>4, <2>2, <2>4, <3>1, OffBack
  <2>5. CASE script' = <<>> /\ phase' = "rollback"
    <3>1. Restoring(script', tx)
      BY <2>5, EmptySeq DEF Restoring, Precedes
    <3>2. Restores'
      BY <1>4, <2>3, <3>1, RestoresNext
    <3> QED BY <1>4, <2>2, <2>5, <3>2, OffBack
  <2>6. CASE script' = HandBack(machine') /\ phase' = "hand-back"
    <3>1. tx.legacy \in Seq(LegacySet)
      BY Bounds DEF Transaction
    <3>2. Restoring(script', tx)
      BY <2>6, <3>1, HandBackRestores
    <3>3. Restores'
      BY <1>4, <2>3, <3>2, RestoresNext
    <3> QED BY <1>4, <2>2, <2>6, <3>3, OffBack
  <2>7. CASE phase' = "rest"
    <3>1. Canonical \in Service
      BY DEF Service
    <3>2. \E x \in Service : tx'.off \cap machine'.enabled \subseteq {x}
      BY <2>2, <3>1
    <3> QED BY <1>4, <2>2, <2>7, <3>2, OffOtherwise
  <2>8. CASE step.on # "throw" /\ script' = RemainderAfter(step) /\ UNCHANGED <<undo, phase, outcome>>
    <3>1. step \in Plain(tx.prior, Service)
      BY <1>1, <1>3, <2>1, HeadFits
    <3>2. step.on = "ignore"
      BY <2>8, <3>1 DEF Plain
    <3>3. script' = Tail(script)
      BY <2>8, <3>2 DEF RemainderAfter
    <3>4. CASE machine.platform = "darwin"
      <4>1. MacForward /\ tx.off \cap machine.enabled = {}
        BY <1>6, <2>1, <3>4 DEF OffInv
      <4>2. /\ machine'.enabled \subseteq machine.enabled \cup (IF step.do \in Raising("darwin") THEN {step.to} ELSE {})
            /\ tx'.disabled \subseteq tx.disabled \cup (IF step.do \in Lowering THEN {step.to} ELSE {})
            /\ undo' = undo /\ phase' = "forward" /\ step.on # "throw"
        BY <1>4, <2>1, <2>8, <3>4
      <4>3. MacForward'
        BY <1>1, <1>3, <1>4, <2>1, <2>2, <3>3, <4>1, <4>2, MacBy
      <4> QED BY <1>4, <2>2, <3>4, <4>2, <4>3, OffOn
    <3>5. CASE machine.platform # "darwin"
      <4>1. tx.off \subseteq LegacySet /\ script \in Seq(Giving(Lawful, tx.prior))
        BY <1>6, <2>1, <3>5 DEF OffInv
      <4>2. script' \in Seq(Giving(Lawful, tx.prior)) /\ tx'.off \subseteq LegacySet
        BY <1>3, <2>2, <3>3, <4>1, HeadTailProperties
      <4> QED BY <1>4, <2>1, <2>2, <2>8, <3>5, <4>2, OffOn
    <3> QED BY <3>4, <3>5
  <2>9. \/ step.on = "throw" /\ step.in = "try" /\ script' = Rollback(t) /\ phase' = "rollback"
        \/ script' = <<>> /\ phase' = "rollback"
        \/ script' = HandBack(machine') /\ phase' = "hand-back"
        \/ phase' = "rest"
        \/ step.on # "throw" /\ script' = RemainderAfter(step) /\ UNCHANGED <<undo, phase, outcome>>
    BY <1>3, <2>1 DEF Thrown, Rest
  <2> QED BY <2>4, <2>5, <2>6, <2>7, <2>8, <2>9
<1> QED BY <1>5, <1>6

LEMMA KilledOff ==
  ASSUME InstallInv, OffInv, Killed
  PROVE  OffInv'
<1> DEFINE unsure == tx.unsure \/ NoWayBack
<1>1. tx' = [tx EXCEPT !.unsure = unsure] /\ phase' = "rest" /\ outcome' = "died"
  BY DEF Killed, Rest
<1>2. unsure \in BOOLEAN /\ (~unsure => ~tx.unsure)
  OBVIOUS
<1> HIDE DEF unsure
<1>3. Same(tx')
  BY <1>1, Bounds DEF Same, Transaction
<1>4. tx'.off = tx.off /\ tx'.unsure = unsure
  BY <1>1, Bounds DEF Transaction
<1>5. Converges /\ ~tx'.unsure => tx'.off \subseteq Contested(tx)
  BY <1>2, <1>4 DEF OffInv
<1> QED BY <1>1, <1>3, <1>5, OffOtherwise

\* What mends the records enables nothing, and port 443 is handed back only on
\* Windows, after a replacement.
LEMMA EndPhaseOff ==
  ASSUME InstallInv, OwnerInv, OffInv, EndPhase
  PROVE  OffInv'
<1>1. /\ phase # "rest" /\ script = <<>> /\ tx' = tx
      /\ \/ phase = "forward" /\ Rest("ok") /\ machine' = machine
         \/ phase = "rollback" /\ machine' = Finally(machine) /\ script' = Mend(machine') /\ phase' = "mend"
         \/ phase = "mend" /\ HandsBack /\ machine' = machine /\ script' = HandBack(machine) /\ phase' = "hand-back"
         \/ phase \in {"rollback", "mend", "hand-back"} /\ machine' = machine /\ Rest("failed")
  BY DEF EndPhase
<1>2. machine'.platform = machine.platform /\ machine'.enabled = machine.enabled
  <2>1. Unmoved(machine, machine)
    BY DEF Unmoved
  <2> QED BY <1>1, <2>1, Bounds, FinallyUnmoved DEF Unmoved
<1>3. Same(tx')
  BY <1>1 DEF Same
<1>4. CASE ~(Converges /\ ~tx.unsure)
  <2>1. ~(Converges' /\ ~tx'.unsure)
    BY <1>1, <1>4 DEF Converges
  <2> QED BY <2>1 DEF OffInv
<1>5. CASE Converges /\ ~tx.unsure
  <2>1. tx.off \subseteq Contested(tx)
    BY <1>5 DEF OffInv
  <2>2. CASE phase = "forward" /\ Rest("ok")
    <3>1. phase' = "rest" /\ outcome' # "failed"
      BY <2>2 DEF Rest
    <3> QED BY <1>1, <1>3, <2>1, <3>1, OffOtherwise
  <2>3. ASSUME phase \in {"rollback", "mend", "hand-back"}
        PROVE  Restores \/ (~Spared(tx) /\ \E x \in Service : Returns(x))
    BY <1>5, <2>3 DEF OffInv
  <2>4. CASE phase = "rollback" /\ script' = Mend(machine') /\ phase' = "mend"
    <3>1. CASE Restores
      <4>1. tx'.off \cap machine'.enabled \subseteq {tx'.restored}
        BY <1>1, <1>2, <3>1 DEF Restores
      <4>2. Restoring(script', tx)
        BY <2>4, MendBrings
      <4>3. Restores'
        BY <1>3, <4>1, <4>2, RestoresNext
      <4> QED BY <1>1, <1>3, <2>1, <2>4, <4>3, OffBack
    <3>2. CASE ~Spared(tx) /\ \E x \in Service : Returns(x)
      <4>1. PICK x \in Service : Returns(x)
        BY <3>2
      <4>2. tx.off \cap machine.enabled \subseteq {x}
        BY <4>1 DEF Returns
      <4>3. script' \in Seq(Bringing(x, machine.platform))
        BY <2>4, MendBrings
      <4>4. script' = <<>> \/ (Head(script') \in Bringing(x, machine.platform)
                               /\ Tail(script') \in Seq(Bringing(x, machine.platform)))
        BY <4>3, HeadTailProperties
      <4>5. Returns(x)'
        BY <1>1, <1>2, <4>2, <4>4 DEF Returns
      <4>6. \E y \in Service : Returns(y)'
        BY <4>5
      <4> QED BY <1>1, <1>3, <2>1, <2>4, <3>2, <4>6, OffBack
    <3> QED BY <2>3, <2>4, <3>1, <3>2
  <2>5. CASE phase = "mend" /\ HandsBack /\ script' = HandBack(machine) /\ phase' = "hand-back"
    <3>1. Spared(tx)
      BY <2>5 DEF HandsBack, Spared, OwnerInv
    <3>2. Restores
      BY <2>3, <2>5, <3>1
    <3>3. tx'.off \cap machine'.enabled \subseteq {tx'.restored}
      BY <1>1, <1>2, <3>2 DEF Restores
    <3>4. tx.legacy \in Seq(LegacySet)
      BY Bounds DEF Transaction
    <3>5. Restoring(script', tx)
      BY <2>5, <3>4, HandBackRestores
    <3>6. Restores'
      BY <1>3, <3>3, <3>5, RestoresNext
    <3> QED BY <1>1, <1>3, <2>1, <2>5, <3>6, OffBack
  <2>6. CASE phase \in {"rollback", "mend", "hand-back"} /\ Rest("failed")
    <3>1. \E x \in Service : tx.off \cap machine.enabled \subseteq {x}
      <4>1. CASE Restores
        <5>1. tx.off \cap machine.enabled \subseteq {tx.restored} /\ tx.off \subseteq Service
          BY <2>1, <4>1, ContestedIs DEF Restores
        <5>2. CASE tx.restored \in Service
          BY <5>1, <5>2
        <5>3. CASE tx.restored \notin Service
          <6>1. tx.off \cap machine.enabled = {}
            BY <5>1, <5>3
          <6>2. Canonical \in Service
            BY DEF Service
          <6> QED BY <6>1, <6>2
        <5> QED BY <5>2, <5>3
      <4>2. CASE \E x \in Service : Returns(x)
        BY <4>2 DEF Returns
      <4> QED BY <2>3, <2>6, <4>1, <4>2
    <3>2. phase' = "rest"
      BY <2>6 DEF Rest
    <3> QED BY <1>1, <1>2, <1>3, <2>1, <3>1, <3>2, OffOtherwise
  <2> QED BY <1>1, <2>2, <2>4, <2>5, <2>6
<1> QED BY <1>4, <1>5

LEMMA AroundOff ==
  ASSUME InstallInv, OffInv, Around
  PROVE  OffInv'
<1>1. phase = "rest" /\ tx' = tx /\ phase' = phase /\ outcome' = outcome
  BY DEF Around
<1>2. machine'.enabled = machine.enabled
  <2>1. CASE machine' \in Booted(machine)
    <3> DEFINE able == {s \in machine.enabled : machine.defined[s] # 0}
    <3>1. PICK s \in (IF able = {} THEN {None} ELSE able) :
            machine' = [machine EXCEPT !.running = s,
                                       !.loaded = IF machine.platform = "darwin" THEN able ELSE {}]
      BY <2>1 DEF Booted
    <3> HIDE DEF able
    <3> QED BY <3>1, Bounds DEF Machine
  <2>2. CASE \E holder \in {None, Other} : machine' = [machine EXCEPT !.running = holder]
    BY <2>2, Bounds DEF Machine
  <2> QED BY <2>1, <2>2 DEF Around
<1>3. Same(tx')
  BY <1>1 DEF Same
<1>4. Converges /\ ~tx'.unsure =>
        /\ tx'.off \subseteq Contested(tx)
        /\ outcome' = "failed" => \E x \in Service : tx'.off \cap machine'.enabled \subseteq {x}
  BY <1>1, <1>2 DEF OffInv
<1> QED BY <1>1, <1>3, <1>4, OffOtherwise

\* Nothing is off when a convergence begins, and its script leaves off, if it
\* fails, what its catch block enables again.
LEMMA ConvergeOff ==
  ASSUME InstallInv, Converge
  PROVE  OffInv'
<1>1. PICK cli \in Versions, direct \in BOOLEAN, restart \in BOOLEAN :
        LET version == Promoted(cli)
            status == UpdateStatus(machine, version, Speaks[cli])
            starts == status = "newer" \/ (status = "current" /\ ~direct)
            kind == IF starts THEN "start" ELSE IF machine.listed = {} THEN "install" ELSE "replace"
            prior == IF starts THEN ReadRecord(machine) ELSE PreviousOwner(machine)
        IN  Undertake(Begun(kind, Canonical, version, prior, restart, machine))
  BY DEF Converge
<1> DEFINE version == Promoted(cli)
           status == UpdateStatus(machine, version, Speaks[cli])
           starts == status = "newer" \/ (status = "current" /\ ~direct)
           kind == IF starts THEN "start" ELSE IF machine.listed = {} THEN "install" ELSE "replace"
           prior == IF starts THEN ReadRecord(machine) ELSE PreviousOwner(machine)
           t == Begun(kind, Canonical, version, prior, restart, machine)
           p == machine.platform
<1>2. Undertake(t)
  BY <1>1
<1>3. machine \in Machine /\ version \in Versions
  BY Bounds, PromotedFits
<1>4. /\ kind \in Kinds /\ prior \in Record \cup {None} /\ Canonical \in Service /\ version \in Versions \cup {0}
      /\ kind \in {"start", "install", "replace"}
  <2>1. kind \in {"start", "install", "replace"} /\ prior \in {ReadRecord(machine), PreviousOwner(machine)}
    OBVIOUS
  <2> HIDE DEF kind, prior, version
  <2> QED BY <1>3, <2>1, RecordRead DEF Kinds, Service
<1> HIDE DEF version, status, starts, kind, prior
<1>5. t \in Transaction /\ t.kind = kind
  BY <1>3, <1>4, BegunFits
<1>6. t.before = machine /\ t.off = {} /\ t.disabled = {}
  BY DEF Begun
<1>7. Distinct(t.legacy)
  BY <1>3, LegaciesDistinct
<1> HIDE DEF t
<1>8. /\ tx'.kind = kind /\ tx'.prior = t.prior /\ tx'.restart = t.restart /\ tx'.before = machine
      /\ machine' = machine /\ script' = Script(t) /\ phase' = "forward"
  BY <1>2, <1>3, <1>5, <1>6, UndertakenIs
<1>9. tx'.off = {} /\ tx'.disabled = {} /\ undo' = <<>>
  <2>1. tx' = [t EXCEPT !.unsure = tx.unsure] /\ undo' = <<>>
    BY <1>2 DEF Undertake
  <2> QED BY <1>5, <1>6, <2>1 DEF Transaction
<1>10. p \in Platform
  BY <1>3 DEF Machine
<1>11. ASSUME p = "darwin" PROVE MacForward'
  <2>1. script' \in {MacInstall(t), MacStart(t)}
    BY <1>4, <1>5, <1>6, <1>8, <1>11 DEF Script
  <2>2. Successor(tx') = Successor(t)
    BY <1>6, <1>8 DEF Successor, Winner
  <2>3. Backed(script', Successor(tx'), tx'.prior)
    BY <1>5, <1>7, <1>8, <2>1, <2>2, MacInstallBacked, MacStartBacked
  <2>4. undo' \in Seq(Withdrawn(Successor(tx')))
    BY <1>9, EmptySeq
  <2>5. /\ Paired(script', Successor(tx'), tx'.prior)
        /\ \A y \in Service :
             /\ Orderly(script', y, tx'.prior)
             /\ y \in tx'.disabled \cap machine'.enabled => ~Has(script', Asking("quiesce", y, tx'.prior))
             /\ y \in tx'.off => ~Has(script', Asking("disable", y, tx'.prior))
    BY <1>9, <2>3 DEF Backed
  <2> QED BY <2>4, <2>5 DEF MacForward
<1>12. ASSUME p # "darwin" PROVE script' \in Seq(Giving(Lawful, tx'.prior))
  <2>1. script' \in {LinuxInstall(t), WindowsInstall(t), LinuxStart(t), WindowsStart(t)}
    BY <1>4, <1>5, <1>6, <1>8, <1>10, <1>12 DEF Script, Platform
  <2>2. t.legacy \in Seq(LegacySet) /\ t.restart \in BOOLEAN
    BY <1>5 DEF Transaction
  <2>3. {LinuxInstall(t), WindowsInstall(t), LinuxStart(t), WindowsStart(t)} \subseteq Seq(Giving(Lawful, t.prior))
    BY <2>2, LawfulScripts
  <2> QED BY <1>8, <2>1, <2>3
<1>13. /\ tx'.off \subseteq Contested(tx') /\ tx'.off \cap machine'.enabled = {} /\ tx'.off \subseteq LegacySet
       /\ phase' \notin {"rest", "rollback", "mend", "hand-back"} /\ machine'.platform = p
  BY <1>8, <1>9
<1> QED BY <1>11, <1>12, <1>13 DEF OffInv

\* Neither a start of a legacy service nor an uninstallation converges.
LEMMA OthersOff ==
  ASSUME InstallInv, StartOwned \/ Uninstall
  PROVE  OffInv'
<1>1. PICK kind \in {"start-owned", "uninstall"}, target \in Service, version \in Versions \cup {0},
           prior \in Record \cup {None}, restart \in {TRUE} :
        Undertake(Begun(kind, target, version, prior, restart, machine))
  BY OthersBegin
<1> DEFINE t == Begun(kind, target, version, prior, restart, machine)
<1>2. t \in Transaction /\ t.kind = kind
  <2>1. kind \in Kinds /\ restart \in BOOLEAN /\ machine \in Machine
    BY Bounds DEF Kinds
  <2>2. t = Begun(kind, target, version, prior, restart, machine)
    OBVIOUS
  <2> HIDE DEF t
  <2>3. \A k \in Kinds, r \in BOOLEAN :
          t = Begun(k, target, version, prior, r, machine) => t \in Transaction /\ t.kind = k
    BY <2>1, BegunFits
  <2> QED BY <2>1, <2>2, <2>3
<1>3. Undertake(t)
  BY <1>1
<1> HIDE DEF t
<1>4. tx'.kind = kind
  BY <1>2, <1>3, Bounds, UndertakenIs
<1>5. ~Converges'
  BY <1>4 DEF Converges
<1> QED BY <1>5 DEF OffInv

LEMMA OffInit ==
  ASSUME InstallInit
  PROVE  OffInv
<1>1. phase = "rest" /\ outcome = "none" /\ tx = Begun("start", Canonical, 0, None, TRUE, machine)
  BY DEF InstallInit
<1>2. tx.off = {}
  BY <1>1 DEF Begun
<1> QED BY <1>1, <1>2 DEF OffInv

LEMMA OffNext ==
  ASSUME InstallInv, OwnerInv, OffInv, InstallNext
  PROVE  OffInv'
<1>1. CASE SkipStep
  BY <1>1, SkipStepOff
<1>2. CASE Succeed
  BY <1>2, SucceedOff
<1>3. CASE Fail
  BY <1>3, FailOff
<1>4. CASE Killed
  BY <1>4, KilledOff
<1>5. CASE EndPhase
  BY <1>5, EndPhaseOff
<1>6. CASE Converge
  BY <1>6, ConvergeOff
<1>7. CASE StartOwned \/ Uninstall
  BY <1>7, OthersOff
<1>8. CASE Around
  BY <1>8, AroundOff
<1> QED BY <1>1, <1>2, <1>3, <1>4, <1>5, <1>6, <1>7, <1>8 DEF InstallNext

LEMMA OffIsRestored ==
  ASSUME OffInv
  PROVE  AtMostOneRestored
<1> SUFFICES ASSUME phase = "rest", outcome = "failed", ~tx.unsure, Converges
             PROVE  Cardinality(tx.off \cap machine.enabled) <= 1
  BY DEF AtMostOneRestored, Converges
<1>1. PICK x \in Service : tx.off \cap machine.enabled \subseteq {x}
  BY DEF OffInv
<1>2. tx.off \cap machine.enabled = {} \/ tx.off \cap machine.enabled = {x}
  BY <1>1
<1>3. Cardinality({}) = 0 /\ Cardinality({x}) = 1
  BY FS_EmptySet, FS_Singleton
<1> QED BY <1>2, <1>3

\* After a convergence that fails, at most one of the services that it had
\* disabled and stopped is enabled again: each command of a script enables only
\* what the transaction does not keep off, and a catch block either restores one
\* service and nothing behind it, or enables one and the same service throughout.
THEOREM OneIsRestored == InstallSpec => []AtMostOneRestored
<1>1. InstallInit => OwnerInv /\ OffInv
  BY OwnerInit, OffInit
<1>2. InstallInv /\ OwnerInv /\ OffInv /\ [InstallNext]_installVars => OwnerInv' /\ OffInv'
  <2> SUFFICES ASSUME InstallInv, OwnerInv, OffInv, [InstallNext]_installVars PROVE OwnerInv' /\ OffInv'
    OBVIOUS
  <2>1. CASE InstallNext
    BY <2>1, OwnerNext, OffNext
  <2>2. CASE UNCHANGED installVars
    <3>1. OwnerInv'
      BY <2>2 DEF installVars, OwnerInv, Converges, StartsAtBoot
    <3>2. OffInv'
      BY <2>2 DEF installVars, OffInv, Converges, Contested, Spared, MacForward, Successor, Winner, Orderly,
                  Restores, Calm, Rises, Alone, RaisesCommands, Returns
    <3> QED BY <3>1, <3>2
  <2> QED BY <2>1, <2>2
<1>3. OffInv => AtMostOneRestored
  BY OffIsRestored
<1> QED BY <1>1, <1>2, <1>3, InstallInvariance, PTL DEF InstallSpec

==============================================================================
