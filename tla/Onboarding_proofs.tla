-------------------------- MODULE Onboarding_proofs --------------------------
(***************************************************************************)
(* For any devices, seeds, passphrases, entries and faults, and however    *)
(* often a seed is encrypted: the passphrase last set opens the ledger,    *)
(* and, unless ph recover was given a wrong seed, all entries of a ledger  *)
(* are under its key.                                                      *)
(*                                                                         *)
(* What opens a ledger is settled when no command runs, and stays so while *)
(* one only reads; an onboarding settles it again before it ends (Opens).  *)
(* Entries are under the key of their ledger wherever the ledger is copied *)
(* to, because a command that commits works with the key of the ledger it  *)
(* has opened, not with the session file (Keyed).                          *)
(***************************************************************************)
EXTENDS Onboarding, CommonLemmas

\* Records have the fields their commands read.
IsLedger(l)  == {"seed", "by", "salt", "pub", "blocks"} \subseteq DOMAIN l
IsContext(c) == {"key", "from", "remote"} \subseteq DOMAIN c
IsRemote(r)  == {"chain", "blob"} \subseteq DOMAIN r

Domains ==
  /\ DOMAIN ledger = Device /\ DOMAIN chosen = Device
  /\ DOMAIN pc = Device /\ DOMAIN ctx = Device
  /\ DOMAIN disturbed = Device

Elsewhere ==
  /\ IsRemote(remote)
  /\ remote.chain # None => IsLedger(remote.chain)
  /\ file # None => IsLedger(file)

\* The passphrase last set opens this ledger, with a salt that is tried.
Opened(d) ==
  /\ ledger[d].by = chosen[d]
  /\ ledger[d].salt = "new" => ledger[d].pub

\* A command that has a ledger open, or has written one, has one; and when
\* no command is about to set a passphrase, the one set last opens it.
Settled(d) ==
  /\ IsContext(ctx[d])
  /\ ledger[d] # None => IsLedger(ledger[d])
  /\ pc[d] \in {"open"} \cup Joining => IsLedger(ledger[d])
  /\ pc[d] = "ledger" => IsLedger(ctx[d].remote.chain)
  /\ pc[d] = "init" => ledger[d] = None
  /\ \/ pc[d] \in {"open", "cache"}
     \/ pc[d] = "idle" /\ ledger[d] # None
     => "kill" \in disturbed[d] \/ Opened(d)

Opens == Domains /\ Elsewhere /\ \A d \in Device : Settled(d)

-----------------------------------------------------------------------------
LEMMA OldLedgerFields ==
  ASSUME NEW s, NEW p, NEW e, NEW pub
  PROVE  /\ IsLedger(OldLedger(s, p, e, pub))
         /\ OldLedger(s, p, e, pub).by = p /\ OldLedger(s, p, e, pub).salt = "old"
BY DEF OldLedger, NewLedger, IsLedger

LEMMA Initially ==
  Init => Opens
<1> SUFFICES ASSUME Init PROVE Opens
  OBVIOUS
<1>1. Elsewhere /\ NoContext.from = None
  BY DEF Init, Elsewhere, IsRemote, NoContext
<1>2. \A d \in Device : IsContext(ctx[d]) /\ pc[d] = "idle"
  BY DEF Init, IsContext, NoContext
<1>3. CASE Fresh
  BY <1>1, <1>2, <1>3 DEF Init, Fresh, Opens, Domains, Settled, Joining
<1>4. CASE Veteran
  <2>1. PICK d \in Origin, s \in Seed, p \in Passphrase, e \in Entry, pub \in BOOLEAN :
          /\ ledger = [x \in Device |-> IF x = d THEN OldLedger(s, p, e, pub) ELSE None]
          /\ chosen = [x \in Device |-> IF x = d THEN p ELSE None]
    BY <1>4 DEF Veteran
  <2>2. /\ IsLedger(OldLedger(s, p, e, pub))
        /\ OldLedger(s, p, e, pub).by = p /\ OldLedger(s, p, e, pub).salt = "old"
    BY OldLedgerFields
  <2>3. Domains
    BY <2>1 DEF Init, Domains
  <2>4. \A x \in Device : Settled(x)
    BY <1>2, <2>1, <2>2 DEF Settled, Opened, Joining
  <2> QED BY <1>1, <2>3, <2>4 DEF Opens
<1> QED BY <1>3, <1>4 DEF Init

\* A step of device d leaves the others settled.
LEMMA StepOf ==
  ASSUME Opens, NEW d \in Device, Domains', Elsewhere', Settled(d)',
         \A x \in Device \ {d} :
           /\ ledger'[x] = ledger[x] /\ pc'[x] = pc[x] /\ ctx'[x] = ctx[x]
           /\ chosen'[x] = chosen[x] /\ disturbed[x] \subseteq disturbed'[x]
  PROVE  Opens'
BY DEF Opens, Settled, Opened

\* Disturbing others takes no disturbance back.
LEMMA Disturbs ==
  ASSUME NEW d, Disturb(d)
  PROVE  /\ DOMAIN disturbed' = Device
         /\ \A x \in Device : disturbed[x] \subseteq disturbed'[x]
         /\ d \in Device => disturbed'[d] = disturbed[d]
BY DEF Disturb

\* Fields of ledgers that commands write.
LEMMA ResealedFields ==
  ASSUME NEW l, IsLedger(l), NEW id, NEW p, NEW n
  PROVE  /\ IsLedger(Resealed(l, id, p, n)) /\ Resealed(l, id, p, n).by = p
         /\ Resealed(l, id, p, n).salt = "new" => Resealed(l, id, p, n).pub
BY DEF Resealed, SaltFor, IsLedger

LEMMA UpgradedFields ==
  ASSUME NEW l, IsLedger(l), NEW n
  PROVE  /\ IsLedger(Upgraded(l, n))
         /\ Upgraded(l, n).by = l.by /\ Upgraded(l, n).pub = l.pub
BY DEF Upgraded, IsLedger

-----------------------------------------------------------------------------
\* Steps that read ledgers, or write only what no ledger is read from.
LEMMA ReadingKeeps ==
  ASSUME Opens, NEW d \in Device,
         \/ Reuse(d) \/ Logout(d) \/ Export(d) \/ ImportStaging(d)
         \/ \E e \in Entry : Capture(d, e)
  PROVE  Opens'
<1>1. UNCHANGED <<ledger, chosen, disturbed, remote>>
  BY DEF Reuse, Logout, Export, ImportStaging, Capture, local, outside, history
<1>2. \/ pc' = pc /\ ctx' = ctx
      \/ /\ pc[d] = "open" \/ (pc[d] = "idle" /\ ledger[d] # None)
         /\ \E step \in {"idle", "open"} : pc' = [pc EXCEPT ![d] = step]
         /\ \/ ctx' = [ctx EXCEPT ![d] = NoContext]
            \/ ctx' = [ctx EXCEPT ![d].key = session[d]]
  BY DEF Reuse, Logout, Export, ImportStaging, Capture, control, Goto, Return,
         Opens, Settled
<1>3. file' = file \/ (file' = ledger[d] /\ ledger[d] # None)
  BY DEF Reuse, Logout, Export, ImportStaging, Capture, outside
<1>4. Domains'
  BY <1>1, <1>2 DEF Opens, Domains
<1>5. Elsewhere'
  BY <1>1, <1>3 DEF Opens, Elsewhere, Settled
<1>6. Settled(d)'
  BY <1>1, <1>2 DEF Opens, Domains, Settled, Opened, IsContext, NoContext, Joining
<1>7. \A x \in Device \ {d} : pc'[x] = pc[x] /\ ctx'[x] = ctx[x]
  BY <1>2 DEF Opens, Domains
<1> QED BY <1>1, <1>4, <1>5, <1>6, <1>7, StepOf

LEMMA AuthenticateKeeps ==
  ASSUME Opens, NEW d \in Device, NEW p \in Passphrase, Authenticate(d, p)
  PROVE  Opens'
<1>1. /\ UNCHANGED <<chosen, disturbed, remote, file>>
      /\ pc[d] = "idle" /\ ledger[d] # None /\ IsLedger(ledger[d])
  BY DEF Authenticate, outside, Opens, Settled
<1>2. \/ ledger' = ledger
      \/ /\ ledger' = [ledger EXCEPT ![d] = Upgraded(ledger[d], seals')]
         /\ ledger[d].pub
  BY DEF Authenticate
<1>3. \/ pc' = pc /\ ctx' = ctx
      \/ /\ pc' = [pc EXCEPT ![d] = "open"]
         /\ ctx' = [ctx EXCEPT ![d].key = ledger[d].seed]
  BY DEF Authenticate, control, Goto
<1>4. Domains' /\ Elsewhere'
  BY <1>1, <1>2, <1>3 DEF Opens, Domains, Elsewhere
<1>5. /\ IsLedger(ledger'[d]) /\ ledger'[d].by = ledger[d].by
      /\ ledger'[d].salt = "new" => ledger'[d].pub \/ ledger' = ledger
  <2>1. CASE ledger' = ledger
    BY <1>1, <2>1
  <2>2. CASE ledger' = [ledger EXCEPT ![d] = Upgraded(ledger[d], seals')]
             /\ ledger[d].pub
    <3>1. ledger'[d] = Upgraded(ledger[d], seals')
      BY <2>2 DEF Opens, Domains
    <3>2. /\ IsLedger(ledger'[d]) /\ ledger'[d].by = ledger[d].by
          /\ ledger'[d].pub = ledger[d].pub
      BY <1>1, <3>1, UpgradedFields
    <3> QED BY <2>2, <3>2
  <2> QED BY <1>2, <2>1, <2>2
<1>6. Settled(d)'
  <2>1. IsContext(ctx'[d]) /\ pc'[d] \in {"idle", "open"}
    BY <1>1, <1>3 DEF Opens, Domains, Settled, IsContext
  <2>2. "kill" \notin disturbed[d] => Opened(d)'
    BY <1>1, <1>5 DEF Opens, Settled, Opened
  <2> QED BY <1>1, <1>2, <1>5, <2>1, <2>2 DEF Settled, Opens, Domains
<1>7. \A x \in Device \ {d} : ledger'[x] = ledger[x] /\ pc'[x] = pc[x] /\ ctx'[x] = ctx[x]
  BY <1>2, <1>3 DEF Opens, Domains
<1> QED BY <1>1, <1>4, <1>6, <1>7, StepOf

LEMMA CommitKeeps ==
  ASSUME Opens, NEW d \in Device, NEW e \in Entry, Commit(d, e)
  PROVE  Opens'
<1>1. /\ UNCHANGED <<chosen, disturbed, remote, file>> /\ pc[d] = "open"
      /\ pc' = [pc EXCEPT ![d] = "idle"] /\ ctx' = [ctx EXCEPT ![d] = NoContext]
  BY DEF Commit, outside, history, Return, Goto
<1>2. IsLedger(ledger[d])
  BY <1>1 DEF Opens, Settled
<1>3. ledger' = ledger
      \/ \E bs : ledger' = [ledger EXCEPT ![d] = [ledger[d] EXCEPT !.blocks = bs]]
  BY DEF Commit
<1>4. /\ IsLedger(ledger'[d]) /\ ledger'[d].by = ledger[d].by
      /\ ledger'[d].salt = ledger[d].salt /\ ledger'[d].pub = ledger[d].pub
  <2>1. CASE ledger' = ledger
    BY <1>2, <2>1
  <2>2. ASSUME NEW bs,
               ledger' = [ledger EXCEPT ![d] = [ledger[d] EXCEPT !.blocks = bs]]
        PROVE  /\ IsLedger(ledger'[d]) /\ ledger'[d].by = ledger[d].by
               /\ ledger'[d].salt = ledger[d].salt
               /\ ledger'[d].pub = ledger[d].pub
    <3>1. ledger'[d] = [ledger[d] EXCEPT !.blocks = bs]
      BY <2>2 DEF Opens, Domains
    <3> QED BY <1>2, <3>1 DEF IsLedger
  <2> QED BY <1>3, <2>1, <2>2
<1>5. Domains' /\ Elsewhere'
  BY <1>1, <1>3 DEF Opens, Domains, Elsewhere
<1>6. Settled(d)'
  BY <1>1, <1>2, <1>4 DEF Opens, Domains, Settled, Opened, IsContext, NoContext, Joining
<1>7. \A x \in Device \ {d} : ledger'[x] = ledger[x] /\ pc'[x] = pc[x] /\ ctx'[x] = ctx[x]
  BY <1>1, <1>3 DEF Opens, Domains
<1> QED BY <1>1, <1>5, <1>6, <1>7, StepOf

LEMMA PublishKeeps ==
  ASSUME Opens, NEW d \in Device, Publish(d)
  PROVE  Opens'
<1>1. /\ UNCHANGED <<ledger, chosen, file>> /\ pc[d] = "open"
      /\ pc' = [pc EXCEPT ![d] = "idle"] /\ ctx' = [ctx EXCEPT ![d] = NoContext]
      /\ Disturb(d)
      /\ \E blob : remote' = [chain |-> ledger[d], blob |-> blob]
  BY DEF Publish, local, Return, Goto
<1>2. /\ DOMAIN disturbed' = Device /\ disturbed'[d] = disturbed[d]
      /\ \A x \in Device : disturbed[x] \subseteq disturbed'[x]
  BY <1>1, Disturbs DEF Opens, Domains
<1>3. IsLedger(ledger[d])
  BY <1>1 DEF Opens, Settled
<1>4. Domains' /\ Elsewhere'
  <2>1. PICK blob0 : remote' = [chain |-> ledger[d], blob |-> blob0]
    BY <1>1
  <2>2. IsRemote(remote') /\ remote'.chain = ledger[d]
    BY <2>1 DEF IsRemote
  <2> QED BY <1>1, <1>2, <1>3, <2>2 DEF Opens, Domains, Elsewhere
<1>5. Settled(d)'
  BY <1>1, <1>2 DEF Opens, Domains, Settled, Opened, IsContext, NoContext, Joining
<1>6. \A x \in Device \ {d} : pc'[x] = pc[x] /\ ctx'[x] = ctx[x]
  BY <1>1 DEF Opens, Domains
<1> QED BY <1>1, <1>2, <1>4, <1>5, <1>6, StepOf

LEMMA ForeignBlobKeeps ==
  ASSUME Opens, NEW s \in Seed, ForeignBlob(s)
  PROVE  Opens'
<1>1. /\ UNCHANGED <<ledger, chosen, file, pc, ctx>> /\ Disturb(None)
      /\ \E blob : remote' = [remote EXCEPT !.blob = blob]
  BY DEF ForeignBlob, local, control
<1>2. /\ DOMAIN disturbed' = Device
      /\ \A x \in Device : disturbed[x] \subseteq disturbed'[x]
  BY <1>1, Disturbs DEF Opens, Domains
<1>3. Domains' /\ Elsewhere'
  BY <1>1, <1>2 DEF Opens, Domains, Elsewhere, IsRemote
<1> QED BY <1>1, <1>2, <1>3 DEF Opens, Settled, Opened

\* ph init forgets the ledger before it makes one.
LEMMA InitKeeps ==
  ASSUME Opens, NEW d \in Device,
         StartInit(d) \/ \E s \in Seed, p \in Passphrase : FinishInit(d, s, p)
  PROVE  Opens'
<1>1. CASE StartInit(d)
  <2>1. /\ UNCHANGED <<chosen, disturbed, remote, file, ctx>>
        /\ ledger' = [ledger EXCEPT ![d] = None] /\ pc' = [pc EXCEPT ![d] = "init"]
    BY <1>1 DEF StartInit, outside, history, Goto
  <2>2. Domains' /\ Elsewhere'
    BY <2>1 DEF Opens, Domains, Elsewhere
  <2>3. Settled(d)'
    BY <2>1 DEF Opens, Domains, Settled, Joining
  <2>4. \A x \in Device \ {d} : ledger'[x] = ledger[x] /\ pc'[x] = pc[x]
    BY <2>1 DEF Opens, Domains
  <2> QED BY <2>1, <2>2, <2>3, <2>4, StepOf
<1>2. ASSUME NEW s \in Seed, NEW p \in Passphrase, FinishInit(d, s, p)
      PROVE  Opens'
  <2>1. /\ UNCHANGED <<remote, file>>
        /\ ledger' = [ledger EXCEPT ![d] = NewLedger(s, p, seals')]
        /\ chosen' = [chosen EXCEPT ![d] = p]
        /\ disturbed' = [disturbed EXCEPT ![d] = {}]
        /\ pc' = [pc EXCEPT ![d] = "idle"] /\ ctx' = [ctx EXCEPT ![d] = NoContext]
    BY <1>2 DEF FinishInit, outside, Goto, Return
  <2>2. Domains' /\ Elsewhere'
    BY <2>1 DEF Opens, Domains, Elsewhere
  <2>3. /\ IsLedger(NewLedger(s, p, seals')) /\ NewLedger(s, p, seals').by = p
        /\ NewLedger(s, p, seals').salt = "old"
    BY DEF NewLedger, IsLedger
  <2>4. /\ ledger'[d] = NewLedger(s, p, seals') /\ chosen'[d] = p
        /\ pc'[d] = "idle" /\ ctx'[d] = NoContext
        /\ \A x \in Device \ {d} :
             /\ ledger'[x] = ledger[x] /\ pc'[x] = pc[x] /\ ctx'[x] = ctx[x]
             /\ chosen'[x] = chosen[x] /\ disturbed'[x] = disturbed[x]
    BY <2>1 DEF Opens, Domains
  <2>5. Settled(d)'
    BY <2>3, <2>4 DEF Settled, Opened, IsContext, NoContext, Joining
  <2> QED BY <2>2, <2>4, <2>5, StepOf
<1> QED BY <1>1, <1>2

\* Onboarding has a ledger from its first write to its last.
LEMMA FetchKeeps ==
  ASSUME Opens, NEW d \in Device, NEW s \in Seed,
         StartOnboarding(d, s) \/ StartImport(d, s)
  PROVE  Opens'
<1>1. /\ UNCHANGED <<chosen, remote, file>>
      /\ disturbed' = [disturbed EXCEPT ![d] = {}]
  BY DEF StartOnboarding, StartImport, outside
<1>2. \/ /\ ledger' = [ledger EXCEPT ![d] = remote.chain] /\ remote.chain # None
         /\ pc' = [pc EXCEPT ![d] = "identity"]
         /\ ctx' = [ctx EXCEPT ![d] = [key |-> s, from |-> "remote", remote |-> remote]]
      \/ /\ ledger' = ledger /\ file # None
         /\ pc' = [pc EXCEPT ![d] = "ledger"]
         /\ ctx' = [ctx EXCEPT ![d] = [key |-> s, from |-> "file",
                                       remote |-> [chain |-> file, blob |-> None]]]
  BY DEF StartOnboarding, StartImport, Goto
<1>3. Domains' /\ Elsewhere'
  BY <1>1, <1>2 DEF Opens, Domains, Elsewhere
<1>4. Settled(d)'
  BY <1>2 DEF Opens, Domains, Elsewhere, Settled, IsContext, Joining
<1>5. \A x \in Device \ {d} :
        /\ ledger'[x] = ledger[x] /\ pc'[x] = pc[x] /\ ctx'[x] = ctx[x]
        /\ chosen'[x] = chosen[x] /\ disturbed'[x] = disturbed[x]
  BY <1>1, <1>2 DEF Opens, Domains
<1> QED BY <1>3, <1>4, <1>5, StepOf

LEMMA BringKeeps ==
  ASSUME Opens, NEW d \in Device,
         \/ ImportLedger(d) \/ ExtractIdentity(d)
         \/ PullStaging(d) \/ Quarantine(d)
  PROVE  Opens'
<1>1. UNCHANGED <<chosen, disturbed, remote, file, ctx>>
  BY DEF ImportLedger, ExtractIdentity, PullStaging, Quarantine, outside, history
<1>2. \/ /\ pc[d] = "ledger" /\ ledger' = [ledger EXCEPT ![d] = ctx[d].remote.chain]
         /\ pc' = [pc EXCEPT ![d] = "identity"]
      \/ /\ pc[d] \in Joining /\ ledger' = ledger
         /\ \E step \in {"staging", "quarantine", "delete", "passphrase"} :
              pc' = [pc EXCEPT ![d] = step]
  BY DEF ImportLedger, ExtractIdentity, PullStaging, Quarantine, Goto, Joining
<1>3. Domains' /\ Elsewhere'
  BY <1>1, <1>2 DEF Opens, Domains, Elsewhere
<1>4. Settled(d)'
  BY <1>1, <1>2 DEF Opens, Domains, Settled, Joining
<1>5. \A x \in Device \ {d} : ledger'[x] = ledger[x] /\ pc'[x] = pc[x]
  BY <1>2 DEF Opens, Domains
<1> QED BY <1>1, <1>3, <1>4, <1>5, StepOf

LEMMA DeleteBlobKeeps ==
  ASSUME Opens, NEW d \in Device, DeleteBlob(d)
  PROVE  Opens'
<1>1. /\ UNCHANGED <<ledger, chosen, file, ctx>> /\ Disturb(d)
      /\ pc[d] = "delete" /\ pc' = [pc EXCEPT ![d] = "passphrase"]
      /\ remote' = [remote EXCEPT !.blob = None]
  BY DEF DeleteBlob, Goto
<1>2. /\ DOMAIN disturbed' = Device /\ disturbed'[d] = disturbed[d]
      /\ \A x \in Device : disturbed[x] \subseteq disturbed'[x]
  BY <1>1, Disturbs DEF Opens, Domains
<1>3. Domains' /\ Elsewhere'
  BY <1>1, <1>2 DEF Opens, Domains, Elsewhere, IsRemote
<1>4. Settled(d)'
  BY <1>1 DEF Opens, Domains, Settled, Joining
<1>5. \A x \in Device \ {d} : pc'[x] = pc[x]
  BY <1>1 DEF Opens, Domains
<1> QED BY <1>1, <1>2, <1>3, <1>4, <1>5, StepOf

\* The one step that settles anew what opens the ledger.
LEMMA SetPassphraseKeeps ==
  ASSUME Opens, NEW d \in Device, NEW p \in Passphrase, SetPassphrase(d, p)
  PROVE  Opens'
<1>1. /\ UNCHANGED <<disturbed, remote, file, ctx>>
      /\ ledger' = [ledger EXCEPT ![d] = Resealed(ledger[d], identity[d], p, seals')]
      /\ chosen' = [chosen EXCEPT ![d] = p]
      /\ pc[d] = "passphrase" /\ pc' = [pc EXCEPT ![d] = "cache"]
  BY DEF SetPassphrase, outside, Goto
<1>2. IsLedger(ledger[d])
  BY <1>1 DEF Opens, Settled, Joining
<1>3. /\ ledger'[d] = Resealed(ledger[d], identity[d], p, seals')
      /\ chosen'[d] = p /\ pc'[d] = "cache"
      /\ \A x \in Device \ {d} :
           ledger'[x] = ledger[x] /\ chosen'[x] = chosen[x] /\ pc'[x] = pc[x]
  BY <1>1 DEF Opens, Domains
<1>4. /\ IsLedger(ledger'[d]) /\ ledger'[d].by = p
      /\ ledger'[d].salt = "new" => ledger'[d].pub
  BY <1>2, <1>3, ResealedFields
<1>5. Domains' /\ Elsewhere'
  BY <1>1 DEF Opens, Domains, Elsewhere
<1>6. Settled(d)'
  BY <1>1, <1>3, <1>4 DEF Opens, Settled, Opened
<1> QED BY <1>1, <1>3, <1>5, <1>6, StepOf

LEMMA EndKeeps ==
  ASSUME Opens, NEW d \in Device, CacheKey(d) \/ Kill(d)
  PROVE  Opens'
<1>1. /\ UNCHANGED <<ledger, chosen, remote, file>>
      /\ pc' = [pc EXCEPT ![d] = "idle"] /\ ctx' = [ctx EXCEPT ![d] = NoContext]
      /\ \/ pc[d] = "cache" /\ disturbed' = disturbed
         \/ disturbed' = [disturbed EXCEPT ![d] = @ \cup {"kill"}]
  BY DEF CacheKey, Kill, Return, Goto, local, outside, history
<1>2. Domains' /\ Elsewhere'
  BY <1>1 DEF Opens, Domains, Elsewhere
<1>3. Settled(d)'
  BY <1>1 DEF Opens, Domains, Settled, Opened, IsContext, NoContext, Joining
<1>4. \A x \in Device \ {d} :
        pc'[x] = pc[x] /\ ctx'[x] = ctx[x] /\ disturbed'[x] = disturbed[x]
  BY <1>1 DEF Opens, Domains
<1> QED BY <1>1, <1>2, <1>3, <1>4, StepOf

\* A wrong seed at ph recover spoils the chain, but the passphrase that was
\* typed in with it opens the ledger, under the old salt.
LEMMA RecoverKeeps ==
  ASSUME Opens, NEW d \in Device, NEW s \in Seed, NEW p \in Passphrase,
         Recover(d, s, p)
  PROVE  Opens'
<1>1. PICK wrong :
        /\ IsLedger(ledger[d]) => /\ IsLedger(wrong)
                                  /\ wrong.by = p /\ wrong.salt = "old"
        /\ ledger' = [ledger EXCEPT ![d] = wrong]
        /\ \/ remote' = remote
           \/ \E bs : remote' = [remote EXCEPT !.chain = [wrong EXCEPT !.blocks = bs]]
  <2> DEFINE head == [Seal(seals + 1) EXCEPT !.over = TRUE]
             wrong == [ledger[d] EXCEPT !.seed = s, !.fallback = identity[d], !.by = p,
                         !.salt = "old", !.n = seals + 1,
                         !.blocks = Relinked(head, ledger[d].blocks, s)]
  <2>1. IsLedger(ledger[d]) => IsLedger(wrong) /\ wrong.by = p /\ wrong.salt = "old"
    BY DEF IsLedger
  <2>2. ledger' = [ledger EXCEPT ![d] = wrong]
    BY DEF Recover
  <2>3. \/ remote' = remote
        \/ \E bs : remote' = [remote EXCEPT !.chain = [wrong EXCEPT !.blocks = bs]]
    BY DEF Recover
  <2> QED BY <2>1, <2>2, <2>3
<1>2. /\ UNCHANGED <<file, pc, ctx>> /\ Disturb(d) /\ pc[d] = "idle" /\ ledger[d] # None
      /\ chosen' = [chosen EXCEPT ![d] = p]
  BY DEF Recover, control
<1>3. IsLedger(wrong) /\ wrong.by = p /\ wrong.salt = "old"
  BY <1>1, <1>2 DEF Opens, Settled
<1>4. /\ DOMAIN disturbed' = Device /\ disturbed'[d] = disturbed[d]
      /\ \A x \in Device : disturbed[x] \subseteq disturbed'[x]
  BY <1>2, Disturbs DEF Opens, Domains
<1>5. Domains'
  BY <1>1, <1>2, <1>4 DEF Opens, Domains
<1>6. Elsewhere'
  BY <1>1, <1>2, <1>3 DEF Opens, Elsewhere, IsRemote, IsLedger
<1>7. /\ ledger'[d] = wrong /\ chosen'[d] = p
      /\ \A x \in Device \ {d} : ledger'[x] = ledger[x] /\ chosen'[x] = chosen[x]
  BY <1>1, <1>2 DEF Opens, Domains
<1>8. Settled(d)'
  BY <1>2, <1>3, <1>7 DEF Opens, Settled, Opened, Joining
<1> QED BY <1>2, <1>4, <1>5, <1>6, <1>7, <1>8, StepOf

LEMMA MigrateKeeps ==
  ASSUME Opens, NEW d \in Device, NEW p \in Passphrase, Migrate(d, p)
  PROVE  Opens'
<1> DEFINE new == [ledger[d] EXCEPT !.field = "block_hash", !.hash = Seal(ledger[d].n),
                     !.blocks = Relinked(Seal(ledger[d].n), ledger[d].blocks, ledger[d].seed),
                     !.upgraded = FALSE]
<1>1. /\ UNCHANGED <<chosen, disturbed, remote, file, pc, ctx>>
      /\ pc[d] = "idle" /\ ledger[d] # None /\ ledger[d].salt = "old"
      /\ ledger' = [ledger EXCEPT ![d] = new]
  BY DEF Migrate, outside, control, history
<1>2. /\ ledger'[d] = new
      /\ \A x \in Device \ {d} : ledger'[x] = ledger[x]
  BY <1>1 DEF Opens, Domains
<1>3. IsLedger(new) /\ new.by = ledger[d].by /\ new.salt = "old"
  BY <1>1 DEF Opens, Settled, IsLedger
<1>4. Domains' /\ Elsewhere'
  BY <1>1 DEF Opens, Domains, Elsewhere
<1>5. Settled(d)'
  <2> HIDE DEF new
  <2> QED BY <1>1, <1>2, <1>3 DEF Opens, Settled, Opened, Joining
<1> QED BY <1>1, <1>2, <1>4, <1>5, StepOf

-----------------------------------------------------------------------------
LEMMA Inductive ==
  ASSUME Opens, [Next]_vars
  PROVE  Opens'
<1>1. CASE UNCHANGED vars
  BY <1>1 DEF vars, local, outside, control, history, Opens, Domains, Elsewhere,
              Settled, Opened
<1>2. ASSUME NEW d \in Device,
             \/ Reuse(d) \/ Logout(d) \/ StartInit(d) \/ Kill(d)
             \/ \E e \in Entry : Capture(d, e) \/ Commit(d, e)
             \/ \E p \in Passphrase : Authenticate(d, p) \/ Migrate(d, p)
             \/ \E s \in Seed, p \in Passphrase : FinishInit(d, s, p) \/ Recover(d, s, p)
      PROVE  Opens'
  BY <1>2, ReadingKeeps, InitKeeps, EndKeeps, CommitKeeps, AuthenticateKeeps,
     MigrateKeeps, RecoverKeeps
<1>3. ASSUME NEW d \in Origin, Publish(d) \/ Export(d)
      PROVE  Opens'
  BY <1>3, RoleAssumption, PublishKeeps, ReadingKeeps
<1>4. ASSUME NEW d \in Joiner,
             \/ ImportStaging(d) \/ ImportLedger(d) \/ ExtractIdentity(d)
             \/ PullStaging(d) \/ Quarantine(d) \/ DeleteBlob(d) \/ CacheKey(d)
             \/ \E s \in Seed : StartOnboarding(d, s) \/ StartImport(d, s)
             \/ \E p \in Passphrase : SetPassphrase(d, p)
      PROVE  Opens'
  BY <1>4, RoleAssumption, ReadingKeeps, BringKeeps, DeleteBlobKeeps, EndKeeps,
     FetchKeeps, SetPassphraseKeeps
<1>5. ASSUME NEW s \in Seed, ForeignBlob(s)
      PROVE  Opens'
  BY <1>5, ForeignBlobKeeps
<1> QED BY <1>1, <1>2, <1>3, <1>4, <1>5 DEF Next

\* Whatever ph init, authentication, onboarding, ph recover and migration do,
\* in any order and on any number of devices: once no command runs and none was
\* killed on the way, the passphrase last set on a device opens its ledger with
\* a salt that authenticate tries (auth.py, candidates).
THEOREM PassphraseAlwaysOpens == Spec => []PassphraseOpens
<1>1. Init => Opens
  BY Initially
<1>2. Opens /\ [Next]_vars => Opens'
  BY Inductive
<1>3. Opens => PassphraseOpens
  BY DEF Opens, Settled, Opened, PassphraseOpens
<1> QED BY <1>1, <1>2, <1>3, PTL DEF Spec

-----------------------------------------------------------------------------
\* Every ledger there is, in the files of the devices and elsewhere.
Around ==
  (({ledger[d] : d \in Device} \cup {remote.chain, file}) \ {None})
    \cup {ledger[d] : d \in {x \in Device : pc[x] \in {"open"} \cup Joining}}
    \cup {ctx[d].remote.chain : d \in {x \in Device : pc[x] = "ledger"}}

BlockFields == {"id", "key", "sealed", "prev", "fmt"}

\* A ledger of seeds among m, of passphrases and entries there are, and of one of
\* the first n encryptions.
Shaped(l, m, n) ==
  /\ {"seed", "fallback", "origin", "by", "n", "hash", "blocks", "upgraded"}
       \subseteq DOMAIN l
  /\ l.seed \in Seed /\ l.origin \in m /\ l.n \in 0..n /\ l.by \in Passphrase
  /\ \E S : l.blocks \in Seq(S)
  /\ \A i \in DOMAIN l.blocks :
       BlockFields \subseteq DOMAIN l.blocks[i] /\ l.blocks[i].id \in Entry

\* A command works with the key of the ledger it has opened or fetched.
Working(d) ==
  /\ identity[d] \in Seed \cup {None} /\ session[d] \in Seed \cup {None}
  /\ DOMAIN staging[d] \subseteq Entry
  /\ pc[d] \in Steps /\ (pc[d] \in {"idle", "init"}) = (ctx[d] = NoContext)
  /\ pc[d] \in {"open"} \cup Joining => ctx[d].key = ledger[d].seed
  /\ pc[d] = "ledger" => ctx[d].key = ctx[d].remote.chain.seed

FilesOfDevices ==
  /\ DOMAIN identity = Device /\ DOMAIN staging = Device
  /\ DOMAIN session = Device /\ DOMAIN quarantine = Device

Typed ==
  /\ FilesOfDevices
  /\ seals \in 0..MaxSeals /\ faults \in 0..MaxFaults
  /\ remote.blob # None => DOMAIN remote.blob.entries \subseteq Entry
  /\ \A l \in Around : Shaped(l, made, seals)
  /\ \A d \in Device : Working(d)

\* A ledger under the seed it was made with holds the identity secret of that
\* seed and blocks of its key, and verifies unless genesis was sealed again.
Own(l) ==
  l.seed = l.origin =>
    /\ l.fallback = l.origin
    /\ \A i \in DOMAIN l.blocks : l.blocks[i].key = l.seed
    /\ \/ Verified(l, l.seed)
       \/ l.upgraded \/ \E i \in DOMAIN l.blocks : l.blocks[i].fmt

\* Only ph recover makes one that is not, and what onboarding extracts is the
\* identity of the ledger it brings.
Keyed ==
  /\ \A l \in Around : Own(l) /\ (faults = 0 => l.seed = l.origin)
  /\ \A d \in Device :
       /\ pc[d] \in {"staging", "quarantine", "delete", "passphrase"}
       /\ ledger[d].seed = ledger[d].origin
       => identity[d] = ledger[d].seed

\* What an onboarding from a remote has brought by now and, while nobody else
\* writes, what is still where it found it.
Bringing(d) ==
  LET found == ctx[d].remote IN
  pc[d] \in Joining /\ ctx[d].from = "remote" =>
    /\ Ids(found.chain) \subseteq Ids(ledger[d])
    /\ pc[d] = "delete" =>
         remote.blob \in quarantine[d] \cup {None} \/ "delete" \in disturbed[d]
    /\ "read" \notin disturbed[d] =>
         /\ pc[d] \in Reading => remote.blob = found.blob
         /\ pc[d] \in {"quarantine", "delete"} =>
              found.blob # None /\ found.blob.key # ctx[d].key
         /\ pc[d] = "delete" => found.blob \in quarantine[d]
         /\ pc[d] \in {"passphrase", "cache"} /\ found.blob # None =>
              IF found.blob.key = ctx[d].key
                THEN DOMAIN found.blob.entries \subseteq DOMAIN staging[d]
                ELSE found.blob \in quarantine[d]

Brings ==
  \A d \in Device : Bringing(d) /\ (pc[d] = "ledger" => ctx[d].from = "file")

-----------------------------------------------------------------------------

\* Blocks sealed again: each keeps its entry and its key, and a ledger whose
\* genesis has the hash they start from verifies. That the hash each of them
\* names exists at all is by induction on the length of the chain.
LEMMA RelinkedBlocks ==
  ASSUME NEW S, NEW blocks \in Seq(S), NEW head, NEW k,
         \A i \in DOMAIN blocks : BlockFields \subseteq DOMAIN blocks[i]
  PROVE  LET new == Relinked(head, blocks, k) IN
         /\ \E T : new \in Seq(T)
         /\ DOMAIN new = DOMAIN blocks
         /\ \A i \in DOMAIN blocks :
              /\ BlockFields \subseteq DOMAIN new[i]
              /\ new[i].id = blocks[i].id /\ new[i].key = blocks[i].key
         /\ \A l : l.blocks = new /\ l.hash = head => Verified(l, k)
<1> DEFINE new == Relinked(head, blocks, k)
           Sealed(i, p) == [blocks[i] EXCEPT !.prev = p, !.sealed = k, !.fmt = FALSE]
           H(i, p) == HashOf(Sealed(i, p))
           Body(p, n) == [i \in 1..n |-> IF i = 1 THEN head ELSE H(i - 1, p[i - 1])]
           T == {n \in Nat : \E p : p = Body(p, n)}
<1>1. T = Nat
  <2> HIDE DEF H
  <2>1. 0 \in T
    <3>1. <<>> = Body(<<>>, 0)
      OBVIOUS
    <3> QED BY <3>1
  <2>2. ASSUME NEW n \in T
        PROVE  n + 1 \in T
    <3>1. PICK p : p = Body(p, n)
      OBVIOUS
    <3> DEFINE q == Body(p, n + 1)
    <3>2. \A i \in 1..n : q[i] = p[i]
      BY <3>1
    <3>3. \A i \in 1..(n + 1) : i # 1 => i - 1 \in 1..n
      OBVIOUS
    <3>4. \A i \in 1..(n + 1) : i # 1 => H(i - 1, q[i - 1]) = H(i - 1, p[i - 1])
      BY <3>2, <3>3
    <3>5. q = Body(q, n + 1)
      BY <3>4
    <3>6. n + 1 \in Nat
      OBVIOUS
    <3> HIDE DEF q, Body
    <3>7. \E r : r = Body(r, n + 1)
      BY <3>5
    <3> QED BY <3>6, <3>7
  <2> HIDE DEF T
  <2>3. T \in SUBSET Nat
    BY DEF T
  <2> QED BY <2>1, <2>2, <2>3, Induction
<1>2. \E p : p = Body(p, Len(blocks))
  <2>1. Len(blocks) \in T
    <3> HIDE DEF T
    <3> QED BY <1>1
  <2> HIDE DEF Body
  <2> QED BY <2>1
<1>3. DOMAIN blocks = 1..Len(blocks)
  OBVIOUS
<1> DEFINE prev == CHOOSE p : p = [i \in DOMAIN blocks |->
                     IF i = 1 THEN head ELSE HashOf(Sealed(i - 1, p[i - 1]))]
<1>4. prev = [i \in DOMAIN blocks |->
                IF i = 1 THEN head ELSE HashOf(Sealed(i - 1, prev[i - 1]))]
  BY <1>2, <1>3, ZenonT(30)
<1>5. new = [i \in DOMAIN blocks |-> Sealed(i, prev[i])]
  BY DEF Relinked
<1> HIDE DEF new
<1>6. \A i \in DOMAIN blocks :
        /\ new[i] = Sealed(i, prev[i]) /\ BlockFields \subseteq DOMAIN new[i]
        /\ new[i].prev = prev[i] /\ new[i].sealed = k /\ ~new[i].fmt
        /\ new[i].id = blocks[i].id /\ new[i].key = blocks[i].key
  BY <1>5 DEF BlockFields
<1>7. \A i \in DOMAIN blocks :
        prev[i] = IF i = 1 THEN head ELSE HashOf(Sealed(i - 1, prev[i - 1]))
  <2> HIDE DEF prev
  <2> QED BY <1>4
<1>8. DOMAIN new = DOMAIN blocks
  BY <1>5
<1> HIDE DEF prev, Sealed
<1>9. \A i \in DOMAIN blocks : i # 1 => i - 1 \in DOMAIN blocks
  BY <1>3
<1>10. ASSUME NEW l, l.blocks = new, l.hash = head
       PROVE  Verified(l, k)
  <2>1. \A i \in DOMAIN blocks : l.blocks[i].prev = HashBefore(l, i)
    BY <1>6, <1>7, <1>9, <1>10 DEF HashBefore
  <2> QED BY <1>6, <1>8, <1>10, <2>1 DEF Verified, Linked
<1>11. \E X : new \in Seq(X)
  <2> DEFINE X == {new[i] : i \in DOMAIN new}
  <2>1. new = [i \in 1..Len(blocks) |-> new[i]]
    BY <1>3, <1>5
  <2>2. Len(blocks) \in Nat /\ \A i \in 1..Len(blocks) : new[i] \in X
    BY <1>3, <1>8
  <2> HIDE DEF X
  <2>3. new \in Seq(X)
    BY <2>1, <2>2
  <2> QED BY <2>3
<1>12. /\ \E X : new \in Seq(X)
       /\ DOMAIN new = DOMAIN blocks
       /\ \A i \in DOMAIN blocks :
            /\ BlockFields \subseteq DOMAIN new[i]
            /\ new[i].id = blocks[i].id /\ new[i].key = blocks[i].key
       /\ \A l : l.blocks = new /\ l.hash = head => Verified(l, k)
  BY <1>6, <1>8, <1>10, <1>11
<1> QED BY <1>12 DEF new

-----------------------------------------------------------------------------
(***************************************************************************)
(* Where ledgers come from.                                                *)
(***************************************************************************)
\* A step of device d that writes the ledgers in W, or none.
LEMMA AroundStep ==
  ASSUME NEW d \in Device, NEW W,
         ledger'[d] # None \/ pc'[d] \in {"open"} \cup Joining
           => ledger'[d] \in Around \cup W,
         pc'[d] = "ledger" => ctx'[d].remote.chain \in Around \cup W,
         remote'.chain # None => remote'.chain \in Around \cup W,
         file' # None => file' \in Around \cup W,
         \A x \in Device \ {d} :
           ledger'[x] = ledger[x] /\ pc'[x] = pc[x] /\ ctx'[x] = ctx[x]
  PROVE  Around' \subseteq Around \cup W
<1> SUFFICES ASSUME NEW l \in Around', l \notin W
             PROVE  l \in Around
  OBVIOUS
<1>1. \A x \in Device \ {d} :
        /\ ledger[x] # None \/ pc[x] \in {"open"} \cup Joining => ledger[x] \in Around
        /\ pc[x] = "ledger" => ctx[x].remote.chain \in Around
  BY DEF Around
<1>2. \/ l # None /\ (l = remote'.chain \/ l = file')
      \/ \E x \in Device : /\ l = ledger'[x]
                           /\ ledger'[x] # None \/ pc'[x] \in {"open"} \cup Joining
      \/ \E x \in Device : l = ctx'[x].remote.chain /\ pc'[x] = "ledger"
  BY DEF Around
<1>3. CASE l # None /\ (l = remote'.chain \/ l = file')
  BY <1>3
<1>4. ASSUME NEW x \in Device, l = ledger'[x],
             ledger'[x] # None \/ pc'[x] \in {"open"} \cup Joining
      PROVE  l \in Around
  BY <1>1, <1>4
<1>5. ASSUME NEW x \in Device, l = ctx'[x].remote.chain, pc'[x] = "ledger"
      PROVE  l \in Around
  BY <1>1, <1>5
<1> QED BY <1>2, <1>3, <1>4, <1>5

\* Commands that hand ledgers on as they are.
Handing(d) ==
  \/ Reuse(d) \/ Logout(d) \/ StartInit(d) \/ Kill(d) \/ Publish(d) \/ Export(d)
  \/ ImportStaging(d) \/ ImportLedger(d) \/ ExtractIdentity(d) \/ PullStaging(d)
  \/ Quarantine(d) \/ DeleteBlob(d) \/ CacheKey(d)
  \/ \E e \in Entry : Capture(d, e)
  \/ \E s \in Seed : StartOnboarding(d, s) \/ StartImport(d, s)

LEMMA HandedOn ==
  ASSUME Opens, NEW d \in Device, Handing(d)
  PROVE  Around' \subseteq Around
<1>1. \/ remote' = remote
      \/ pc[d] = "open" /\ \E blob : remote' = [chain |-> ledger[d], blob |-> blob]
      \/ remote' = [remote EXCEPT !.blob = None]
  BY DEF Handing, Reuse, Logout, StartInit, Kill, Publish, Export, ImportStaging,
         ImportLedger, ExtractIdentity, PullStaging, Quarantine, DeleteBlob,
         CacheKey, Capture, StartOnboarding, StartImport, outside
<1>2. file' = file \/ (file' = ledger[d] /\ ledger[d] # None)
  BY DEF Handing, Reuse, Logout, StartInit, Kill, Publish, Export, ImportStaging,
         ImportLedger, ExtractIdentity, PullStaging, Quarantine, DeleteBlob,
         CacheKey, Capture, StartOnboarding, StartImport, outside
<1>3. \/ ledger' = ledger /\ pc' = pc /\ ctx' = ctx
      \/ /\ ledger' = ledger /\ pc[d] = "idle" /\ ledger[d] # None
         /\ pc' = [pc EXCEPT ![d] = "open"]
         /\ \E c : ctx' = [ctx EXCEPT ![d] = c]
      \/ /\ ledger' = [ledger EXCEPT ![d] = remote.chain] /\ remote.chain # None
         /\ pc' = [pc EXCEPT ![d] = "identity"]
         /\ \E c : ctx' = [ctx EXCEPT ![d] = c]
      \/ /\ ledger' = ledger /\ file # None /\ pc[d] = "idle"
         /\ pc' = [pc EXCEPT ![d] = "ledger"]
         /\ \E c : c.remote.chain = file /\ ctx' = [ctx EXCEPT ![d] = c]
      \/ /\ pc[d] = "ledger" /\ ledger' = [ledger EXCEPT ![d] = ctx[d].remote.chain]
         /\ pc' = [pc EXCEPT ![d] = "identity"] /\ ctx' = ctx
      \/ /\ pc[d] \in Joining /\ ledger' = ledger /\ ctx' = ctx
         /\ \E step \in Joining : pc' = [pc EXCEPT ![d] = step]
      \/ /\ ledger' = ledger \/ ledger' = [ledger EXCEPT ![d] = None]
         /\ \E step \in {"idle", "init"} : pc' = [pc EXCEPT ![d] = step]
         /\ ctx' = ctx \/ ctx' = [ctx EXCEPT ![d] = NoContext]
  <2>1. CASE Reuse(d)
    <3>1. ctx' = [ctx EXCEPT ![d] = [ctx[d] EXCEPT !.key = session[d]]]
      BY <2>1 DEF Reuse
    <3> QED BY <2>1, <3>1 DEF Reuse, local, Goto
  <2>2. CASE Logout(d) \/ Export(d) \/ ImportStaging(d)
    BY <2>2 DEF Logout, Export, ImportStaging, local, control
  <2>3. CASE ~Reuse(d) /\ ~Logout(d) /\ ~Export(d) /\ ~ImportStaging(d)
    BY <2>3 DEF Handing, StartInit, Kill, Publish, ImportLedger, ExtractIdentity,
                PullStaging, Quarantine, DeleteBlob, CacheKey, Capture,
                StartOnboarding, StartImport, local, Goto, Return, Joining
  <2> QED BY <2>1, <2>2, <2>3
<1>4. /\ ledger[d] # None \/ pc[d] \in {"open"} \cup Joining => ledger[d] \in Around
      /\ pc[d] = "ledger" => ctx[d].remote.chain \in Around
      /\ remote.chain # None => remote.chain \in Around
      /\ file # None => file \in Around
  BY DEF Around
<1>5. /\ ledger'[d] # None \/ pc'[d] \in {"open"} \cup Joining => ledger'[d] \in Around
      /\ pc'[d] = "ledger" => ctx'[d].remote.chain \in Around
      /\ \A x \in Device \ {d} :
           ledger'[x] = ledger[x] /\ pc'[x] = pc[x] /\ ctx'[x] = ctx[x]
  BY <1>3, <1>4 DEF Opens, Domains, Joining
<1>6. remote'.chain # None => remote'.chain \in Around
  BY <1>1, <1>4 DEF Opens, Elsewhere, IsRemote
<1>7. Around' \subseteq Around \cup {}
  BY <1>2, <1>4, <1>5, <1>6, AroundStep
<1> QED BY <1>7

\* Commands that write a ledger m of their own.
Writing(d, m) ==
  /\ ledger'[d] = m /\ file' = file /\ pc'[d] # "ledger"
  /\ \A x \in Device \ {d} :
       ledger'[x] = ledger[x] /\ pc'[x] = pc[x] /\ ctx'[x] = ctx[x]

LEMMA WrittenAround ==
  ASSUME NEW d \in Device, NEW W, NEW m \in W, Writing(d, m),
         remote'.chain # remote.chain => remote'.chain \in W
  PROVE  Around' \subseteq Around \cup W
<1>1. /\ file # None => file \in Around
      /\ remote.chain # None => remote.chain \in Around
  BY DEF Around
<1>2. remote'.chain # None => remote'.chain \in Around \cup W
  BY <1>1
<1> QED BY <1>1, <1>2, AroundStep DEF Writing

\* What Migrate, Commit and Recover write.
Migrated(l) ==
  [l EXCEPT !.field = "block_hash", !.hash = Seal(l.n),
            !.blocks = Relinked(Seal(l.n), l.blocks, l.seed), !.upgraded = FALSE]

NextBlock(l, e, k) ==
  [id |-> e, key |-> k, sealed |-> k, fmt |-> FALSE,
   prev |-> IF l.blocks = <<>> THEN l.hash ELSE HashOf(Last(l.blocks))]

Extended(l, e, k) == [l EXCEPT !.blocks = Append(@, NextBlock(l, e, k))]

Spoilt(l, id, s, p, n) ==
  [l EXCEPT !.seed = s, !.fallback = id, !.by = p, !.salt = "old", !.n = n,
            !.blocks = Relinked([Seal(n) EXCEPT !.over = TRUE], l.blocks, s)]

LEMMA ShapedLater ==
  ASSUME NEW l, NEW M, NEW n \in Nat, Shaped(l, M, n), NEW M2, M \subseteq M2,
         NEW n2 \in Nat, n <= n2
  PROVE  Shaped(l, M2, n2)
BY DEF Shaped

\* What may change in a ledger: who it opens for, the number of the encryption
\* and its blocks, if they still are blocks of entries.
LEMMA Reshaped ==
  ASSUME NEW l, NEW M, NEW n \in Nat, Shaped(l, M, n), NEW m,
         DOMAIN m = DOMAIN l, m.seed \in Seed, m.origin = l.origin,
         m.n \in 0..n, m.by \in Passphrase,
         \E S : m.blocks \in Seq(S),
         \A i \in DOMAIN m.blocks :
           BlockFields \subseteq DOMAIN m.blocks[i] /\ m.blocks[i].id \in Entry
  PROVE  Shaped(m, M, n)
BY DEF Shaped

LEMMA UpgradedSound ==
  ASSUME NEW l, NEW M, NEW n \in Nat, Shaped(l, M, n)
  PROVE  /\ Shaped(Upgraded(l, n), M, n)
         /\ Upgraded(l, n).seed = l.seed /\ Upgraded(l, n).origin = l.origin
         /\ Own(l) => Own(Upgraded(l, n))
<1> DEFINE m == Upgraded(l, n)
<1>1. /\ DOMAIN m = DOMAIN l /\ m.seed = l.seed /\ m.origin = l.origin /\ m.n = n
      /\ m.by = l.by /\ m.fallback = l.fallback /\ m.blocks = l.blocks
      /\ m.upgraded = (l.blocks # <<>>)
  BY DEF Shaped, Upgraded
<1> HIDE DEF m
<1>2. Shaped(m, M, n)
  BY <1>1, Reshaped DEF Shaped
<1>3. ASSUME Own(l) PROVE Own(m)
  <2>1. CASE l.blocks # <<>>
    BY <1>1, <1>3, <2>1 DEF Own
  <2>2. CASE l.blocks = <<>>
    <3>1. Verified(m, m.seed)
      BY <1>1, <2>2 DEF Verified, Linked
    <3> QED BY <1>1, <1>3, <3>1 DEF Own
  <2> QED BY <2>1, <2>2
<1> QED BY <1>1, <1>2, <1>3 DEF m

LEMMA ResealedSound ==
  ASSUME NEW l, NEW M, NEW n \in Nat, Shaped(l, M, n), NEW p \in Passphrase, NEW id,
         NEW m, m = Resealed(l, id, p, n)
  PROVE  /\ Shaped(m, M, n)
         /\ m.seed = l.seed /\ m.origin = l.origin
         /\ \A i \in DOMAIN l.blocks :
              i \in DOMAIN m.blocks /\ m.blocks[i].id = l.blocks[i].id
         /\ Own(l) /\ (l.seed = l.origin => id = l.seed) => Own(m)
<1> DEFINE head == [Seal(n) EXCEPT !.over = TRUE]
           new == Relinked(head, l.blocks, l.seed)
<1>1. /\ DOMAIN m = DOMAIN l /\ m.seed = l.seed /\ m.origin = l.origin /\ m.n = n
      /\ m.by = p /\ m.fallback = (IF id = None THEN l.fallback ELSE id)
      /\ m.blocks = new /\ m.hash = head
  BY DEF Shaped, Resealed
<1>2. /\ \E T : new \in Seq(T)
      /\ DOMAIN new = DOMAIN l.blocks
      /\ \A i \in DOMAIN l.blocks :
           /\ BlockFields \subseteq DOMAIN new[i]
           /\ new[i].id = l.blocks[i].id /\ new[i].key = l.blocks[i].key
      /\ \A x : x.blocks = new /\ x.hash = head => Verified(x, l.seed)
  <2> HIDE DEF head
  <2> QED BY RelinkedBlocks DEF Shaped
<1> HIDE DEF head, new
<1>3. Shaped(m, M, n)
  BY <1>1, <1>2, Reshaped DEF Shaped
<1>4. \A i \in DOMAIN l.blocks : i \in DOMAIN m.blocks /\ m.blocks[i].id = l.blocks[i].id
  BY <1>1, <1>2
<1>5. ASSUME Own(l), l.seed = l.origin => id = l.seed
      PROVE  Own(m)
  BY <1>1, <1>2, <1>5 DEF Own
<1> QED BY <1>1, <1>3, <1>4, <1>5

LEMMA MigratedSound ==
  ASSUME NEW l, NEW M, NEW n \in Nat, Shaped(l, M, n)
  PROVE  /\ Shaped(Migrated(l), M, n)
         /\ Migrated(l).seed = l.seed /\ Migrated(l).origin = l.origin
         /\ Own(l) => Own(Migrated(l))
<1> DEFINE m == Migrated(l)
           head == Seal(l.n)
           new == Relinked(head, l.blocks, l.seed)
<1>1. /\ DOMAIN m = DOMAIN l /\ m.seed = l.seed /\ m.origin = l.origin /\ m.n = l.n
      /\ m.by = l.by /\ m.fallback = l.fallback
      /\ m.blocks = new /\ m.hash = head
  <2> HIDE DEF new, head
  <2>1. m = [l EXCEPT !.field = "block_hash", !.hash = head, !.blocks = new,
                      !.upgraded = FALSE]
    BY DEF Migrated, new, head
  <2> HIDE DEF m
  <2> QED BY <2>1 DEF Shaped
<1>2. /\ \E T : new \in Seq(T)
      /\ DOMAIN new = DOMAIN l.blocks
      /\ \A i \in DOMAIN l.blocks :
           /\ BlockFields \subseteq DOMAIN new[i]
           /\ new[i].id = l.blocks[i].id /\ new[i].key = l.blocks[i].key
      /\ \A x : x.blocks = new /\ x.hash = head => Verified(x, l.seed)
  <2> HIDE DEF head
  <2> QED BY RelinkedBlocks DEF Shaped
<1> HIDE DEF m, head, new
<1>3. Shaped(m, M, n)
  BY <1>1, <1>2, Reshaped DEF Shaped
<1>4. ASSUME Own(l) PROVE Own(m)
  BY <1>1, <1>2, <1>4 DEF Own
<1> QED BY <1>1, <1>3, <1>4 DEF m

LEMMA ExtendedSound ==
  ASSUME NEW l, NEW M, NEW n \in Nat, Shaped(l, M, n), NEW e \in Entry
  PROVE  LET m == Extended(l, e, l.seed) IN
         /\ Shaped(m, M, n)
         /\ m.seed = l.seed /\ m.origin = l.origin
         /\ Own(l) /\ Verified(m, l.seed) => Own(m)
<1> DEFINE m == Extended(l, e, l.seed)
           b == NextBlock(l, e, l.seed)
<1>1. b.id = e /\ b.key = l.seed /\ BlockFields \subseteq DOMAIN b
  BY DEF NextBlock, BlockFields
<1> HIDE DEF b
<1>2. /\ DOMAIN m = DOMAIN l /\ m.seed = l.seed /\ m.origin = l.origin /\ m.n = l.n
      /\ m.by = l.by /\ m.fallback = l.fallback /\ m.blocks = Append(l.blocks, b)
  BY DEF Shaped, Extended, b
<1> HIDE DEF m
<1>3. PICK S : l.blocks \in Seq(S)
  BY DEF Shaped
<1>4. l.blocks \in Seq(S \cup {b})
  BY <1>3
<1>5. m.blocks \in Seq(S \cup {b})
  BY <1>2, <1>4
<1>6. \A i \in DOMAIN m.blocks :
        m.blocks[i] = b \/ (i \in DOMAIN l.blocks /\ m.blocks[i] = l.blocks[i])
  BY <1>2, <1>4
<1>7. \A i \in DOMAIN m.blocks :
        BlockFields \subseteq DOMAIN m.blocks[i] /\ m.blocks[i].id \in Entry
  BY <1>1, <1>6 DEF Shaped
<1>8. Shaped(m, M, n)
  BY <1>2, <1>5, <1>7, Reshaped DEF Shaped
<1>9. ASSUME Own(l), Verified(m, l.seed) PROVE Own(m)
  BY <1>1, <1>2, <1>6, <1>9 DEF Own
<1> QED BY <1>2, <1>8, <1>9 DEF m

LEMMA NewLedgerSound ==
  ASSUME NEW M, NEW n \in Nat, NEW s \in Seed \cap M, NEW p \in Passphrase,
         NEW m, m = NewLedger(s, p, n)
  PROVE  Shaped(m, M, n) /\ m.seed = m.origin /\ Own(m)
<1>1. /\ {"seed", "fallback", "origin", "by", "n", "hash", "blocks", "upgraded"}
           \subseteq DOMAIN m
      /\ m.seed = s /\ m.origin = s /\ m.fallback = s /\ m.n = n /\ m.by = p
      /\ m.blocks = <<>>
  BY DEF NewLedger
<1>2. <<>> \in Seq({}) /\ DOMAIN <<>> = {}
  OBVIOUS
<1>3. Verified(m, s)
  BY <1>1, <1>2 DEF Verified, Linked
<1> QED BY <1>1, <1>2, <1>3 DEF Shaped, Own

\* What ph recover makes of a ledger under a wrong seed.
LEMMA SpoiltShaped ==
  ASSUME NEW l, NEW M, NEW n \in Nat, Shaped(l, M, n), NEW id, NEW s \in Seed,
         NEW p \in Passphrase, NEW m, m = Spoilt(l, id, s, p, n)
  PROVE  Shaped(m, M, n) /\ m.seed = s /\ m.origin = l.origin
<1> DEFINE head == [Seal(n) EXCEPT !.over = TRUE]
           new == Relinked(head, l.blocks, s)
<1>1. /\ DOMAIN m = DOMAIN l /\ m.seed = s /\ m.origin = l.origin /\ m.n = n
      /\ m.by = p /\ m.blocks = new
  BY DEF Shaped, Spoilt
<1>2. /\ \E T : new \in Seq(T)
      /\ DOMAIN new = DOMAIN l.blocks
      /\ \A i \in DOMAIN l.blocks :
           /\ BlockFields \subseteq DOMAIN new[i]
           /\ new[i].id = l.blocks[i].id /\ new[i].key = l.blocks[i].key
  <2> HIDE DEF head
  <2> QED BY RelinkedBlocks DEF Shaped
<1> HIDE DEF head, new
<1>3. Shaped(m, M, n)
  BY <1>1, <1>2, Reshaped DEF Shaped
<1> QED BY <1>1, <1>3

\* The chain that is pushed then is the spoilt one and what the remote had beyond it.
LEMMA LengthenedShaped ==
  ASSUME NEW m, NEW M, NEW n \in Nat, Shaped(m, M, n), NEW more,
         \/ more = <<>>
         \/ \E r, i : /\ Shaped(r, M, n) /\ i \in Nat \ {0}
                      /\ more = SubSeq(r.blocks, i, Len(r.blocks)),
         NEW pushed, DOMAIN pushed = DOMAIN m, pushed.seed = m.seed,
         pushed.origin = m.origin, pushed.n = m.n, pushed.by = m.by,
         pushed.blocks = m.blocks \o more
  PROVE  Shaped(pushed, M, n)
<1>1. /\ \E T : more \in Seq(T)
      /\ \A i \in DOMAIN more :
           BlockFields \subseteq DOMAIN more[i] /\ more[i].id \in Entry
  <2>1. CASE more = <<>>
    <3>1. <<>> \in Seq({}) /\ DOMAIN <<>> = {}
      OBVIOUS
    <3> QED BY <2>1, <3>1
  <2>2. ASSUME NEW r, NEW k \in Nat \ {0}, Shaped(r, M, n),
               more = SubSeq(r.blocks, k, Len(r.blocks))
        PROVE  /\ \E T : more \in Seq(T)
               /\ \A i \in DOMAIN more :
                    BlockFields \subseteq DOMAIN more[i] /\ more[i].id \in Entry
    <3>1. PICK T : r.blocks \in Seq(T)
      BY <2>2 DEF Shaped
    <3>2. more \in Seq(T)
      BY <2>2, <3>1
    <3>3. \A i \in DOMAIN more : \E j \in DOMAIN r.blocks : more[i] = r.blocks[j]
      BY <2>2, <3>1
    <3> QED BY <2>2, <3>2, <3>3 DEF Shaped
  <2> QED BY <2>1, <2>2
<1>2. PICK S : m.blocks \in Seq(S)
  BY DEF Shaped
<1>3. PICK T : more \in Seq(T)
  BY <1>1
<1>4. m.blocks \in Seq(S \cup T) /\ more \in Seq(S \cup T)
  BY <1>2, <1>3
<1>5. pushed.blocks \in Seq(S \cup T)
  BY <1>4
<1>6. \A i \in DOMAIN pushed.blocks :
        \/ i \in DOMAIN m.blocks /\ pushed.blocks[i] = m.blocks[i]
        \/ \E j \in DOMAIN more : pushed.blocks[i] = more[j]
  <2> TAKE i \in DOMAIN pushed.blocks
  <2>1. i \in 1..(Len(m.blocks) + Len(more))
    BY <1>4
  <2>2. CASE i <= Len(m.blocks)
    BY <1>4, <2>1, <2>2
  <2>3. CASE i > Len(m.blocks)
    BY <1>4, <2>1, <2>3
  <2> QED BY <1>4, <2>1, <2>2, <2>3
<1>7. \A i \in DOMAIN pushed.blocks :
        BlockFields \subseteq DOMAIN pushed.blocks[i] /\ pushed.blocks[i].id \in Entry
  BY <1>1, <1>6 DEF Shaped
<1> QED
  BY <1>5, <1>7, Reshaped DEF Shaped

-----------------------------------------------------------------------------
(***************************************************************************)
(* Type correctness.                                                       *)
(***************************************************************************)
LEMMA OldLedgerSound ==
  ASSUME NEW s \in Seed, NEW p \in Passphrase, NEW e \in Entry, NEW pub
  PROVE  LET m == OldLedger(s, p, e, pub) IN
         Shaped(m, {s}, 0) /\ m.seed = m.origin /\ Own(m)
<1> DEFINE m == OldLedger(s, p, e, pub)
<1>1. PICK b : /\ BlockFields \subseteq DOMAIN b /\ b.id = e /\ b.key = s /\ b.fmt
               /\ m.blocks = <<b>>
  BY DEF OldLedger, NewLedger, BlockFields
<1>2. /\ {"seed", "fallback", "origin", "by", "n", "hash", "blocks", "upgraded"}
           \subseteq DOMAIN m
      /\ m.seed = s /\ m.origin = s /\ m.fallback = s /\ m.n = 0 /\ m.by = p
  BY DEF OldLedger, NewLedger
<1> HIDE DEF m
<1>3. <<b>> \in Seq({b}) /\ DOMAIN <<b>> = {1} /\ <<b>>[1] = b
  OBVIOUS
<1>4. Shaped(m, {s}, 0)
  <2>1. \E S : m.blocks \in Seq(S)
    BY <1>1, <1>3
  <2>2. \A i \in DOMAIN m.blocks :
          BlockFields \subseteq DOMAIN m.blocks[i] /\ m.blocks[i].id \in Entry
    BY <1>1, <1>3
  <2> QED BY <1>2, <2>1, <2>2 DEF Shaped
<1>5. Own(m)
  BY <1>1, <1>2, <1>3 DEF Own
<1> QED BY <1>2, <1>4, <1>5 DEF m

LEMMA SoundInitially ==
  Init => Typed /\ Keyed /\ Brings
<1> SUFFICES ASSUME Init PROVE Typed /\ Keyed /\ Brings
  OBVIOUS
<1>1. /\ remote.chain = None /\ remote.blob = None /\ file = None
      /\ \A d \in Device : pc[d] = "idle" /\ ctx[d] = NoContext
  BY DEF Init
<1>2. \A l \in Around : Shaped(l, made, 0) /\ l.seed = l.origin /\ Own(l)
  <2>1. \A l \in Around : l # None /\ \E d \in Device : l = ledger[d]
    BY <1>1 DEF Around, Joining
  <2>2. CASE Fresh
    BY <2>1, <2>2 DEF Fresh
  <2>3. CASE Veteran
    <3>1. PICK d \in Origin, s \in Seed, p \in Passphrase, e \in Entry, pub \in BOOLEAN :
            /\ ledger = [x \in Device |-> IF x = d THEN OldLedger(s, p, e, pub) ELSE None]
            /\ made = {s}
      BY <2>3 DEF Veteran
    <3> QED BY <2>1, <3>1, OldLedgerSound
  <2> QED BY <2>2, <2>3 DEF Init
<1>3. \A d \in Device : identity[d] \in Seed \cup {None}
  BY DEF Init, Fresh, Veteran
<1>4. \A d \in Device : Working(d)
  BY <1>1, <1>3 DEF Init, Working, Steps, Joining
<1>5. seals \in 0..MaxSeals /\ faults \in 0..MaxFaults /\ seals = 0
  BY SealsAssumption DEF Init
<1>6. FilesOfDevices
  BY DEF Init, Fresh, Veteran, FilesOfDevices
<1>7. Typed
  BY <1>1, <1>2, <1>4, <1>5, <1>6 DEF Typed
<1> QED BY <1>1, <1>2, <1>7 DEF Keyed, Brings, Bringing, Joining

LEMMA TypedStep ==
  ASSUME Typed, NEW d \in Device,
         \A l \in Around' \ Around : Shaped(l, made', seals'),
         FilesOfDevices', made \subseteq made', seals' \in seals..MaxSeals,
         faults' \in 0..MaxFaults,
         remote'.blob # None => DOMAIN remote'.blob.entries \subseteq Entry,
         Working(d)',
         \A x \in Device \ {d} :
           /\ ledger'[x] = ledger[x] /\ pc'[x] = pc[x] /\ ctx'[x] = ctx[x]
           /\ identity'[x] = identity[x] /\ session'[x] = session[x]
           /\ staging'[x] = staging[x]
  PROVE  Typed'
<1>1. seals \in Nat /\ seals' \in Nat /\ seals <= seals' /\ seals' \in 0..MaxSeals
  BY SealsAssumption DEF Typed
<1>2. \A l \in Around' : Shaped(l, made', seals')
  BY <1>1, ShapedLater DEF Typed
<1>3. \A x \in Device : Working(x)'
  BY DEF Typed, Working
<1> QED BY <1>1, <1>2, <1>3 DEF Typed

LEMMA LedgerOfCommand ==
  ASSUME Typed, NEW d \in Device
  PROVE  /\ ledger[d] # None \/ pc[d] \in {"open"} \cup Joining
              => /\ ledger[d] \in Around
                 /\ Shaped(ledger[d], made, seals)
                 /\ ledger[d].seed \in Seed /\ ledger[d].seed # None
         /\ pc[d] = "ledger" => /\ ctx[d].remote.chain \in Around
                                /\ ctx[d].remote.chain.seed \in Seed
                                /\ ctx[d].remote.chain.seed # None
         /\ \A l \in {remote.chain, file} \ {None} :
              l \in Around /\ l.seed \in Seed /\ l.seed # None
BY NoneAssumption DEF Typed, Around, Shaped

\* Keys in the session file and in the files that onboarding writes.
LEMMA HandingTyped ==
  ASSUME Opens, Typed, NEW d \in Device, Handing(d)
  PROVE  Typed'
<1>1. Around' \subseteq Around
  BY HandedOn
<1>2. UNCHANGED <<made, seals>> /\ faults' \in 0..MaxFaults
  <2>1. UNCHANGED <<made, seals>>
        /\ (faults' = faults \/ (faults < MaxFaults /\ faults' = faults + 1))
    BY DEF Handing, Reuse, Logout, StartInit, Kill, Publish, Export, ImportStaging,
           ImportLedger, ExtractIdentity, PullStaging, Quarantine, DeleteBlob,
           CacheKey, Capture, StartOnboarding, StartImport, history, Fault
  <2> QED BY <2>1, SealsAssumption DEF Typed
<1>3. seals' \in seals..MaxSeals
  BY <1>2 DEF Typed
<1> USE LedgerOfCommand
<1>4. /\ identity' = identity \/ \E s \in Seed \cup {None} : identity' = [identity EXCEPT ![d] = s]
      /\ session' = session \/ \E s \in Seed \cup {None} : session' = [session EXCEPT ![d] = s]
      /\ staging' = staging
           \/ \E f : DOMAIN f \subseteq Entry /\ staging' = [staging EXCEPT ![d] = f]
      /\ quarantine' = quarantine \/ \E q : quarantine' = [quarantine EXCEPT ![d] = q]
      /\ remote'.blob # None => DOMAIN remote'.blob.entries \subseteq Entry
  <2>1. CASE Reuse(d) \/ Logout(d) \/ Kill(d) \/ Export(d) \/ ImportLedger(d)
             \/ (\E s \in Seed : StartOnboarding(d, s))
    BY <2>1 DEF Typed, Reuse, Logout, Kill, Export, ImportLedger, StartOnboarding,
                local, outside
  <2>2. CASE StartInit(d) \/ ImportStaging(d) \/ (\E s \in Seed : StartImport(d, s))
    <3>1. /\ \/ identity' = identity
             \/ identity' = [identity EXCEPT ![d] = IF ledger[d] = None THEN @ ELSE None]
          /\ session' = session \/ session' = [session EXCEPT ![d] = None]
          /\ staging' = staging \/ staging' = [staging EXCEPT ![d] = <<>>]
          /\ quarantine' = quarantine /\ remote' = remote
      BY <2>2 DEF StartInit, ImportStaging, StartImport, outside
    <3>2. DOMAIN <<>> = {}
      OBVIOUS
    <3>3. \E s \in Seed \cup {None} : \/ identity' = identity
                                    \/ identity' = [identity EXCEPT ![d] = s]
      <4>1. identity[d] \in Seed \cup {None}
        BY DEF Typed, Working
      <4> QED BY <3>1, <4>1
    <3> QED BY <3>1, <3>2, <3>3 DEF Typed
  <2>3. CASE Publish(d)
    <3>1. /\ UNCHANGED <<identity, session, staging, quarantine>>
          /\ remote'.blob.entries = staging[d]
      BY <2>3 DEF Publish, local
    <3> QED BY <3>1 DEF Typed, Working
  <2>4. CASE ExtractIdentity(d)
    <3>1. /\ UNCHANGED <<session, staging, quarantine, remote>>
          /\ pc[d] \in Joining
          /\ \/ identity' = [identity EXCEPT ![d] = ctx[d].key]
             \/ identity' = [identity EXCEPT ![d] = identity[d]]
      BY <2>4 DEF ExtractIdentity, outside, Joining
    <3> QED BY <3>1 DEF Typed, Working
  <2>5. CASE PullStaging(d)
    <3>1. /\ UNCHANGED <<identity, session, quarantine, remote>>
          /\ \/ staging' = staging
             \/ remote.blob = None /\ staging' = [staging EXCEPT ![d] = <<>>]
             \/ remote.blob # None /\ staging' = [staging EXCEPT ![d] = remote.blob.entries]
      BY <2>5 DEF PullStaging, outside
    <3>2. DOMAIN <<>> = {}
      OBVIOUS
    <3> QED BY <3>1, <3>2 DEF Typed
  <2>6. CASE Quarantine(d)
    BY <2>6 DEF Quarantine, outside, Typed
  <2>7. CASE DeleteBlob(d)
    <3>1. /\ UNCHANGED <<identity, session, quarantine>>
          /\ staging' = [staging EXCEPT ![d] = <<>>]
          /\ remote' = [remote EXCEPT !.blob = None]
      BY <2>7 DEF DeleteBlob
    <3>2. DOMAIN <<>> = {} /\ remote'.blob = None
      BY <3>1 DEF Opens, Elsewhere, IsRemote
    <3> QED BY <3>1, <3>2
  <2>8. CASE CacheKey(d)
    <3>1. /\ UNCHANGED <<identity, staging, quarantine, remote>>
          /\ session' = [session EXCEPT ![d] = ctx[d].key]
          /\ pc[d] \in Joining
      BY <2>8 DEF CacheKey, outside, Joining
    <3> QED BY <3>1 DEF Typed, Working
  <2>9. ASSUME NEW e \in Entry, Capture(d, e)
        PROVE  <1>4
    <3>1. /\ UNCHANGED <<identity, session, quarantine, remote>>
          /\ \E f : DOMAIN f = DOMAIN staging[d] \cup {e}
                    /\ staging' = [staging EXCEPT ![d] = f]
      BY <2>9 DEF Capture, outside
    <3> QED BY <3>1 DEF Typed, Working
  <2> QED BY <2>1, <2>2, <2>3, <2>4, <2>5, <2>6, <2>7, <2>8, <2>9 DEF Handing
<1>5. /\ FilesOfDevices'
      /\ identity'[d] \in Seed \cup {None} /\ session'[d] \in Seed \cup {None}
      /\ DOMAIN staging'[d] \subseteq Entry
      /\ \A x \in Device \ {d} :
           /\ identity'[x] = identity[x] /\ session'[x] = session[x]
           /\ staging'[x] = staging[x]
  <2>1. /\ identity[d] \in Seed \cup {None} /\ session[d] \in Seed \cup {None}
        /\ DOMAIN staging[d] \subseteq Entry /\ FilesOfDevices
    BY DEF Typed, Working
  <2> QED BY <1>4, <2>1 DEF FilesOfDevices
<1>6. /\ \/ ledger' = ledger \/ \E l : ledger' = [ledger EXCEPT ![d] = l]
      /\ pc' = pc \/ \E step : pc' = [pc EXCEPT ![d] = step]
      /\ ctx' = ctx \/ \E c : ctx' = [ctx EXCEPT ![d] = c]
  <2>1. CASE Reuse(d)
    <3>1. ctx' = [ctx EXCEPT ![d] = [ctx[d] EXCEPT !.key = session[d]]]
      BY <2>1 DEF Reuse
    <3> QED BY <2>1, <3>1 DEF Reuse, local, Goto
  <2>2. CASE Logout(d) \/ Export(d) \/ ImportStaging(d)
    BY <2>2 DEF Logout, Export, ImportStaging, local, control
  <2>3. CASE ~Reuse(d) /\ ~Logout(d) /\ ~Export(d) /\ ~ImportStaging(d)
    BY <2>3 DEF Handing, StartInit, Kill, Publish, ImportLedger, ExtractIdentity,
                PullStaging, Quarantine, DeleteBlob, CacheKey, Capture,
                StartOnboarding, StartImport, local, Goto, Return
  <2> QED BY <2>1, <2>2, <2>3
<1>7. \A x \in Device \ {d} :
        ledger'[x] = ledger[x] /\ pc'[x] = pc[x] /\ ctx'[x] = ctx[x]
  BY <1>6 DEF Opens, Domains
<1>8. /\ pc'[d] \in Steps /\ (pc'[d] \in {"idle", "init"}) = (ctx'[d] = NoContext)
      /\ pc'[d] \in {"open"} \cup Joining => ctx'[d].key = ledger'[d].seed
      /\ pc'[d] = "ledger" => ctx'[d].key = ctx'[d].remote.chain.seed
  <2> USE DEF Opens, Domains
  <2>0. Working(d) /\ NoContext.key = None
    BY DEF Typed, NoContext
  <2>1. CASE Reuse(d)
    <3>1. /\ ledger' = ledger /\ ledger[d] # None /\ pc'[d] = "open"
          /\ session[d] = ledger[d].seed
          /\ ctx'[d] = [ctx[d] EXCEPT !.key = session[d]]
      BY <2>1 DEF Reuse, local, Goto, Fits
    <3>2. ctx'[d].key = ledger'[d].seed
      BY <3>1 DEF Settled, IsContext
    <3>3. ledger[d].seed # None
      BY <3>1
    <3>4. ctx'[d] # NoContext
      BY <2>0, <3>1, <3>2, <3>3
    <3> QED BY <3>1, <3>2, <3>4 DEF Steps
  <2>2. CASE Logout(d) \/ Export(d) \/ ImportStaging(d)
    BY <2>0, <2>2 DEF Logout, Export, ImportStaging, local, control, Working
  <2>3. CASE Kill(d) \/ Publish(d) \/ CacheKey(d) \/ (\E e \in Entry : Capture(d, e))
    <3>1. pc'[d] = "idle" /\ ctx'[d] = NoContext
      BY <2>3 DEF Kill, Publish, CacheKey, Capture, Return, Goto
    <3> QED BY <3>1 DEF Steps, Joining
  <2>4. CASE StartInit(d)
    <3>1. pc'[d] = "init" /\ ctx' = ctx /\ pc[d] = "idle"
      BY <2>4 DEF StartInit, Goto
    <3> QED BY <2>0, <3>1 DEF Steps, Joining, Working
  <2>5. CASE \E s \in Seed : StartOnboarding(d, s)
    <3>1. PICK s \in Seed : StartOnboarding(d, s)
      BY <2>5
    <3>2. /\ pc'[d] = "identity" /\ ctx'[d].key = s
          /\ ledger'[d] = remote.chain /\ remote.chain.seed = s
      BY <3>1 DEF StartOnboarding, Goto
    <3> QED BY <2>0, <3>2, NoneAssumption DEF Steps, Joining
  <2>6. CASE \E s \in Seed : StartImport(d, s)
    <3>1. PICK s \in Seed : StartImport(d, s)
      BY <2>6
    <3>2. /\ pc'[d] = "ledger" /\ ctx'[d].key = s
          /\ ctx'[d].remote.chain = file /\ file.seed = s
      BY <3>1 DEF StartImport, Goto, Importable, Fits
    <3> QED BY <2>0, <3>2, NoneAssumption DEF Steps, Joining
  <2>7. CASE ImportLedger(d)
    <3>1. /\ pc[d] = "ledger" /\ pc'[d] = "identity" /\ ctx' = ctx
          /\ ledger'[d] = ctx[d].remote.chain
      BY <2>7 DEF ImportLedger, Goto
    <3> QED BY <2>0, <3>1 DEF Steps, Joining, Working
  <2>8. CASE ExtractIdentity(d) \/ PullStaging(d) \/ Quarantine(d) \/ DeleteBlob(d)
    <3>1. pc[d] \in Joining /\ pc'[d] \in Joining /\ ctx' = ctx /\ ledger' = ledger
      BY <2>8 DEF ExtractIdentity, PullStaging, Quarantine, DeleteBlob, Goto, Joining
    <3> QED BY <2>0, <3>1 DEF Steps, Joining, Working
  <2> QED BY <2>1, <2>2, <2>3, <2>4, <2>5, <2>6, <2>7, <2>8 DEF Handing
<1>9. Working(d)'
  BY <1>5, <1>8 DEF Working
<1>10. made \subseteq made' /\ \A l \in Around' \ Around : Shaped(l, made', seals')
  BY <1>1, <1>2
<1>11. remote'.blob # None => DOMAIN remote'.blob.entries \subseteq Entry
  BY <1>4
<1>12. \A x \in Device \ {d} :
         /\ ledger'[x] = ledger[x] /\ pc'[x] = pc[x] /\ ctx'[x] = ctx[x]
         /\ identity'[x] = identity[x] /\ session'[x] = session[x]
         /\ staging'[x] = staging[x]
  BY <1>5, <1>7
<1> QED BY <1>2, <1>3, <1>5, <1>9, <1>10, <1>11, <1>12, TypedStep

\* What the commands that write a ledger do to it and to the rest.
LEMMA AuthenticateWrites ==
  ASSUME Opens, Typed, NEW d \in Device, NEW p \in Passphrase, Authenticate(d, p)
  PROVE  /\ Typed'
         /\ Writing(d, ledger'[d]) /\ remote' = remote /\ faults' = faults
         /\ pc'[d] \in {"idle", "open"} /\ ledger[d] \in Around
         /\ ledger'[d].seed = ledger[d].seed /\ ledger'[d].origin = ledger[d].origin
         /\ Own(ledger[d]) => Own(ledger'[d])
<1> DEFINE l == ledger[d]
           old == p = l.by /\ l.salt = "old" /\ l.pub
<1> USE DEF Opens, Domains
<1>1. /\ UNCHANGED <<identity, staging, quarantine, remote, file, made, faults>>
      /\ pc[d] = "idle" /\ l # None
      /\ old => seals < MaxSeals
      /\ seals' = IF old THEN seals + 1 ELSE seals
      /\ ledger' = IF old THEN [ledger EXCEPT ![d] = Upgraded(l, seals')] ELSE ledger
      /\ session' = [session EXCEPT ![d] = IF p = l.by THEN l.seed ELSE None]
      /\ IF p = l.by
           THEN /\ pc' = [pc EXCEPT ![d] = "open"]
                /\ ctx' = [ctx EXCEPT ![d].key = l.seed]
           ELSE pc' = pc /\ ctx' = ctx
  BY DEF Authenticate, outside, control, Goto
<1>2. /\ l \in Around /\ Shaped(l, made, seals) /\ l.seed \in Seed /\ l.seed # None
      /\ Working(d) /\ Settled(d) /\ FilesOfDevices /\ seals \in 0..MaxSeals
  BY <1>1, LedgerOfCommand DEF Typed
<1>3. seals \in Nat /\ seals' \in Nat /\ seals <= seals' /\ seals' \in seals..MaxSeals
  BY <1>1, <1>2, SealsAssumption
<1>4. Shaped(l, made, seals')
  BY <1>2, <1>3, ShapedLater
<1>5. /\ Shaped(ledger'[d], made, seals')
      /\ ledger'[d].seed = l.seed /\ ledger'[d].origin = l.origin
      /\ Own(l) => Own(ledger'[d])
  <2>1. CASE old
    <3>1. ledger'[d] = Upgraded(l, seals')
      BY <1>1, <2>1
    <3> HIDE DEF l, old
    <3> QED BY <1>3, <1>4, <3>1, UpgradedSound
  <2>2. CASE ~old
    BY <1>1, <1>4, <2>2
  <2> QED BY <2>1, <2>2
<1>6. \A x \in Device \ {d} :
        /\ ledger'[x] = ledger[x] /\ pc'[x] = pc[x] /\ ctx'[x] = ctx[x]
        /\ session'[x] = session[x]
  BY <1>1, <1>2 DEF FilesOfDevices
<1>7. pc'[d] \in {"idle", "open"}
  BY <1>1
<1>8. Working(d)'
  <2>1. /\ identity'[d] = identity[d] /\ staging'[d] = staging[d]
        /\ session'[d] \in Seed \cup {None}
    BY <1>1, <1>2 DEF FilesOfDevices
  <2>2. CASE p = l.by
    <3>1. pc'[d] = "open" /\ ctx'[d].key = l.seed
      BY <1>1, <1>2, <2>2 DEF Settled, IsContext
    <3>2. ctx'[d] # NoContext
      BY <1>2, <3>1 DEF NoContext
    <3> HIDE DEF l
    <3> QED BY <1>2, <1>5, <2>1, <3>1, <3>2 DEF Working, Steps
  <2>3. CASE p # l.by
    BY <1>1, <1>2, <2>1, <2>3 DEF Working, Joining
  <2> QED BY <2>2, <2>3
<1>9. Writing(d, ledger'[d]) /\ remote' = remote
  BY <1>1, <1>6, <1>7 DEF Writing
<1>10. Around' \subseteq Around \cup {ledger'[d]}
  BY <1>9, WrittenAround
<1>11. FilesOfDevices'
  BY <1>1, <1>2 DEF FilesOfDevices
<1>12. Typed'
  BY <1>1, <1>2, <1>3, <1>5, <1>6, <1>8, <1>10, <1>11, TypedStep DEF Typed
<1> QED BY <1>1, <1>2, <1>5, <1>7, <1>9, <1>12

LEMMA MigrateWrites ==
  ASSUME Opens, Typed, NEW d \in Device, NEW p \in Passphrase, Migrate(d, p)
  PROVE  /\ Typed'
         /\ Writing(d, ledger'[d]) /\ remote' = remote /\ faults' = faults
         /\ pc'[d] \in {"idle", "open"} /\ ledger[d] \in Around
         /\ ledger'[d].seed = ledger[d].seed /\ ledger'[d].origin = ledger[d].origin
         /\ Own(ledger[d]) => Own(ledger'[d])
<1> USE DEF Opens, Domains
<1>1. /\ UNCHANGED <<identity, staging, session, quarantine, remote, file, pc, ctx,
                     made, seals, faults>>
      /\ pc[d] = "idle" /\ ledger[d] # None
      /\ ledger' = [ledger EXCEPT ![d] = Migrated(ledger[d])]
  BY DEF Migrate, Migrated, outside, control, history
<1>2. /\ ledger[d] \in Around /\ Shaped(ledger[d], made, seals)
      /\ Working(d) /\ FilesOfDevices /\ seals \in seals..MaxSeals /\ seals \in Nat
  BY <1>1, LedgerOfCommand DEF Typed
<1>3. /\ Shaped(ledger'[d], made', seals')
      /\ ledger'[d].seed = ledger[d].seed /\ ledger'[d].origin = ledger[d].origin
      /\ Own(ledger[d]) => Own(ledger'[d])
  BY <1>1, <1>2, MigratedSound
<1>4. Writing(d, ledger'[d])
  BY <1>1 DEF Writing
<1>5. Around' \subseteq Around \cup {ledger'[d]}
  BY <1>1, <1>4, WrittenAround
<1>6. Working(d)'
  BY <1>1, <1>2, <1>3 DEF Working, Joining
<1>7. Typed'
  BY <1>1, <1>2, <1>3, <1>4, <1>5, <1>6, TypedStep DEF Typed, Writing, FilesOfDevices
<1> QED BY <1>1, <1>2, <1>3, <1>4, <1>7

LEMMA CommitWrites ==
  ASSUME Opens, Typed, NEW d \in Device, NEW e \in Entry, Commit(d, e)
  PROVE  /\ Typed'
         /\ Writing(d, ledger'[d]) /\ remote' = remote /\ faults' = faults
         /\ pc'[d] \in {"idle", "open"} /\ ledger[d] \in Around
         /\ ledger'[d].seed = ledger[d].seed /\ ledger'[d].origin = ledger[d].origin
         /\ Own(ledger[d]) => Own(ledger'[d])
<1> USE DEF Opens, Domains
<1> DEFINE l == ledger[d]
           k == ctx[d].key
<1>1. /\ UNCHANGED <<identity, session, quarantine, remote, file, made, seals, faults>>
      /\ pc[d] = "open"
      /\ pc' = [pc EXCEPT ![d] = "idle"] /\ ctx' = [ctx EXCEPT ![d] = NoContext]
      /\ \/ ledger' = ledger /\ staging' = staging
         \/ /\ Verified(Extended(l, e, k), k)
            /\ ledger' = [ledger EXCEPT ![d] = Extended(l, e, k)]
            /\ staging' = [staging EXCEPT ![d] = [x \in Readable(d, k) \ {e} |-> k]]
  BY DEF Commit, outside, history, Return, Goto, Extended, NextBlock
<1>2. /\ l \in Around /\ Shaped(l, made, seals) /\ k = l.seed
      /\ Working(d) /\ FilesOfDevices /\ seals \in seals..MaxSeals /\ seals \in Nat
  BY <1>1, LedgerOfCommand DEF Typed, Working
<1>3. /\ Shaped(ledger'[d], made', seals')
      /\ ledger'[d].seed = l.seed /\ ledger'[d].origin = l.origin
      /\ Own(l) => Own(ledger'[d])
  <2>1. CASE ledger' = ledger
    BY <1>1, <1>2, <2>1
  <2>2. CASE /\ Verified(Extended(l, e, k), k)
             /\ ledger' = [ledger EXCEPT ![d] = Extended(l, e, k)]
    <3>1. ledger'[d] = Extended(l, e, l.seed) /\ Verified(ledger'[d], l.seed)
      BY <1>2, <2>2
    <3> HIDE DEF l, k
    <3> QED BY <1>1, <1>2, <3>1, ExtendedSound
  <2> QED BY <1>1, <2>1, <2>2
<1>4. Writing(d, ledger'[d]) /\ pc'[d] = "idle" /\ ctx'[d] = NoContext
  BY <1>1 DEF Writing
<1>5. Around' \subseteq Around \cup {ledger'[d]}
  BY <1>1, <1>4, WrittenAround
<1>6. /\ FilesOfDevices' /\ DOMAIN staging'[d] \subseteq Entry
      /\ \A x \in Device \ {d} : staging'[x] = staging[x]
  <2> DEFINE left == [x \in Readable(d, k) \ {e} |-> k]
  <2>1. DOMAIN staging[d] \subseteq Entry /\ DOMAIN left \subseteq DOMAIN staging[d]
    BY <1>2 DEF Working, Readable
  <2>2. staging' = staging \/ staging' = [staging EXCEPT ![d] = left]
    BY <1>1
  <2> HIDE DEF left
  <2> QED BY <1>1, <1>2, <2>1, <2>2 DEF FilesOfDevices
<1>7. Working(d)'
  BY <1>1, <1>2, <1>4, <1>6 DEF Working, Joining, Steps
<1>8. Typed'
  BY <1>1, <1>2, <1>3, <1>4, <1>5, <1>6, <1>7, TypedStep DEF Typed, Writing
<1> QED BY <1>1, <1>2, <1>3, <1>4, <1>8

LEMMA SetPassphraseWrites ==
  ASSUME Opens, Typed, NEW d \in Device, NEW p \in Passphrase, SetPassphrase(d, p)
  PROVE  /\ Typed'
         /\ Writing(d, ledger'[d]) /\ remote' = remote /\ faults' = faults
         /\ pc[d] = "passphrase" /\ pc'[d] = "cache" /\ ledger[d] \in Around
         /\ ledger'[d].seed = ledger[d].seed /\ ledger'[d].origin = ledger[d].origin
         /\ \A i \in DOMAIN ledger[d].blocks :
              /\ i \in DOMAIN ledger'[d].blocks
              /\ ledger'[d].blocks[i].id = ledger[d].blocks[i].id
         /\ Own(ledger[d])
            /\ (ledger[d].seed = ledger[d].origin => identity[d] = ledger[d].seed)
              => Own(ledger'[d])
<1> USE DEF Opens, Domains
<1>1. /\ UNCHANGED <<identity, staging, session, quarantine, remote, file, ctx,
                     made, faults>>
      /\ pc[d] = "passphrase" /\ pc' = [pc EXCEPT ![d] = "cache"]
      /\ seals < MaxSeals /\ seals' = seals + 1
      /\ ledger' = [ledger EXCEPT ![d] = Resealed(ledger[d], identity[d], p, seals')]
  BY DEF SetPassphrase, outside, Goto
<1>2. /\ ledger[d] \in Around /\ Shaped(ledger[d], made, seals)
      /\ Working(d) /\ FilesOfDevices /\ seals \in 0..MaxSeals
  BY <1>1, LedgerOfCommand DEF Typed, Joining
<1>3. seals \in Nat /\ seals' \in Nat /\ seals <= seals' /\ seals' \in seals..MaxSeals
  BY <1>1, <1>2, SealsAssumption
<1>4. Shaped(ledger[d], made, seals')
  BY <1>2, <1>3, ShapedLater
<1>5. ledger'[d] = Resealed(ledger[d], identity[d], p, seals')
  BY <1>1
<1>6. /\ Shaped(ledger'[d], made', seals')
      /\ ledger'[d].seed = ledger[d].seed /\ ledger'[d].origin = ledger[d].origin
      /\ \A i \in DOMAIN ledger[d].blocks :
           /\ i \in DOMAIN ledger'[d].blocks
           /\ ledger'[d].blocks[i].id = ledger[d].blocks[i].id
      /\ Own(ledger[d])
         /\ (ledger[d].seed = ledger[d].origin => identity[d] = ledger[d].seed)
           => Own(ledger'[d])
  BY <1>1, <1>3, <1>4, <1>5, ResealedSound
<1>7. Writing(d, ledger'[d]) /\ pc'[d] = "cache"
  BY <1>1 DEF Writing
<1>8. Around' \subseteq Around \cup {ledger'[d]}
  BY <1>1, <1>7, WrittenAround
<1>9. Working(d)'
  BY <1>1, <1>2, <1>6, <1>7 DEF Working, Joining, Steps
<1>10. Typed'
  BY <1>1, <1>2, <1>3, <1>6, <1>7, <1>8, <1>9, TypedStep DEF Typed, Writing, FilesOfDevices
<1> QED BY <1>1, <1>2, <1>6, <1>7, <1>10

LEMMA FinishInitWrites ==
  ASSUME Opens, Typed, NEW d \in Device, NEW s \in Seed, NEW p \in Passphrase,
         FinishInit(d, s, p)
  PROVE  /\ Typed'
         /\ Writing(d, ledger'[d]) /\ remote' = remote /\ faults' = faults
         /\ pc'[d] = "idle"
         /\ ledger'[d].seed = ledger'[d].origin /\ Own(ledger'[d])
<1> USE DEF Opens, Domains
<1>1. /\ UNCHANGED <<staging, quarantine, remote, file, faults>>
      /\ made' = made \cup {s}
      /\ pc' = [pc EXCEPT ![d] = "idle"] /\ ctx' = [ctx EXCEPT ![d] = NoContext]
      /\ seals < MaxSeals /\ seals' = seals + 1
      /\ ledger' = [ledger EXCEPT ![d] = NewLedger(s, p, seals')]
      /\ identity' = [identity EXCEPT ![d] = s]
      /\ session' = [session EXCEPT ![d] = s]
  BY DEF FinishInit, outside, Goto, Return
<1>2. Working(d) /\ FilesOfDevices /\ seals \in 0..MaxSeals
  BY DEF Typed
<1>3. seals' \in Nat /\ seals' \in seals..MaxSeals
  BY <1>1, <1>2, SealsAssumption
<1>4. /\ Shaped(ledger'[d], made', seals')
      /\ ledger'[d].seed = ledger'[d].origin /\ Own(ledger'[d])
  <2>1. ledger'[d] = NewLedger(s, p, seals') /\ s \in Seed \cap made'
    BY <1>1
  <2> QED BY <1>3, <2>1, NewLedgerSound
<1>5. Writing(d, ledger'[d]) /\ pc'[d] = "idle" /\ ctx'[d] = NoContext
  BY <1>1 DEF Writing
<1>6. Around' \subseteq Around \cup {ledger'[d]}
  BY <1>1, <1>5, WrittenAround
<1>7. /\ FilesOfDevices' /\ identity'[d] = s /\ session'[d] = s
      /\ \A x \in Device \ {d} : identity'[x] = identity[x] /\ session'[x] = session[x]
  BY <1>1, <1>2 DEF FilesOfDevices
<1>8. Working(d)'
  BY <1>1, <1>2, <1>5, <1>7 DEF Working, Joining, Steps
<1>9. Typed'
  BY <1>1, <1>2, <1>3, <1>4, <1>5, <1>6, <1>7, <1>8, TypedStep DEF Typed, Writing
<1> QED BY <1>1, <1>4, <1>5, <1>9

\* A wrong seed spoils the ledger and, if there is a remote, its chain.
LEMMA RecoverWrites ==
  ASSUME Opens, Typed, NEW d \in Device, NEW s \in Seed, NEW p \in Passphrase,
         Recover(d, s, p)
  PROVE  /\ Typed'
         /\ Writing(d, ledger'[d]) /\ identity' = identity
         /\ remote'.chain # remote.chain =>
              /\ remote'.chain.seed = s
              /\ remote'.chain.origin = ledger[d].origin
         /\ pc[d] = "idle" /\ pc' = pc /\ ledger[d] \in Around
         /\ s # ledger[d].fallback
         /\ "recover" \in Faults /\ faults < MaxFaults /\ faults' = faults + 1
         /\ ledger'[d].seed = s /\ ledger'[d].origin = ledger[d].origin
<1> USE DEF Opens, Domains
<1> DEFINE l == ledger[d]
           m == Spoilt(l, identity[d], s, p, seals')
<1>1. /\ UNCHANGED <<identity, staging, quarantine, file, pc, ctx, made>>
      /\ pc[d] = "idle" /\ l # None /\ s # l.fallback
      /\ "recover" \in Faults /\ faults < MaxFaults /\ faults' = faults + 1
      /\ seals < MaxSeals /\ seals' = seals + 1
      /\ session' = [session EXCEPT ![d] = s]
  BY DEF Recover, Fault, control
<1>2. /\ ledger' = [ledger EXCEPT ![d] = m]
      /\ \/ remote' = remote
         \/ remote' = [remote EXCEPT !.chain =
              [m EXCEPT !.blocks = @ \o
                 (IF remote.chain = None THEN <<>>
                  ELSE SubSeq(remote.chain.blocks, Len(@) + 1,
                              Len(remote.chain.blocks)))]]
  BY <1>1 DEF Recover, Spoilt
<1>3. /\ l \in Around /\ Shaped(l, made, seals)
      /\ Working(d) /\ FilesOfDevices /\ seals \in 0..MaxSeals
      /\ remote.chain # None => Shaped(remote.chain, made, seals)
  BY <1>1, LedgerOfCommand DEF Typed
<1>4. seals \in Nat /\ seals' \in Nat /\ seals <= seals' /\ seals' \in seals..MaxSeals
  BY <1>1, <1>3, SealsAssumption
<1>5. /\ Shaped(l, made, seals')
      /\ remote.chain # None => Shaped(remote.chain, made, seals')
  BY <1>3, <1>4, ShapedLater
<1>6. Shaped(m, made, seals') /\ m.seed = s /\ m.origin = l.origin
  <2> HIDE DEF l, m
  <2> QED BY <1>4, <1>5, SpoiltShaped DEF m
<1> HIDE DEF m
<1>7. ledger'[d] = m /\ \A x \in Device \ {d} : ledger'[x] = ledger[x]
  BY <1>2
<1>8. \/ remote' = remote
      \/ /\ Shaped(remote'.chain, made, seals') /\ remote'.blob = remote.blob
         /\ remote'.chain.seed = s /\ remote'.chain.origin = l.origin
  <2> DEFINE more == IF remote.chain = None THEN <<>>
                     ELSE SubSeq(remote.chain.blocks, Len(m.blocks) + 1,
                                 Len(remote.chain.blocks))
             pushed == [m EXCEPT !.blocks = @ \o more]
  <2>1. CASE remote' # remote
    <3>1. remote' = [remote EXCEPT !.chain = pushed]
      BY <1>2, <2>1
    <3>2. Len(m.blocks) + 1 \in Nat \ {0}
      BY <1>6 DEF Shaped
    <3>3. \/ more = <<>>
          \/ \E r, i : /\ Shaped(r, made, seals') /\ i \in Nat \ {0}
                       /\ more = SubSeq(r.blocks, i, Len(r.blocks))
      BY <1>5, <3>2
    <3> HIDE DEF more
    <3>4. remote'.chain = pushed /\ remote'.blob = remote.blob
      BY <3>1 DEF Elsewhere, IsRemote
    <3>5. /\ DOMAIN pushed = DOMAIN m /\ pushed.seed = m.seed
          /\ pushed.origin = m.origin /\ pushed.n = m.n /\ pushed.by = m.by
          /\ pushed.blocks = m.blocks \o more
      BY <1>6 DEF Shaped
    <3> HIDE DEF pushed, l, Opens, Domains
    <3>6. Shaped(pushed, made, seals') /\ pushed.seed = s /\ pushed.origin = l.origin
      BY <1>4, <1>6, <3>3, <3>5, LengthenedShaped
    <3> QED BY <3>4, <3>6
  <2> QED BY <2>1
<1>9. Writing(d, ledger'[d])
  BY <1>1, <1>7 DEF Writing
<1>10. Around' \subseteq Around \cup {ledger'[d], remote'.chain}
  BY <1>9, WrittenAround
<1>11. \A x \in Around' \ Around : Shaped(x, made', seals')
  <2>1. remote' = remote => remote'.chain \in Around \cup {None}
    BY DEF Around
  <2>2. remote'.chain = None /\ remote' = remote => Around' \subseteq Around \cup {ledger'[d]}
    BY <1>9, WrittenAround
  <2> QED BY <1>1, <1>6, <1>7, <1>8, <1>10, <2>1, <2>2
<1>12. /\ FilesOfDevices' /\ session'[d] = s
       /\ \A x \in Device \ {d} : session'[x] = session[x]
  BY <1>1, <1>3 DEF FilesOfDevices
<1>13. Working(d)'
  BY <1>1, <1>3, <1>12 DEF Working, Joining
<1>14. faults' \in 0..MaxFaults
  BY <1>1, SealsAssumption DEF Typed
<1>15. remote'.blob # None => DOMAIN remote'.blob.entries \subseteq Entry
  BY <1>8 DEF Typed
<1>16. Typed'
  BY <1>1, <1>4, <1>9, <1>11, <1>12, <1>13, <1>14, <1>15, TypedStep DEF Writing
<1> QED BY <1>1, <1>3, <1>6, <1>7, <1>8, <1>9, <1>16

LEMMA ForeignBlobTyped ==
  ASSUME Opens, Typed, NEW s \in Seed, ForeignBlob(s)
  PROVE  Typed' /\ Around' = Around /\ UNCHANGED <<ledger, pc, ctx, identity>>
         /\ faults' = faults + 1
<1>1. /\ UNCHANGED <<ledger, identity, staging, session, quarantine, file, pc, ctx,
                     made, seals>>
      /\ faults < MaxFaults /\ faults' = faults + 1
      /\ remote' = [remote EXCEPT !.blob = [by |-> None, key |-> s, entries |-> <<>>]]
  BY DEF ForeignBlob, Fault, local, control
<1>2. /\ remote'.chain = remote.chain
      /\ remote'.blob = [by |-> None, key |-> s, entries |-> <<>>]
  BY <1>1 DEF Opens, Elsewhere, IsRemote
<1>3. Around' = Around
  BY <1>1, <1>2 DEF Around
<1>4. faults' \in 0..MaxFaults
  BY <1>1, SealsAssumption DEF Typed
<1>5. DOMAIN remote'.blob.entries \subseteq Entry
  <2>1. remote'.blob.entries = <<>> /\ DOMAIN <<>> = {}
    BY <1>2
  <2> QED BY <2>1
<1> QED BY <1>1, <1>3, <1>4, <1>5 DEF Typed, Working, FilesOfDevices

LEMMA TypedInductive ==
  ASSUME Opens, Typed, [Next]_vars
  PROVE  Typed'
<1>1. CASE UNCHANGED vars
  BY <1>1 DEF vars, local, outside, control, history, Typed, Working, FilesOfDevices,
              Around
<1>2. ASSUME NEW d \in Device, Handing(d)
      PROVE  Typed'
  BY <1>2, HandingTyped
<1>3. ASSUME NEW d \in Device,
             \/ \E e \in Entry : Commit(d, e)
             \/ \E p \in Passphrase : Authenticate(d, p) \/ Migrate(d, p) \/ SetPassphrase(d, p)
             \/ \E s \in Seed, p \in Passphrase : FinishInit(d, s, p) \/ Recover(d, s, p)
      PROVE  Typed'
  BY <1>3, CommitWrites, AuthenticateWrites, MigrateWrites, SetPassphraseWrites,
     FinishInitWrites, RecoverWrites
<1>4. ASSUME NEW s \in Seed, ForeignBlob(s)
      PROVE  Typed'
  BY <1>4, ForeignBlobTyped
<1> QED BY <1>1, <1>2, <1>3, <1>4, RoleAssumption DEF Next, Handing

\* Every reachable state is well typed: ledgers, wherever they are copied to,
\* hold seeds that were generated and entries, and a command has a context
\* exactly as long as it runs.
THEOREM TypeCorrectness == Spec => []TypeOK
<1>1. Init => Opens /\ Typed
  BY Initially, SoundInitially
<1>2. Opens /\ Typed /\ [Next]_vars => (Opens /\ Typed)'
  BY Inductive, TypedInductive
<1>3. Typed => TypeOK
  <2> SUFFICES ASSUME Typed PROVE TypeOK
    OBVIOUS
  <2>1. \A d \in Device : ledger[d] # None => Shaped(ledger[d], made, seals)
    BY LedgerOfCommand
  <2>2. \A d \in Device : ledger[d] # None => ledger[d].n <= seals
    BY <2>1 DEF Shaped, Typed
  <2> QED BY <2>1, <2>2 DEF Typed, Working, TypeOK, Shaped
<1> QED BY <1>1, <1>2, <1>3, PTL DEF Spec

-----------------------------------------------------------------------------
(***************************************************************************)
(* Keys and chains.                                                        *)
(***************************************************************************)
LEMMA KeyedStep ==
  ASSUME Keyed, NEW d \in Device, faults' = 0 => faults = 0,
         \A l \in Around' \ Around : Own(l) /\ (faults' = 0 => l.seed = l.origin),
         /\ pc'[d] \in {"staging", "quarantine", "delete", "passphrase"}
         /\ ledger'[d].seed = ledger'[d].origin
         => identity'[d] = ledger'[d].seed,
         \A x \in Device \ {d} :
           ledger'[x] = ledger[x] /\ pc'[x] = pc[x] /\ identity'[x] = identity[x]
  PROVE  Keyed'
BY DEF Keyed

LEMMA OthersUnmoved ==
  ASSUME Opens, Typed, NEW d \in Device,
         \/ Handing(d)
         \/ \E e \in Entry : Commit(d, e)
         \/ \E p \in Passphrase : Authenticate(d, p) \/ Migrate(d, p) \/ SetPassphrase(d, p)
         \/ \E s \in Seed, p \in Passphrase : FinishInit(d, s, p) \/ Recover(d, s, p)
  PROVE  /\ faults' = faults \/ faults' = faults + 1
         /\ \A x \in Device \ {d} : identity'[x] = identity[x]
<1>1. identity' = identity \/ \E v : identity' = [identity EXCEPT ![d] = v]
  BY DEF Handing, Reuse, Logout, StartInit, Kill, Publish, Export, ImportStaging,
         ImportLedger, ExtractIdentity, PullStaging, Quarantine, DeleteBlob,
         CacheKey, Capture, StartOnboarding, StartImport, Commit, Authenticate,
         Migrate, SetPassphrase, FinishInit, Recover, local
<1>2. faults' = faults \/ faults' = faults + 1
  BY DEF Handing, Reuse, Logout, StartInit, Kill, Publish, Export, ImportStaging,
         ImportLedger, ExtractIdentity, PullStaging, Quarantine, DeleteBlob,
         CacheKey, Capture, StartOnboarding, StartImport, Commit, Authenticate,
         Migrate, SetPassphrase, FinishInit, Recover, Fault, history
<1> QED BY <1>1, <1>2 DEF Typed, FilesOfDevices

\* Onboarding extracts the identity before it seals the ledger again.
LEMMA HandingKeyed ==
  ASSUME Opens, Typed, Keyed, NEW d \in Device, Handing(d)
  PROVE  Keyed'
<1> USE DEF Opens, Domains
<1>1. Around' \subseteq Around
  BY HandedOn
<1>2. /\ faults' = 0 => faults = 0
      /\ \A x \in Device \ {d} : identity'[x] = identity[x]
  <2>1. faults \in Nat
    BY SealsAssumption DEF Typed
  <2> QED BY <2>1, OthersUnmoved
<1>3. CASE ExtractIdentity(d)
  <2>1. /\ pc[d] \in Joining /\ ledger' = ledger /\ DOMAIN identity = Device
        /\ identity' = [identity EXCEPT ![d] =
             IF ledger[d].fallback = ctx[d].key THEN ctx[d].key ELSE @]
        /\ \E step : pc' = [pc EXCEPT ![d] = step]
    BY <1>3 DEF ExtractIdentity, Goto, Joining, Typed, FilesOfDevices
  <2>2. /\ ledger[d] \in Around /\ Own(ledger[d])
        /\ ctx[d].key = ledger[d].seed
    BY <2>1, LedgerOfCommand DEF Typed, Working, Keyed
  <2>3. ledger[d].seed = ledger[d].origin => identity'[d] = ledger[d].seed
    BY <2>1, <2>2 DEF Own
  <2> QED BY <1>1, <1>2, <2>1, <2>3, KeyedStep
<1>4. CASE ~ExtractIdentity(d)
  <2>1. \/ ledger' = ledger /\ pc' = pc
        \/ /\ \E step \in {"idle", "open", "init", "ledger", "identity", "cache"} :
                pc' = [pc EXCEPT ![d] = step]
           /\ ledger' = ledger \/ \E l : ledger' = [ledger EXCEPT ![d] = l]
        \/ /\ ledger' = ledger /\ identity' = identity
           /\ pc[d] \in {"staging", "quarantine", "delete", "passphrase"}
           /\ \E step : pc' = [pc EXCEPT ![d] = step]
    BY <1>4 DEF Handing, Reuse, Logout, StartInit, Kill, Publish, Export,
           ImportStaging, ImportLedger, PullStaging, Quarantine, DeleteBlob,
           CacheKey, Capture, StartOnboarding, StartImport, local, control, Goto,
           Return
  <2>2. \/ identity' = identity
        \/ pc[d] = "idle" /\ pc'[d] = "init"
    BY <1>4 DEF Handing, Reuse, Logout, StartInit, Kill, Publish, Export,
           ImportStaging, ImportLedger, PullStaging, Quarantine, DeleteBlob,
           CacheKey, Capture, StartOnboarding, StartImport, local, Goto
  <2>3. /\ pc'[d] \in {"staging", "quarantine", "delete", "passphrase"}
        /\ ledger'[d].seed = ledger'[d].origin
        => identity'[d] = ledger'[d].seed
    BY <2>1, <2>2 DEF Keyed
  <2>4. \A x \in Device \ {d} : ledger'[x] = ledger[x] /\ pc'[x] = pc[x]
    BY <2>1
  <2> QED BY <1>1, <1>2, <2>3, <2>4, KeyedStep
<1> QED BY <1>3, <1>4

LEMMA WritingKeyed ==
  ASSUME Opens, Typed, Keyed, NEW d \in Device,
         "recover" \in Faults => MaxFaults <= 1,
         \/ \E e \in Entry : Commit(d, e)
         \/ \E p \in Passphrase : Authenticate(d, p) \/ Migrate(d, p) \/ SetPassphrase(d, p)
         \/ \E s \in Seed, p \in Passphrase : FinishInit(d, s, p) \/ Recover(d, s, p)
  PROVE  Keyed'
<1>1. /\ faults' = 0 => faults = 0
      /\ \A x \in Device \ {d} : identity'[x] = identity[x]
  <2>1. faults \in Nat
    BY SealsAssumption DEF Typed
  <2> QED BY <2>1, OthersUnmoved
<1>2. Writing(d, ledger'[d])
  BY CommitWrites, AuthenticateWrites, MigrateWrites, SetPassphraseWrites,
     FinishInitWrites, RecoverWrites
<1>3. pc'[d] \notin {"staging", "quarantine", "delete", "passphrase"}
  BY CommitWrites, AuthenticateWrites, MigrateWrites, SetPassphraseWrites,
     FinishInitWrites, RecoverWrites
<1>4. ASSUME \/ \E e \in Entry : Commit(d, e)
             \/ \E p \in Passphrase : Authenticate(d, p) \/ Migrate(d, p)
      PROVE  Keyed'
  <2>1. /\ remote' = remote /\ faults' = faults /\ ledger[d] \in Around
        /\ ledger'[d].seed = ledger[d].seed /\ ledger'[d].origin = ledger[d].origin
        /\ Own(ledger[d]) => Own(ledger'[d])
    BY <1>4, CommitWrites, AuthenticateWrites, MigrateWrites
  <2>2. Around' \subseteq Around \cup {ledger'[d]}
    BY <1>2, <2>1, WrittenAround
  <2>3. Own(ledger'[d]) /\ (faults' = 0 => ledger'[d].seed = ledger'[d].origin)
    BY <2>1 DEF Keyed
  <2> QED BY <1>1, <1>2, <1>3, <2>2, <2>3, KeyedStep DEF Writing
<1>5. ASSUME NEW p \in Passphrase, SetPassphrase(d, p)
      PROVE  Keyed'
  <2>1. /\ remote' = remote /\ faults' = faults /\ ledger[d] \in Around
        /\ pc[d] = "passphrase"
        /\ ledger'[d].seed = ledger[d].seed /\ ledger'[d].origin = ledger[d].origin
        /\ Own(ledger[d])
           /\ (ledger[d].seed = ledger[d].origin => identity[d] = ledger[d].seed)
             => Own(ledger'[d])
    BY <1>5, SetPassphraseWrites
  <2>2. Around' \subseteq Around \cup {ledger'[d]}
    BY <1>2, <2>1, WrittenAround
  <2>3. Own(ledger'[d]) /\ (faults' = 0 => ledger'[d].seed = ledger'[d].origin)
    BY <2>1 DEF Keyed
  <2> QED BY <1>1, <1>2, <1>3, <2>2, <2>3, KeyedStep DEF Writing
<1>6. ASSUME NEW s \in Seed, NEW p \in Passphrase, FinishInit(d, s, p)
      PROVE  Keyed'
  <2>1. /\ remote' = remote /\ faults' = faults
        /\ ledger'[d].seed = ledger'[d].origin /\ Own(ledger'[d])
    BY <1>6, FinishInitWrites
  <2>2. Around' \subseteq Around \cup {ledger'[d]}
    BY <1>2, <2>1, WrittenAround
  <2> QED BY <1>1, <1>2, <1>3, <2>1, <2>2, KeyedStep DEF Writing
<1>7. ASSUME NEW s \in Seed, NEW p \in Passphrase, Recover(d, s, p)
      PROVE  Keyed'
  <2>1. /\ remote'.chain # remote.chain =>
             remote'.chain.seed = s /\ remote'.chain.origin = ledger[d].origin
        /\ ledger[d] \in Around /\ s # ledger[d].fallback
        /\ "recover" \in Faults /\ faults < MaxFaults /\ faults' = faults + 1
        /\ ledger'[d].seed = s /\ ledger'[d].origin = ledger[d].origin
    BY <1>7, RecoverWrites
  <2>2. faults = 0 /\ faults' # 0
    BY <2>1, SealsAssumption DEF Typed
  <2>3. s # ledger[d].origin
    BY <2>1, <2>2 DEF Keyed, Own
  <2>4. Own(ledger'[d]) /\ (remote'.chain # remote.chain => Own(remote'.chain))
    BY <2>1, <2>3 DEF Own
  <2> DEFINE W == {l \in {ledger'[d], remote'.chain} : Own(l)}
  <2>5. ledger'[d] \in W /\ (remote'.chain # remote.chain => remote'.chain \in W)
    BY <2>4
  <2> HIDE DEF W
  <2>6. Around' \subseteq Around \cup W
    BY <1>2, <2>5, WrittenAround
  <2>7. \A l \in Around' \ Around : Own(l)
    BY <2>6 DEF W
  <2> QED BY <1>1, <1>2, <1>3, <2>2, <2>7, KeyedStep DEF Writing
<1> QED BY <1>4, <1>5, <1>6, <1>7

LEMMA KeyedInductive ==
  ASSUME Opens, Typed, Keyed, [Next]_vars, "recover" \in Faults => MaxFaults <= 1
  PROVE  Keyed'
<1>1. CASE UNCHANGED vars
  BY <1>1 DEF vars, local, outside, control, history, Keyed, Around
<1>2. ASSUME NEW d \in Device, Handing(d)
      PROVE  Keyed'
  BY <1>2, HandingKeyed
<1>3. ASSUME NEW d \in Device,
             \/ \E e \in Entry : Commit(d, e)
             \/ \E p \in Passphrase : Authenticate(d, p) \/ Migrate(d, p) \/ SetPassphrase(d, p)
             \/ \E s \in Seed, p \in Passphrase : FinishInit(d, s, p) \/ Recover(d, s, p)
      PROVE  Keyed'
  BY <1>3, WritingKeyed
<1>4. ASSUME NEW s \in Seed, ForeignBlob(s)
      PROVE  Keyed'
  <2>1. /\ Around' = Around /\ UNCHANGED <<ledger, pc, identity>>
        /\ faults' = faults + 1 /\ faults \in Nat
    BY <1>4, ForeignBlobTyped, SealsAssumption DEF Typed
  <2> QED BY <2>1 DEF Keyed
<1> QED BY <1>1, <1>2, <1>3, <1>4, RoleAssumption DEF Next, Handing

LEMMA KeyedThroughout ==
  ASSUME "recover" \in Faults => MaxFaults <= 1
  PROVE  Spec => [](Typed /\ Keyed)
<1>1. Init => Opens /\ Typed /\ Keyed
  BY Initially, SoundInitially
<1>2. Opens /\ Typed /\ Keyed /\ [Next]_vars => (Opens /\ Typed /\ Keyed)'
  BY Inductive, TypedInductive, KeyedInductive
<1> QED BY <1>1, <1>2, PTL DEF Spec

\* Every block of a ledger is under the ledger's own key, whatever session files
\* earlier ledgers and killed commands left behind (auth.py,
\* _verify_cached_key), as long as a wrong seed is given to ph recover at most
\* once: given twice, the second may be the seed the ledger was made with.
THEOREM OneKeyThroughout ==
  ASSUME "recover" \in Faults => MaxFaults <= 1
  PROVE  Spec => []OneKey
<1>1. Typed /\ Keyed => OneKey
  BY LedgerOfCommand DEF Keyed, Own, OneKey, Intact
<1> QED BY <1>1, KeyedThroughout, PTL

\* Under the same assumption every ledger.json verifies at every step of every
\* command, unless it has the old format or its genesis was sealed again under
\* a new salt: sealing a chain again links each block to the one before it, for
\* chains of any length (_recover_ledger, _set_passphrase).
THEOREM ChainsVerify ==
  ASSUME "recover" \in Faults => MaxFaults <= 1
  PROVE  Spec => []ChainVerifies
<1>1. Typed /\ Keyed => ChainVerifies
  BY LedgerOfCommand DEF Keyed, Own, ChainVerifies, Intact
<1> QED BY <1>1, KeyedThroughout, PTL

-----------------------------------------------------------------------------
(***************************************************************************)
(* What an onboarding brings.                                              *)
(***************************************************************************)
\* Whoever changes the remote while a device onboards leaves a mark there.
LEMMA OthersBring ==
  ASSUME Brings, NEW d,
         \/ remote' = remote /\ (\A x \in Device \ {d} : disturbed'[x] = disturbed[x])
         \/ Disturb(d),
         \A x \in Device \ {d} :
           /\ ledger'[x] = ledger[x] /\ pc'[x] = pc[x] /\ ctx'[x] = ctx[x]
           /\ staging'[x] = staging[x] /\ quarantine'[x] = quarantine[x],
         d \in Device =>
           Bringing(d)' /\ (pc'[d] = "ledger" => ctx'[d].from = "file")
  PROVE  Brings'
<1> SUFFICES ASSUME NEW x \in Device \ {d}
             PROVE  Bringing(x)' /\ (pc'[x] = "ledger" => ctx'[x].from = "file")
  BY DEF Brings
<1>1. CASE remote' = remote /\ disturbed'[x] = disturbed[x]
  BY <1>1 DEF Brings, Bringing
<1>2. CASE Disturb(d)
  <2>1. /\ disturbed[x] \subseteq disturbed'[x]
        /\ pc[x] \in Reading => "read" \in disturbed'[x]
        /\ pc[x] = "delete" => "delete" \in disturbed'[x]
    BY <1>2 DEF Disturb, Mark
  <2> QED BY <2>1 DEF Brings, Bringing
<1> QED BY <1>1, <1>2

\* Commands that bring nothing to their device, but may disturb others.
LEMMA OtherCommandsBring ==
  ASSUME Opens, Typed, Brings, NEW d \in Device,
         \/ Reuse(d) \/ Logout(d) \/ StartInit(d) \/ Kill(d) \/ Publish(d) \/ Export(d)
         \/ ImportStaging(d) \/ CacheKey(d)
         \/ \E e \in Entry : Capture(d, e) \/ Commit(d, e)
         \/ \E p \in Passphrase : Authenticate(d, p) \/ Migrate(d, p)
         \/ \E s \in Seed, p \in Passphrase : FinishInit(d, s, p) \/ Recover(d, s, p)
         \/ \E s \in Seed : StartImport(d, s)
  PROVE  Brings'
<1> USE DEF Opens, Domains
<1>1. \/ /\ remote' = remote
         /\ \/ disturbed' = disturbed
            \/ \E v : disturbed' = [disturbed EXCEPT ![d] = v]
      \/ Disturb(d)
  BY DEF Reuse, Logout, StartInit, Kill, Publish, Export, ImportStaging, CacheKey,
         Capture, Commit, Authenticate, Migrate, FinishInit, Recover, StartImport,
         outside, history
<1>2. /\ \/ staging' = staging
         \/ \E v : staging' = [staging EXCEPT ![d] = v]
      /\ quarantine' = quarantine
      /\ \/ ledger' = ledger
         \/ \E v : ledger' = [ledger EXCEPT ![d] = v]
  BY DEF Reuse, Logout, StartInit, Kill, Publish, Export, ImportStaging, CacheKey,
         Capture, Commit, Authenticate, Migrate, FinishInit, Recover, StartImport,
         local
<1>3. /\ pc' = pc \/ \E v : pc' = [pc EXCEPT ![d] = v]
      /\ ctx' = ctx \/ \E v : ctx' = [ctx EXCEPT ![d] = v]
      /\ pc'[d] \in {"idle", "open", "init", "ledger"}
      /\ pc'[d] = "ledger" => ctx'[d].from = "file"
  <2>1. CASE Reuse(d)
    <3>1. ctx' = [ctx EXCEPT ![d] = [ctx[d] EXCEPT !.key = session[d]]]
      BY <2>1 DEF Reuse
    <3> QED BY <2>1, <3>1 DEF Reuse, Goto
  <2>2. ASSUME NEW p \in Passphrase, Authenticate(d, p)
        PROVE  <1>3
    <3>1. \/ ctx' = ctx
          \/ ctx' = [ctx EXCEPT ![d] = [ctx[d] EXCEPT !.key = ledger[d].seed]]
      BY <2>2 DEF Authenticate, control
    <3> QED BY <2>2, <3>1 DEF Authenticate, Goto, control
  <2>3. CASE \/ Logout(d) \/ Export(d) \/ ImportStaging(d)
             \/ \E p \in Passphrase : Migrate(d, p)
             \/ \E s \in Seed, p \in Passphrase : Recover(d, s, p)
    <3>1. pc' = pc /\ ctx' = ctx /\ pc[d] = "idle"
      BY <2>3 DEF Logout, Export, ImportStaging, Migrate, Recover, control
    <3> QED BY <3>1
  <2>4. CASE \/ Kill(d) \/ Publish(d) \/ CacheKey(d)
             \/ \E e \in Entry : Capture(d, e) \/ Commit(d, e)
             \/ \E s \in Seed, p \in Passphrase : FinishInit(d, s, p)
    <3>1. Return(d)
      BY <2>4 DEF Kill, Publish, CacheKey, Capture, Commit, FinishInit
    <3> QED BY <3>1 DEF Return, Goto
  <2>5. CASE StartInit(d)
    BY <2>5 DEF StartInit, Goto
  <2>6. ASSUME NEW s \in Seed, StartImport(d, s)
        PROVE  <1>3
    BY <2>6 DEF StartImport, Goto
  <2> QED BY <2>1, <2>2, <2>3, <2>4, <2>5, <2>6
<1>4. \A x \in Device \ {d} :
        /\ ledger'[x] = ledger[x] /\ pc'[x] = pc[x] /\ ctx'[x] = ctx[x]
        /\ staging'[x] = staging[x] /\ quarantine'[x] = quarantine[x]
  BY <1>2, <1>3 DEF Typed, FilesOfDevices
<1>5. \/ remote' = remote /\ (\A x \in Device \ {d} : disturbed'[x] = disturbed[x])
      \/ Disturb(d)
  BY <1>1
<1>6. Bringing(d)'
  BY <1>3 DEF Bringing, Joining
<1> QED BY <1>3, <1>4, <1>5, <1>6, OthersBring

LEMMA OnboardingBrings ==
  ASSUME ~IsLedger(None), Opens, Typed, Brings, NEW d \in Device,
         \/ ImportLedger(d) \/ ExtractIdentity(d) \/ PullStaging(d)
         \/ Quarantine(d) \/ DeleteBlob(d)
         \/ \E s \in Seed : StartOnboarding(d, s)
         \/ \E p \in Passphrase : SetPassphrase(d, p)
  PROVE  Brings'
<1> USE DEF Opens, Domains
<1>1. \/ remote' = remote /\ disturbed' = disturbed
      \/ remote' = remote /\ disturbed' = [disturbed EXCEPT ![d] = {}]
      \/ Disturb(d)
  BY DEF ImportLedger, ExtractIdentity, PullStaging, Quarantine, DeleteBlob,
         StartOnboarding, SetPassphrase, outside, history
<1>2. /\ staging' = staging \/ \E v : staging' = [staging EXCEPT ![d] = v]
      /\ quarantine' = quarantine \/ \E v : quarantine' = [quarantine EXCEPT ![d] = v]
      /\ ledger' = ledger \/ \E v : ledger' = [ledger EXCEPT ![d] = v]
      /\ \E v : pc' = [pc EXCEPT ![d] = v]
      /\ ctx' = ctx \/ \E v : ctx' = [ctx EXCEPT ![d] = v]
  BY DEF ImportLedger, ExtractIdentity, PullStaging, Quarantine, DeleteBlob,
         StartOnboarding, SetPassphrase, Goto
<1>3. \A x \in Device \ {d} :
        /\ ledger'[x] = ledger[x] /\ pc'[x] = pc[x] /\ ctx'[x] = ctx[x]
        /\ staging'[x] = staging[x] /\ quarantine'[x] = quarantine[x]
  BY <1>2 DEF Typed, FilesOfDevices
<1>4. \/ remote' = remote /\ (\A x \in Device \ {d} : disturbed'[x] = disturbed[x])
      \/ Disturb(d)
  BY <1>1
<1>5. pc'[d] \in Joining
  BY DEF ImportLedger, ExtractIdentity, PullStaging, Quarantine, DeleteBlob,
         StartOnboarding, SetPassphrase, Goto, Joining
<1>6. Bringing(d)'
  <2>0. Bringing(d) /\ (pc[d] = "ledger" => ctx[d].from = "file")
    BY DEF Brings
  <2>1. CASE ImportLedger(d)
    <3>1. pc[d] = "ledger" /\ ctx' = ctx
      BY <2>1 DEF ImportLedger
    <3> QED BY <2>0, <3>1 DEF Bringing
  <2>2. CASE \E s \in Seed : StartOnboarding(d, s)
    <3>1. PICK s \in Seed : StartOnboarding(d, s)
      BY <2>2
    <3>2. /\ ledger'[d] = remote.chain /\ pc'[d] = "identity"
          /\ ctx'[d].remote = remote /\ remote' = remote
      BY <3>1 DEF StartOnboarding, Goto, outside
    <3> QED BY <3>2 DEF Bringing, Reading
  <2>3. CASE ExtractIdentity(d)
    <3>1. /\ UNCHANGED <<ledger, ctx, remote, disturbed>> /\ pc[d] = "identity"
          /\ ctx[d].from = "remote" => pc'[d] = "staging"
      BY <2>3 DEF ExtractIdentity, Goto, outside, history
    <3> QED BY <2>0, <3>1 DEF Bringing, Joining, Reading
  <2>4. CASE PullStaging(d)
    <3>1. /\ UNCHANGED <<ledger, ctx, remote, disturbed, quarantine>>
          /\ pc[d] = "staging" /\ DOMAIN staging = Device
          /\ \/ /\ remote.blob # None /\ remote.blob.key # ctx[d].key
                /\ pc'[d] = "quarantine"
             \/ /\ remote.blob = None /\ pc'[d] = "passphrase"
             \/ /\ remote.blob.key = ctx[d].key /\ pc'[d] = "passphrase"
                /\ staging'[d] = remote.blob.entries
      BY <2>4 DEF PullStaging, Goto, outside, history, Typed, FilesOfDevices
    <3> QED BY <2>0, <3>1 DEF Bringing, Joining, Reading
  <2>5. CASE Quarantine(d)
    <3>1. /\ UNCHANGED <<ledger, ctx, remote, disturbed>>
          /\ pc[d] = "quarantine" /\ pc'[d] = "delete"
          /\ quarantine'[d] = quarantine[d] \cup ({remote.blob} \ {None})
      BY <2>5 DEF Quarantine, Goto, outside, history, Typed, FilesOfDevices
    <3> QED BY <2>0, <3>1 DEF Bringing, Joining, Reading
  <2>6. CASE DeleteBlob(d)
    <3>1. /\ UNCHANGED <<ledger, ctx, quarantine>> /\ disturbed'[d] = disturbed[d]
          /\ pc[d] = "delete" /\ pc'[d] = "passphrase"
      BY <2>6, Disturbs DEF DeleteBlob, Goto
    <3> QED BY <2>0, <3>1 DEF Bringing, Joining, Reading
  <2>7. ASSUME NEW p \in Passphrase, SetPassphrase(d, p)
        PROVE  Bringing(d)'
    <3>1. /\ UNCHANGED <<ctx, remote, disturbed, quarantine, staging>>
          /\ pc[d] = "passphrase" /\ pc'[d] = "cache"
      BY <2>7 DEF SetPassphrase, Goto, outside
    <3>2. Ids(ledger[d]) \subseteq Ids(ledger'[d])
      <4>1. /\ ledger'[d] # None
            /\ \A i \in DOMAIN ledger[d].blocks :
                 /\ i \in DOMAIN ledger'[d].blocks
                 /\ ledger'[d].blocks[i].id = ledger[d].blocks[i].id
        <5>1. IsLedger(ledger'[d])
          BY <1>5, <2>7, SetPassphraseKeeps DEF Settled
        <5> HIDE DEF Opens, Domains
        <5> QED BY <2>7, <5>1, SetPassphraseWrites
      <4> QED BY <4>1 DEF Ids
    <3> QED BY <2>0, <3>1, <3>2 DEF Bringing, Joining, Reading
  <2> QED BY <2>1, <2>2, <2>3, <2>4, <2>5, <2>6, <2>7
<1> QED BY <1>3, <1>4, <1>5, <1>6, OthersBring DEF Joining

LEMMA BringsInductive ==
  ASSUME ~IsLedger(None), Opens, Typed, Brings, [Next]_vars
  PROVE  Brings'
<1>1. CASE UNCHANGED vars
  BY <1>1 DEF vars, local, outside, control, history, Brings, Bringing
<1>2. ASSUME NEW s \in Seed, ForeignBlob(s)
      PROVE  Brings'
  <2>1. /\ UNCHANGED <<ledger, staging, quarantine, pc, ctx>> /\ Disturb(None)
        /\ None \notin Device
    BY <1>2, NoneAssumption DEF ForeignBlob, local, control
  <2> QED BY <2>1, OthersBring
<1> QED BY <1>1, <1>2, OtherCommandsBring, OnboardingBrings, RoleAssumption DEF Next

\* Whatever other devices write while one onboards from a remote, whatever it
\* held before and whatever is killed: an onboarding that ends has all committed
\* entries of the chain it read; it has all staged ones too, or a blob of another
\* key in the quarantine, unless someone wrote before the blob was read for the
\* last time; and it deletes no blob it has not kept but one written since
\* (onboarding.py). What stands for no file must not itself be a ledger.
THEOREM OnboardingBringsEverything ==
  ASSUME ~IsLedger(None)
  PROVE  Spec => OnboardingBringsAll
<1> DEFINE Brought(d) ==
      LET found == ctx[d].remote IN
      ctx[d].from = "remote" =>
        /\ pc[d] = "cache" /\ pc'[d] = "idle" =>
             /\ Ids(found.chain) \subseteq Ids(ledger[d])
             /\ "read" \notin disturbed[d] /\ found.blob # None =>
                  IF found.blob.key = ctx[d].key
                    THEN DOMAIN found.blob.entries \subseteq DOMAIN staging[d]
                    ELSE found.blob \in quarantine[d]
        /\ pc[d] = "delete" /\ pc'[d] = "passphrase" =>
             \/ remote.blob \in quarantine[d] \cup {None}
             \/ "delete" \in disturbed[d]
<1>1. Init => Opens /\ Typed /\ Brings
  BY Initially, SoundInitially
<1>2. Opens /\ Typed /\ Brings /\ [Next]_vars => (Opens /\ Typed /\ Brings)'
  BY Inductive, TypedInductive, BringsInductive
<1>3. Brings => [\A d \in Device : Brought(d)]_vars
  BY DEF Brings, Bringing, Joining
<1> QED BY <1>1, <1>2, <1>3, PTL DEF Spec, OnboardingBringsAll
=============================================================================
