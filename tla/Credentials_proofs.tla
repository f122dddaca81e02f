---------------------------- MODULE Credentials_proofs ----------------------------
(***************************************************************************)
(* Proofs about the credentials, for any stores, locked or not, and any    *)
(* number of crashes, expiries and deletions.                              *)
(*                                                                         *)
(*   Stage        where the running Ensure is, what it holds and what it   *)
(*                has yet to write, against what the files say;            *)
(*   Recoverable  outside the windows, the files are a set that belongs    *)
(*                together or one the next Ensure replaces;                *)
(*   Covered      a store at which the service has looked holds the        *)
(*                authority it was given or none, and none only where      *)
(*                somebody is about to add one or took it out for good,    *)
(*                while the directory holds that authority.                *)
(***************************************************************************)
EXTENDS Credentials, TLAPS

Contents == [key : Numbers, ca : Numbers, root : Numbers]

NumbersTypeOK ==
    /\ fresh \in Nat \ {0} /\ ensured \in 0 .. fresh - 1
    /\ files \in [Files -> Contents] /\ aged \subseteq Numbers
    /\ installed \in [Stores -> 0 .. fresh - 1]
    /\ held \in [cert : Numbers, key : Numbers]

ControlTypeOK ==
    /\ pc \in [Actors -> {"down", "loadCA", "leafOK", "writing", "ensured", "trusting",
                          "deleting", "adding", "untrusting", "removing", "serving"}]
    /\ pc["service"] \notin {"untrusting", "removing"} /\ pc["command"] # "serving"
    /\ todo # <<>> <=> \E a \in Actors : pc[a] = "writing"
    /\ open => todo # <<>> /\ files[Head(todo).file] = Torn
    /\ \A a, b \in Actors : InEnsure(a) /\ InEnsure(b) => a = b
    /\ harmed \in BOOLEAN

StoresTypeOK ==
    /\ profiles \subseteq Stores /\ sweep \in [Actors -> SUBSET profiles]
    /\ store \in [Actors -> Stores]
    /\ swept \subseteq profiles /\ untrusted \subseteq Stores
    /\ ensured = 0 => swept = {}
    /\ pc["service"] = "serving" => sweep["service"] = {}

\* What Ensure holds is what the files say.
Loaded ==
    /\ held = [cert |-> files["caCert"].key, key |-> files["caKey"].key]
    /\ held.cert > 0 /\ held.key > 0

Write(f, c) == [file |-> f, content |-> c]

WritesCA ==
    LET k == fresh - 1
    IN  /\ k > 0 /\ held = [cert |-> k, key |-> k]
        /\ files["leafCert"].ca < k /\ ensured < k
        /\ \/ todo = <<Write("caCert", Cert(k, k)), Write("caKey", Key(k))>>
           \/ todo = <<Write("caKey", Key(k))>> /\ files["caCert"] = Cert(k, k)

WritesLeaf ==
    LET k == fresh - 1
        ca == held.cert
    IN  /\ Loaded /\ k > 0 /\ held.key = ca
        /\ \/ todo = <<Write("leafCert", Cert(k, ca)), Write("leafKey", Key(k)),
                       Write("chain", Chain(k, ca, ca))>>
           \/ /\ todo = <<Write("leafKey", Key(k)), Write("chain", Chain(k, ca, ca))>>
              /\ files["leafCert"] = Cert(k, ca)
           \/ /\ todo = <<Write("chain", Chain(k, ca, ca))>>
              /\ files["leafCert"] = Cert(k, ca) /\ files["leafKey"] = Key(k)

Stage(a) ==
    /\ pc[a] = "leafOK" => Loaded
    /\ pc[a] = "writing" => WritesCA \/ WritesLeaf
    /\ pc[a] = "ensured" => Loaded /\ (harmed \/ Usable)

CAMatches ==
    Parses(files["caCert"]) /\ Parses(files["caKey"]) => files["caKey"].key = files["caCert"].key

LeafMatches ==
    LET leaf == files["leafCert"]
        ca == files["caCert"]
    IN  Parses(ca) /\ Parses(leaf) /\ files["leafKey"] # Missing /\ leaf.ca = ca.key
          => files["leafKey"].key = leaf.key /\ files["chain"] = Chain(leaf.key, ca.key, ca.key)

Recoverable == harmed \/ (todo # <<>> /\ Window) \/ (CAMatches /\ LeafMatches)

\* The service's look at s is behind it, and its -D if there was one.
Looked(s) ==
    s \notin sweep["service"] /\ ~(pc["service"] = "deleting" /\ store["service"] = s)

Adding(s) == \E a \in Actors : pc[a] = "adding" /\ store[a] = s

\* No other authority gets in behind the service, also not where an untrust was.
Covered ==
    files["caCert"].key = ensured =>
      \A s \in swept \ Locked : Looked(s) =>
        /\ installed[s] \in {0, ensured}
        /\ s \notin untrusted /\ installed[s] = 0 => Adding(s)

Credible ==
    /\ NumbersTypeOK /\ ControlTypeOK /\ StoresTypeOK
    /\ \A a \in Actors : Stage(a)
    /\ Recoverable /\ Covered

LEMMA CredibleIs == Credible => TypeOK /\ HealsOutsideTheWindow /\ ServedIsTrusted
<1>1. Credible => TypeOK
  BY DEF Credible, NumbersTypeOK, ControlTypeOK, StoresTypeOK, Contents, TypeOK
<1>2. Credible => HealsOutsideTheWindow
  BY DEF Credible, Stage, HealsOutsideTheWindow
<1>3. Credible => ServedIsTrusted
  <2> SUFFICES ASSUME Credible, pc["service"] = "serving", files["caCert"].key = ensured,
                      NEW s \in swept \ (untrusted \cup Locked)
               PROVE  installed[s] = ensured \/ Replacing(s)
    BY DEF ServedIsTrusted
  <2>1. Looked(s)
    BY DEF Credible, StoresTypeOK, Looked
  <2>2. installed[s] = ensured \/ Adding(s)
    BY <2>1 DEF Credible, Covered
  <2>3. Adding(s) => Replacing(s)
    BY DEF Adding, Replacing, Actors
  <2>4. QED BY <2>2, <2>3
<1>4. QED BY <1>1, <1>2, <1>3

LEMMA CredibleInit == Init => Credible
<1> SUFFICES ASSUME Init PROVE Credible
  OBVIOUS
<1> USE DEF Init
<1>1. Missing \in Contents /\ Missing.key = 0
  BY DEF Missing, Key, Contents, Numbers
<1>2. NumbersTypeOK
  BY <1>1 DEF NumbersTypeOK, NoCA, Numbers
<1>3. ControlTypeOK
  BY DEF ControlTypeOK, InEnsure, Actors
<1>4. StoresTypeOK
  BY CredentialsAssumption DEF StoresTypeOK, Actors
<1>5. \A a \in Actors : Stage(a)
  BY DEF Stage
<1>6. Recoverable
  BY <1>1 DEF Recoverable, CAMatches, LeafMatches, Parses, Files
<1>7. Covered
  BY DEF Covered
<1>8. QED
  BY <1>2, <1>3, <1>4, <1>5, <1>6, <1>7 DEF Credible

\* Numbers that were in use stay in use.
LEMMA MoreNumbers ==
  ASSUME fresh \in Nat, fresh' \in Nat, fresh <= fresh'
  PROVE  /\ Numbers \subseteq Numbers' /\ Contents \subseteq Contents'
         /\ 0 .. fresh - 1 \subseteq 0 .. fresh' - 1
         /\ [cert : Numbers, key : Numbers] \subseteq [cert : Numbers', key : Numbers']
<1>1. Numbers \subseteq Numbers' /\ 0 .. fresh - 1 \subseteq 0 .. fresh' - 1
  <2>1. ASSUME NEW a \in Nat, NEW b \in Nat, a <= b
        PROVE  -1 .. a - 1 \subseteq -1 .. b - 1 /\ 0 .. a - 1 \subseteq 0 .. b - 1
    BY <2>1
  <2>2. QED BY <2>1 DEF Numbers
<1>2. QED
  BY <1>1 DEF Contents

LEMMA ContentFields ==
  ASSUME NumbersTypeOK
  PROVE  /\ \A f \in Files : /\ files[f].key \in Numbers /\ files[f].ca \in Numbers
                             /\ files[f].root \in Numbers /\ files[f] \in Contents
         /\ Missing \in Contents /\ Torn \in Contents
         /\ \A k, ca \in Numbers : Key(k) \in Contents /\ Cert(k, ca) \in Contents
         /\ \A k, ca, root \in Numbers : Chain(k, ca, root) \in Contents
         /\ Numbers \subseteq Int /\ 0 \in Numbers /\ \A k \in Numbers : k < fresh
         /\ held.cert \in Numbers /\ held.key \in Numbers
  BY DEF NumbersTypeOK, Contents, Missing, Torn, Key, Cert, Chain, Numbers

\* A step that leaves the disk and the running Ensure alone.
LEMMA SameDisk ==
  ASSUME Credible, UNCHANGED <<files, fresh, held, todo, open, harmed>>,
         \A a \in Actors : pc'[a] = pc[a] \/ pc'[a] \notin {"leafOK", "writing", "ensured"},
         ensured' = ensured \/ ensured' = 0
  PROVE  (\A a \in Actors : Stage(a)') /\ Recoverable'
<1>1. Recoverable'
  BY DEF Credible, Recoverable, Window, CAMatches, LeafMatches
<1>2. ASSUME NEW a \in Actors PROVE Stage(a)'
  <2>1. CASE pc'[a] \notin {"leafOK", "writing", "ensured"}
    BY <2>1 DEF Stage
  <2>2. CASE pc'[a] = pc[a]
    <3>1. Stage(a) /\ fresh \in Nat
      BY DEF Credible, NumbersTypeOK
    <3>2. Loaded => Loaded'
      BY DEF Loaded
    <3>3. pc[a] = "ensured" => Loaded' /\ (harmed \/ Usable)'
      BY <3>1, <3>2 DEF Stage, Usable
    <3>4. WritesCA => WritesCA'
      <4>1. ensured < fresh - 1 => ensured' < fresh - 1 \/ ~(fresh - 1 > 0)
        BY <3>1
      <4>2. QED BY <4>1 DEF WritesCA
    <3>5. WritesLeaf => WritesLeaf'
      BY <3>2 DEF WritesLeaf
    <3>6. QED BY <2>2, <3>1, <3>2, <3>3, <3>4, <3>5 DEF Stage
  <2>3. QED BY <2>1, <2>2
<1>3. QED BY <1>1, <1>2

\* A step outside the sweeps that brings the served authority back into no file.
LEMMA StillCovered ==
  ASSUME Covered, UNCHANGED <<installed, ensured, swept, untrusted, store>>,
         files'["caCert"].key = ensured => files["caCert"].key = ensured,
         sweep'["service"] = sweep["service"],
         \A a \in Actors : pc'[a] = pc[a] \/ {pc[a], pc'[a]} \cap {"deleting", "adding"} = {}
  PROVE  Covered'
<1> SUFFICES ASSUME files'["caCert"].key = ensured, NEW s \in swept \ Locked, Looked(s)'
             PROVE  /\ installed[s] \in {0, ensured}
                    /\ s \notin untrusted /\ installed[s] = 0 => Adding(s)'
  BY DEF Covered
<1>1. Looked(s)
  BY DEF Looked, Actors
<1>2. Adding(s) => Adding(s)'
  BY DEF Adding
<1>3. QED
  BY <1>1, <1>2 DEF Covered

LEMMA StartStep ==
  ASSUME Credible, NEW a \in Actors, Start(a)
  PROVE  Credible'
<1>1. UNCHANGED <<files, profiles, installed, aged, fresh, held, todo, open, sweep, store, ensured,
                  served, swept, untrusted, harmed>>
      /\ pc' = [pc EXCEPT ![a] = "loadCA"] /\ pc[a] = "down" /\ NoEnsure
  BY DEF Start, Goto, ensureVars, sweepVars, pastVars
<1>a. ControlTypeOK /\ StoresTypeOK /\ Covered
  BY DEF Credible
<1>b. Covered'
  BY <1>1, <1>a, StillCovered DEF ControlTypeOK
<1>2. NumbersTypeOK' /\ StoresTypeOK' /\ Covered'
  BY <1>1, <1>a, <1>b DEF Credible, NumbersTypeOK, ControlTypeOK, StoresTypeOK, Numbers, Contents
<1>3. ControlTypeOK'
  BY <1>1 DEF Credible, ControlTypeOK, NoEnsure, InEnsure, Actors
<1>4. \A b \in Actors : pc'[b] = pc[b] \/ pc'[b] \notin {"leafOK", "writing", "ensured"}
  BY <1>1 DEF Credible, ControlTypeOK
<1>5. (\A b \in Actors : Stage(b)') /\ Recoverable'
  BY <1>1, <1>4, SameDisk
<1>6. QED BY <1>2, <1>3, <1>5 DEF Credible

LEMMA LoadStep ==
  ASSUME Credible, NEW a \in Actors, LoadCA(a)
  PROVE  Credible'
<1>1. /\ UNCHANGED <<files, profiles, installed, aged, open, sweep, store, ensured, swept, untrusted,
                     harmed>>
      /\ pc[a] = "loadCA" /\ NumbersTypeOK /\ ControlTypeOK /\ Stage(a)
      /\ (pc' = [pc EXCEPT ![a] = "leafOK"] \/ pc' = [pc EXCEPT ![a] = "writing"])
  BY DEF LoadCA, Goto, sweepVars, pastVars, Credible
<1>2. \A b \in Actors : b # a => ~InEnsure(b)
  BY <1>1 DEF ControlTypeOK, InEnsure
<1>3. todo = <<>> /\ ~open
  BY <1>1, <1>2 DEF ControlTypeOK, InEnsure
<1>4. StoresTypeOK' /\ Covered'
  <2>1. StoresTypeOK /\ Covered
    BY DEF Credible
  <2>2. \A b \in Actors : pc'[b] = pc[b] \/ {pc[b], pc'[b]} \cap {"deleting", "adding"} = {}
    BY <1>1 DEF ControlTypeOK
  <2>3. Covered'
    BY <1>1, <2>1, <2>2, StillCovered
  <2>4. pc'["service"] = "serving" => pc["service"] = "serving"
    BY <1>1 DEF ControlTypeOK, Actors
  <2>5. StoresTypeOK'
    BY <1>1, <2>1, <2>4 DEF StoresTypeOK
  <2>6. QED BY <2>3, <2>5
<1>5. CASE CAUsable
  <2>1. /\ held' = [cert |-> files["caCert"].key, key |-> files["caKey"].key]
        /\ pc' = [pc EXCEPT ![a] = "leafOK"] /\ UNCHANGED <<todo, fresh>>
    BY <1>5 DEF LoadCA, Goto
  <2>2. NumbersTypeOK'
    BY <1>1, <2>1, ContentFields DEF NumbersTypeOK, Contents, Numbers, Files
  <2>3. ControlTypeOK'
    BY <1>1, <1>2, <1>3, <2>1 DEF ControlTypeOK, InEnsure, Actors
  <2>4. Recoverable'
    BY <1>1, <2>1 DEF Credible, Recoverable, Window, CAMatches, LeafMatches
  <2>5. Loaded'
    BY <1>1, <1>5, <2>1 DEF Loaded, CAUsable, Parses
  <2>6. \A b \in Actors : Stage(b)'
    <3>1. Stage(a)'
      BY <1>1, <2>1, <2>5 DEF Stage, ControlTypeOK
    <3>2. ASSUME NEW b \in Actors, b # a PROVE Stage(b)'
      BY <1>1, <1>2, <2>1, <3>2 DEF Stage, InEnsure
    <3>3. QED BY <3>1, <3>2
  <2>7. QED BY <1>4, <2>2, <2>3, <2>4, <2>6 DEF Credible
<1>6. CASE ~CAUsable
  <2>1. /\ held' = [cert |-> fresh, key |-> fresh] /\ todo' = CreateCA(fresh) /\ fresh' = fresh + 1
        /\ pc' = [pc EXCEPT ![a] = "writing"]
    BY <1>6 DEF LoadCA, Goto
  <2>2. fresh \in Nat \ {0} /\ fresh' \in Nat \ {0} /\ fresh <= fresh' /\ fresh' - 1 = fresh
    BY <1>1, <2>1 DEF NumbersTypeOK
  <2>3. NumbersTypeOK'
    <3>1. held' \in [cert : Numbers', key : Numbers']
      BY <2>1, <2>2 DEF Numbers
    <3>2. files' \in [Files -> Contents']
      BY <1>1, <2>2, MoreNumbers DEF NumbersTypeOK
    <3>3. aged' \subseteq Numbers' /\ ensured' \in 0 .. fresh' - 1 /\ installed' \in [Stores -> 0 .. fresh' - 1]
      BY <1>1, <2>2, MoreNumbers DEF NumbersTypeOK
    <3>4. QED BY <2>2, <3>1, <3>2, <3>3 DEF NumbersTypeOK
  <2>4. todo' # <<>>
    BY <2>1 DEF CreateCA
  <2>5. ControlTypeOK'
    BY <1>1, <1>2, <1>3, <2>1, <2>4 DEF ControlTypeOK, InEnsure, Actors
  <2>6. Recoverable'
    BY <1>1, <1>3 DEF Credible, Recoverable, CAMatches, LeafMatches
  <2>7. WritesCA'
    <3>1. files["leafCert"].ca < fresh /\ ensured < fresh
      BY <1>1, <2>2, ContentFields DEF NumbersTypeOK, Files
    <3>2. todo' = <<Write("caCert", Cert(fresh, fresh)), Write("caKey", Key(fresh))>>
      BY <2>1 DEF CreateCA, Write
    <3>3. fresh > 0 /\ held' = [cert |-> fresh, key |-> fresh]
      BY <2>1, <2>2
    <3>4. QED BY <1>1, <2>2, <3>1, <3>2, <3>3 DEF WritesCA
  <2>8. \A b \in Actors : Stage(b)'
    <3>1. Stage(a)'
      BY <1>1, <2>1, <2>7 DEF Stage, ControlTypeOK
    <3>2. ASSUME NEW b \in Actors, b # a PROVE Stage(b)'
      BY <1>1, <1>2, <2>1, <3>2 DEF Stage, InEnsure
    <3>3. QED BY <3>1, <3>2
  <2>9. QED BY <1>4, <2>3, <2>5, <2>6, <2>8 DEF Credible
<1>7. QED BY <1>5, <1>6

LEMMA CheckStep ==
  ASSUME Credible, NEW a \in Actors, CheckLeaf(a)
  PROVE  Credible'
<1>1. /\ UNCHANGED <<files, profiles, installed, aged, open, sweep, store, ensured, swept, untrusted,
                     harmed>>
      /\ pc[a] = "leafOK" /\ NumbersTypeOK /\ ControlTypeOK /\ Stage(a)
      /\ \E label \in {"ensured", "down", "writing"} : pc' = [pc EXCEPT ![a] = label]
  BY DEF CheckLeaf, Goto, sweepVars, pastVars, Credible
<1>2. \A b \in Actors : b # a => ~InEnsure(b)
  BY <1>1 DEF ControlTypeOK, InEnsure
<1>3. todo = <<>> /\ ~open /\ Loaded
  BY <1>1, <1>2 DEF ControlTypeOK, InEnsure, Stage
<1>4. StoresTypeOK' /\ Covered'
  <2>1. StoresTypeOK /\ Covered
    BY DEF Credible
  <2>2. \A b \in Actors : pc'[b] = pc[b] \/ {pc[b], pc'[b]} \cap {"deleting", "adding"} = {}
    BY <1>1 DEF ControlTypeOK
  <2>3. Covered'
    BY <1>1, <2>1, <2>2, StillCovered
  <2>4. pc'["service"] = "serving" => pc["service"] = "serving"
    BY <1>1 DEF ControlTypeOK, Actors
  <2>5. StoresTypeOK'
    BY <1>1, <2>1, <2>4 DEF StoresTypeOK
  <2>6. QED BY <2>3, <2>5
<1>5. Recoverable'
  BY <1>1, <1>3 DEF Credible, Recoverable, CAMatches, LeafMatches
<1>6. ASSUME pc' = [pc EXCEPT ![a] = "ensured"], UNCHANGED <<todo, fresh, held>>, LeafOK
      PROVE  Credible'
  <2>1. NumbersTypeOK'
    BY <1>1, <1>6 DEF NumbersTypeOK, Numbers, Contents
  <2>2. ControlTypeOK'
    BY <1>1, <1>2, <1>3, <1>6 DEF ControlTypeOK, InEnsure, Actors
  <2>3. harmed \/ Usable
    <3>1. harmed \/ (CAMatches /\ LeafMatches)
      BY <1>3 DEF Credible, Recoverable
    <3>2. QED BY <1>3, <1>6, <3>1 DEF CAMatches, LeafMatches, LeafOK, Loaded, Usable, Parses
  <2>4. Loaded' /\ (harmed \/ Usable)'
    BY <1>1, <1>3, <1>6, <2>3 DEF Loaded, Usable
  <2>5. \A b \in Actors : Stage(b)'
    <3>1. Stage(a)'
      BY <1>1, <1>6, <2>4 DEF Stage, ControlTypeOK
    <3>2. ASSUME NEW b \in Actors, b # a PROVE Stage(b)'
      BY <1>1, <1>2, <1>6, <3>2 DEF Stage, InEnsure
    <3>3. QED BY <3>1, <3>2
  <2>6. QED BY <1>4, <1>5, <2>1, <2>2, <2>5 DEF Credible
<1>7. ASSUME pc' = [pc EXCEPT ![a] = "down"], UNCHANGED <<todo, fresh>>, held' = NoCA
      PROVE  Credible'
  <2>1. NumbersTypeOK'
    BY <1>1, <1>7 DEF NumbersTypeOK, Numbers, Contents, NoCA
  <2>2. ControlTypeOK'
    BY <1>1, <1>2, <1>3, <1>7 DEF ControlTypeOK, InEnsure, Actors
  <2>3. \A b \in Actors : Stage(b)'
    <3>1. Stage(a)'
      BY <1>1, <1>7 DEF Stage, ControlTypeOK
    <3>2. ASSUME NEW b \in Actors, b # a PROVE Stage(b)'
      BY <1>1, <1>2, <1>7, <3>2 DEF Stage, InEnsure
    <3>3. QED BY <3>1, <3>2
  <2>4. QED BY <1>4, <1>5, <2>1, <2>2, <2>3 DEF Credible
<1>8. ASSUME pc' = [pc EXCEPT ![a] = "writing"], todo' = CreateLeaf(fresh), fresh' = fresh + 1,
             held.cert = held.key, UNCHANGED held
      PROVE  Credible'
  <2>1. fresh \in Nat \ {0} /\ fresh' \in Nat \ {0} /\ fresh <= fresh' /\ fresh' - 1 = fresh
    BY <1>1, <1>8 DEF NumbersTypeOK
  <2>2. NumbersTypeOK'
    <3>1. held' \in [cert : Numbers', key : Numbers']
      BY <1>1, <1>8, <2>1, MoreNumbers DEF NumbersTypeOK
    <3>2. files' \in [Files -> Contents']
      BY <1>1, <2>1, MoreNumbers DEF NumbersTypeOK
    <3>3. aged' \subseteq Numbers' /\ ensured' \in 0 .. fresh' - 1 /\ installed' \in [Stores -> 0 .. fresh' - 1]
      BY <1>1, <2>1, MoreNumbers DEF NumbersTypeOK
    <3>4. QED BY <2>1, <3>1, <3>2, <3>3 DEF NumbersTypeOK
  <2>3. todo' # <<>>
    BY <1>8 DEF CreateLeaf
  <2>4. ControlTypeOK'
    BY <1>1, <1>2, <1>3, <1>8, <2>3 DEF ControlTypeOK, InEnsure, Actors
  <2>5. WritesLeaf'
    <3>1. files["caCert"].key = held.cert
      BY <1>3 DEF Loaded
    <3>2. todo' = <<Write("leafCert", Cert(fresh, held.cert)), Write("leafKey", Key(fresh)),
                    Write("chain", Chain(fresh, held.cert, held.cert))>>
      BY <1>8, <3>1 DEF CreateLeaf, Write
    <3>3. Loaded' /\ held'.key = held'.cert /\ held'.cert = held.cert /\ fresh > 0
      BY <1>1, <1>3, <1>8, <2>1 DEF Loaded
    <3>4. QED BY <2>1, <3>2, <3>3 DEF WritesLeaf
  <2>6. \A b \in Actors : Stage(b)'
    <3>1. Stage(a)'
      BY <1>1, <1>8, <2>5 DEF Stage, ControlTypeOK
    <3>2. ASSUME NEW b \in Actors, b # a PROVE Stage(b)'
      BY <1>1, <1>2, <1>8, <3>2 DEF Stage, InEnsure
    <3>3. QED BY <3>1, <3>2
  <2>7. QED BY <1>4, <1>5, <2>2, <2>4, <2>6 DEF Credible
<1>9. QED
  BY <1>6, <1>7, <1>8 DEF CheckLeaf, Goto

\* What a running Ensure has yet to write, step by step.
LEMMA Writing ==
  ASSUME Credible, NEW a \in Actors, pc[a] = "writing"
  PROVE  /\ NumbersTypeOK /\ ControlTypeOK /\ todo # <<>> /\ Head(todo).file \in Files
         /\ fresh - 1 \in Nat /\ fresh - 1 \in Numbers
         /\ Head(todo).content \in Contents /\ (WritesCA \/ WritesLeaf)
         /\ \A b \in Actors : b # a => ~InEnsure(b)
<1>1. NumbersTypeOK /\ ControlTypeOK /\ (WritesCA \/ WritesLeaf)
  BY DEF Credible, Stage
<1>2. \A b \in Actors : b # a => ~InEnsure(b)
  BY <1>1 DEF ControlTypeOK, InEnsure
<1>3. fresh - 1 \in Nat /\ fresh - 1 \in Numbers
  BY <1>1 DEF NumbersTypeOK, Numbers
<1>4. todo # <<>>
  BY <1>1 DEF ControlTypeOK
<1>5. /\ Key(fresh - 1) \in Contents /\ Cert(fresh - 1, fresh - 1) \in Contents
      /\ Cert(fresh - 1, held.cert) \in Contents
      /\ Chain(fresh - 1, held.cert, held.cert) \in Contents
  BY <1>1, <1>3, ContentFields
<1>6. Head(todo).file \in Files /\ Head(todo).content \in Contents
  <2>1. CASE WritesCA
    BY <1>5, <2>1 DEF WritesCA, Write, Files
  <2>2. CASE WritesLeaf
    BY <1>5, <2>2 DEF WritesLeaf, Write, Files
  <2>3. QED BY <1>1, <2>1, <2>2
<1>7. QED
  BY <1>1, <1>2, <1>3, <1>4, <1>6

LEMMA TruncateStep ==
  ASSUME Credible, NEW a \in Actors, Truncate(a)
  PROVE  Credible'
<1>1. /\ UNCHANGED <<profiles, installed, aged, fresh, pc, held, todo, sweep, store, ensured, swept,
                     untrusted, harmed>>
      /\ pc[a] = "writing" /\ ~open /\ open' = TRUE
      /\ files' = [files EXCEPT ![Head(todo).file] = Torn]
  BY DEF Truncate, sweepVars, pastVars
<1>2. /\ NumbersTypeOK /\ ControlTypeOK /\ todo # <<>> /\ Head(todo).file \in Files
      /\ fresh - 1 \in Nat /\ (WritesCA \/ WritesLeaf) /\ \A b \in Actors : b # a => ~InEnsure(b)
  BY <1>1, Writing
<1>3. Torn \in Contents /\ Torn.key = -1 /\ ~Parses(Torn) /\ Torn.ca = 0
  BY <1>2, ContentFields DEF Torn, Key, Parses
<1>4. files'[Head(todo).file] = Torn /\ \A f \in Files : f # Head(todo).file => files'[f] = files[f]
  BY <1>1, <1>2 DEF NumbersTypeOK
<1>5. NumbersTypeOK'
  <2>1. files' \in [Files -> Contents]
    BY <1>1, <1>2, <1>3 DEF NumbersTypeOK
  <2>2. QED BY <1>1, <1>2, <2>1 DEF NumbersTypeOK, Numbers, Contents
<1>6. ControlTypeOK'
  BY <1>1, <1>2, <1>4 DEF ControlTypeOK, InEnsure
<1>7. StoresTypeOK'
  BY <1>1 DEF Credible, StoresTypeOK
<1>8. ASSUME NEW b \in Actors, b # a PROVE Stage(b)'
  BY <1>1, <1>2, <1>8 DEF Stage, InEnsure
<1>a. files'["caCert"].key = ensured => files["caCert"].key = ensured
  BY <1>2, <1>3, <1>4 DEF NumbersTypeOK, Files
<1>b. Covered'
  BY <1>1, <1>a, StillCovered DEF Credible
<1>9. CASE WritesCA /\ todo = <<Write("caCert", Cert(fresh - 1, fresh - 1)), Write("caKey", Key(fresh - 1))>>
  <2>1. Head(todo).file = "caCert"
    BY <1>9 DEF Write
  <2>2. files'["caCert"] = Torn /\ files'["leafCert"] = files["leafCert"]
    BY <1>4, <2>1 DEF Files
  <2>3. WritesCA'
    BY <1>1, <1>9, <2>2 DEF WritesCA
  <2>4. Recoverable'
    BY <1>3, <2>2 DEF Recoverable, CAMatches, LeafMatches
  <2>5. QED BY <1>1, <1>5, <1>6, <1>7, <1>8, <1>b, <2>3, <2>4 DEF Credible, Stage
<1>10. CASE WritesCA /\ todo = <<Write("caKey", Key(fresh - 1))>> /\ files["caCert"] = Cert(fresh - 1, fresh - 1)
  <2>1. Head(todo).file = "caKey"
    BY <1>10 DEF Write
  <2>2. /\ files'["caKey"] = Torn /\ files'["leafCert"] = files["leafCert"]
        /\ files'["caCert"] = files["caCert"]
    BY <1>4, <2>1 DEF Files
  <2>3. WritesCA'
    BY <1>1, <1>10, <2>2 DEF WritesCA
  <2>4. Recoverable'
    <3>1. files["caCert"].key = fresh - 1 /\ files["leafCert"].ca < fresh - 1 /\ files["leafCert"].ca \in Int
      BY <1>2, <1>10, ContentFields DEF WritesCA, Cert, Files
    <3>2. files'["leafCert"].ca # files'["caCert"].key
      BY <1>2, <2>2, <3>1
    <3>3. QED BY <1>3, <2>2, <3>2 DEF Recoverable, CAMatches, LeafMatches
  <2>5. QED BY <1>1, <1>5, <1>6, <1>7, <1>8, <1>b, <2>3, <2>4 DEF Credible, Stage
<1>11. CASE WritesLeaf
  <2>1. Head(todo).file \in {"leafCert", "leafKey", "chain"}
    BY <1>11 DEF WritesLeaf, Write
  <2>2. files'["caCert"] = files["caCert"] /\ files'["caKey"] = files["caKey"]
    BY <1>4, <2>1 DEF Files
  <2>3. WritesLeaf'
    <3>1. Loaded'
      BY <1>1, <1>11, <2>2 DEF WritesLeaf, Loaded
    <3>2. Head(todo).file # "leafCert" => files'["leafCert"] = files["leafCert"]
      BY <1>4 DEF Files
    <3>3. Head(todo).file # "leafKey" => files'["leafKey"] = files["leafKey"]
      BY <1>4 DEF Files
    <3>4. /\ Head(<<Write("leafCert", Cert(fresh - 1, held.cert)), Write("leafKey", Key(fresh - 1)),
                    Write("chain", Chain(fresh - 1, held.cert, held.cert))>>).file = "leafCert"
          /\ Head(<<Write("leafKey", Key(fresh - 1)),
                    Write("chain", Chain(fresh - 1, held.cert, held.cert))>>).file = "leafKey"
          /\ Head(<<Write("chain", Chain(fresh - 1, held.cert, held.cert))>>).file = "chain"
      BY DEF Write
    <3>5. QED BY <1>1, <1>11, <3>1, <3>2, <3>3, <3>4 DEF WritesLeaf
  <2>4. Recoverable'
    <3>1. CASE Head(todo).file = "leafCert"
      <4>1. ~Parses(files'["leafCert"])
        BY <1>3, <1>4, <3>1
      <4>2. CAMatches'
        BY <1>11, <2>2 DEF WritesLeaf, Loaded, CAMatches
      <4>3. QED BY <4>1, <4>2 DEF Recoverable, LeafMatches
    <3>2. CASE Head(todo).file \in {"leafKey", "chain"}
      BY <1>1, <1>2, <3>2 DEF Recoverable, Window
    <3>3. QED BY <2>1, <3>1, <3>2
  <2>5. QED BY <1>1, <1>5, <1>6, <1>7, <1>8, <1>b, <2>3, <2>4 DEF Credible, Stage
<1>12. QED
  BY <1>2, <1>9, <1>10, <1>11 DEF WritesCA

LEMMA FillStep ==
  ASSUME Credible, NEW a \in Actors, Fill(a)
  PROVE  Credible'
<1>1. /\ UNCHANGED <<profiles, installed, aged, fresh, held, sweep, store, ensured, swept, untrusted,
                     harmed>>
      /\ pc[a] = "writing" /\ open' = FALSE /\ todo' = Tail(todo)
      /\ files' = [files EXCEPT ![Head(todo).file] = Head(todo).content]
      /\ pc' = [pc EXCEPT ![a] = CASE Len(todo) > 1 -> "writing"
                                  [] Head(todo).file = "caKey" -> "leafOK"
                                  [] OTHER -> "ensured"]
  BY DEF Fill, sweepVars, pastVars, Goto
<1>2. /\ NumbersTypeOK /\ ControlTypeOK /\ todo # <<>> /\ Head(todo).file \in Files
      /\ Head(todo).content \in Contents
      /\ fresh - 1 \in Nat /\ (WritesCA \/ WritesLeaf) /\ \A b \in Actors : b # a => ~InEnsure(b)
  BY <1>1, Writing
<1>3. /\ files'[Head(todo).file] = Head(todo).content
      /\ \A f \in Files : f # Head(todo).file => files'[f] = files[f]
  BY <1>1, <1>2 DEF NumbersTypeOK
<1>4. NumbersTypeOK'
  <2>1. files' \in [Files -> Contents]
    BY <1>1, <1>2, <1>3 DEF NumbersTypeOK
  <2>2. QED BY <1>1, <1>2, <2>1 DEF NumbersTypeOK, Numbers, Contents
<1>6. \A b \in Actors : b # a => pc'[b] = pc[b] /\ ~InEnsure(b)
  BY <1>1, <1>2 DEF ControlTypeOK
<1>c. pc'[a] \in {"writing", "leafOK", "ensured"}
  BY <1>1, <1>2 DEF ControlTypeOK
<1>5. StoresTypeOK'
  BY <1>1, <1>6, <1>c DEF Credible, StoresTypeOK, Actors
<1>d. ASSUME files'["caCert"].key = ensured => files["caCert"].key = ensured
      PROVE  Covered'
  BY <1>1, <1>6, <1>c, <1>d, StillCovered DEF Credible
<1>7. ASSUME NEW b \in Actors, b # a PROVE Stage(b)'
  BY <1>6, <1>7 DEF Stage, InEnsure
<1>8. ASSUME NEW label \in {"leafOK", "ensured"}, pc'[a] = label, todo' = <<>>
      PROVE  ControlTypeOK'
  BY <1>1, <1>2, <1>6, <1>8 DEF ControlTypeOK, InEnsure, Actors
<1>9. ASSUME pc'[a] = "writing", todo' # <<>>
      PROVE  ControlTypeOK'
  BY <1>1, <1>2, <1>6, <1>9 DEF ControlTypeOK, InEnsure, Actors
<1>a. Len(todo) > 1 /\ Head(todo).file # "caKey" => pc'[a] = "writing"
  BY <1>1, <1>2 DEF ControlTypeOK
<1>b. ~(Len(todo) > 1) => pc'[a] = IF Head(todo).file = "caKey" THEN "leafOK" ELSE "ensured"
  BY <1>1, <1>2 DEF ControlTypeOK
<1> DEFINE K == fresh - 1
           H == held.cert
<1>10. CASE WritesCA /\ todo = <<Write("caCert", Cert(fresh - 1, fresh - 1)), Write("caKey", Key(fresh - 1))>>
  <2>1. /\ Head(todo) = Write("caCert", Cert(K, K)) /\ Tail(todo) = <<Write("caKey", Key(K))>>
        /\ Len(todo) = 2
    BY <1>10
  <2>2. /\ files'["caCert"] = Cert(K, K) /\ files'["leafCert"] = files["leafCert"]
        /\ files'["caKey"] = files["caKey"] /\ pc'[a] = "writing" /\ todo' # <<>>
    BY <1>1, <1>3, <1>a, <2>1 DEF Files, Write
  <2>3. WritesCA'
    BY <1>1, <1>10, <2>1, <2>2 DEF WritesCA
  <2>4. files'["leafCert"].ca # K /\ ensured # K
    BY <1>2, <1>10, <2>2, ContentFields, SMTT(30) DEF WritesCA, NumbersTypeOK, Files
  <2>5. Recoverable'
    <3>1. CASE Parses(files["caKey"])
      <4>1. todo' = <<Write("caKey", Key(K))>>
        BY <1>1, <2>1
      <4>2. Head(todo') = Write("caKey", Key(K))
        BY <4>1
      <4>3. Head(todo').file = "caKey" /\ Parses(files'["caKey"])
        BY <2>2, <3>1, <4>2 DEF Write
      <4>4. QED BY <1>1, <2>2, <4>3 DEF Recoverable, Window
    <3>2. CASE ~Parses(files["caKey"])
      BY <2>2, <2>4, <3>2 DEF Recoverable, CAMatches, LeafMatches, Cert
    <3>3. QED BY <3>1, <3>2
  <2>6. Covered'
    BY <1>d, <2>2, <2>4 DEF Cert
  <2>7. QED BY <1>4, <1>5, <1>7, <1>9, <2>2, <2>3, <2>5, <2>6 DEF Credible, Stage
<1>11. CASE WritesCA /\ todo = <<Write("caKey", Key(fresh - 1))>> /\ files["caCert"] = Cert(fresh - 1, fresh - 1)
  <2>1. Head(todo) = Write("caKey", Key(K)) /\ Tail(todo) = <<>> /\ Len(todo) = 1
    BY <1>11
  <2>2. /\ files'["caKey"] = Key(K) /\ files'["leafCert"] = files["leafCert"]
        /\ files'["caCert"] = Cert(K, K) /\ pc'[a] = "leafOK" /\ todo' = <<>>
    BY <1>1, <1>3, <1>b, <1>11, <2>1 DEF Files, Write
  <2>3. Loaded'
    BY <1>1, <1>11, <2>2 DEF WritesCA, Loaded, Cert, Key
  <2>4. Recoverable'
    <3>1. files'["leafCert"].ca # K
      BY <1>2, <1>11, <2>2, ContentFields DEF WritesCA, Files
    <3>2. QED BY <2>2, <3>1 DEF Recoverable, CAMatches, LeafMatches, Cert, Key
  <2>5. Covered'
    BY <1>d, <1>11, <2>2
  <2>6. QED BY <1>4, <1>5, <1>7, <1>8, <2>2, <2>3, <2>4, <2>5 DEF Credible, Stage
<1>12. CASE WritesLeaf /\ todo = <<Write("leafCert", Cert(fresh - 1, held.cert)), Write("leafKey", Key(fresh - 1)),
                                  Write("chain", Chain(fresh - 1, held.cert, held.cert))>>
  <2>1. /\ Head(todo) = Write("leafCert", Cert(K, H)) /\ Len(todo) = 3
        /\ Tail(todo) = <<Write("leafKey", Key(K)), Write("chain", Chain(K, H, H))>>
    BY <1>12
  <2>2. /\ files'["leafCert"] = Cert(K, H) /\ files'["caCert"] = files["caCert"]
        /\ files'["caKey"] = files["caKey"] /\ files'["leafKey"] = files["leafKey"]
        /\ pc'[a] = "writing" /\ todo' # <<>>
    BY <1>1, <1>3, <1>a, <2>1 DEF Files, Write
  <2>3. Loaded'
    BY <1>1, <1>12, <2>2 DEF WritesLeaf, Loaded
  <2>4. WritesLeaf'
    BY <1>1, <1>12, <2>1, <2>2, <2>3 DEF WritesLeaf
  <2>5. Recoverable'
    <3>1. CASE files["leafKey"] # Missing
      <4>1. todo' = <<Write("leafKey", Key(K)), Write("chain", Chain(K, H, H))>>
        BY <1>1, <2>1
      <4>2. Head(todo') = Write("leafKey", Key(K))
        BY <4>1
      <4>3. Head(todo').file = "leafKey"
        BY <4>2 DEF Write
      <4>4. QED BY <2>2, <3>1, <4>3 DEF Recoverable, Window
    <3>2. CASE files["leafKey"] = Missing
      <4>1. CAMatches'
        BY <1>12, <2>2 DEF WritesLeaf, Loaded, CAMatches
      <4>2. QED BY <2>2, <3>2, <4>1 DEF Recoverable, LeafMatches
    <3>3. QED BY <3>1, <3>2
  <2>6. Covered'
    BY <1>d, <2>2
  <2>7. QED BY <1>4, <1>5, <1>7, <1>9, <2>2, <2>4, <2>5, <2>6 DEF Credible, Stage
<1>13. CASE /\ WritesLeaf /\ files["leafCert"] = Cert(fresh - 1, held.cert)
            /\ todo = <<Write("leafKey", Key(fresh - 1)), Write("chain", Chain(fresh - 1, held.cert, held.cert))>>
  <2>1. /\ Head(todo) = Write("leafKey", Key(K)) /\ Len(todo) = 2
        /\ Tail(todo) = <<Write("chain", Chain(K, H, H))>>
    BY <1>13
  <2>2. /\ files'["leafCert"] = Cert(K, H) /\ files'["caCert"] = files["caCert"]
        /\ files'["caKey"] = files["caKey"] /\ files'["leafKey"] = Key(K)
        /\ pc'[a] = "writing" /\ todo' # <<>>
    BY <1>1, <1>3, <1>a, <1>13, <2>1 DEF Files, Write
  <2>3. Loaded'
    BY <1>1, <1>13, <2>2 DEF WritesLeaf, Loaded
  <2>4. WritesLeaf'
    BY <1>1, <1>13, <2>1, <2>2, <2>3 DEF WritesLeaf
  <2>5. Recoverable'
    <3>1. todo' = <<Write("chain", Chain(K, H, H))>>
      BY <1>1, <2>1
    <3>2. Head(todo') = Write("chain", Chain(K, H, H))
      BY <3>1
    <3>3. Head(todo').file = "chain"
      BY <3>2 DEF Write
    <3>4. QED BY <2>2, <3>3 DEF Recoverable, Window
  <2>6. Covered'
    BY <1>d, <2>2
  <2>7. QED BY <1>4, <1>5, <1>7, <1>9, <2>2, <2>4, <2>5, <2>6 DEF Credible, Stage
<1>14. CASE /\ WritesLeaf /\ files["leafCert"] = Cert(fresh - 1, held.cert)
            /\ files["leafKey"] = Key(fresh - 1)
            /\ todo = <<Write("chain", Chain(fresh - 1, held.cert, held.cert))>>
  <2>1. Head(todo) = Write("chain", Chain(K, H, H)) /\ Len(todo) = 1 /\ Tail(todo) = <<>>
    BY <1>14
  <2>2. /\ files'["leafCert"] = Cert(K, H) /\ files'["caCert"] = files["caCert"]
        /\ files'["caKey"] = files["caKey"] /\ files'["leafKey"] = Key(K)
        /\ files'["chain"] = Chain(K, H, H) /\ pc'[a] = "ensured" /\ todo' = <<>>
    BY <1>1, <1>3, <1>b, <1>14, <2>1 DEF Files, Write
  <2>3. Loaded' /\ files["caCert"].key = H /\ files["caKey"].key = H /\ H > 0 /\ K > 0
    BY <1>1, <1>14, <2>2 DEF WritesLeaf, Loaded
  <2>4. Usable'
    BY <2>2, <2>3 DEF Usable, Parses, Cert, Key
  <2>5. Recoverable'
    BY <2>2, <2>3 DEF Recoverable, CAMatches, LeafMatches, Cert, Key
  <2>6. Covered'
    BY <1>d, <2>2
  <2>7. QED BY <1>4, <1>5, <1>7, <1>8, <2>2, <2>3, <2>4, <2>5, <2>6 DEF Credible, Stage
<1>15. QED
  BY <1>2, <1>10, <1>11, <1>12, <1>13, <1>14 DEF WritesCA, WritesLeaf

LEMMA FindStep ==
  ASSUME Credible, NEW a \in Actors, FindStores(a)
  PROVE  Credible'
<1>1. /\ UNCHANGED <<files, installed, aged, fresh, todo, open, store, harmed>>
      /\ pc[a] = "ensured" /\ pc' = [pc EXCEPT ![a] = "trusting"] /\ held' = NoCA
      /\ profiles' = StoresFound /\ sweep' = [sweep EXCEPT ![a] = StoresFound]
      /\ \/ /\ a = "service" /\ ensured' = held.cert
            /\ swept' = StoresFound /\ untrusted' = StoresFound
         \/ a # "service" /\ UNCHANGED <<ensured, swept, untrusted>>
  BY DEF FindStores, pastVars, Goto
<1>2. /\ NumbersTypeOK /\ ControlTypeOK /\ StoresTypeOK /\ Loaded
      /\ \A b \in Actors : b # a => ~InEnsure(b)
  BY <1>1 DEF Credible, Stage, ControlTypeOK, InEnsure
<1>3. ensured' \in 0 .. fresh - 1 /\ (ensured' = held.cert => ensured' > 0)
  BY <1>1, <1>2 DEF NumbersTypeOK, Loaded, Numbers
<1>4. NumbersTypeOK'
  <2>1. held' \in [cert : Numbers', key : Numbers']
    BY <1>1, <1>2 DEF NoCA, Numbers, NumbersTypeOK
  <2>2. QED BY <1>1, <1>2, <1>3, <2>1 DEF NumbersTypeOK, Numbers, Contents
<1>5. ControlTypeOK'
  BY <1>1, <1>2 DEF ControlTypeOK, InEnsure, Actors
<1>6. StoresTypeOK'
  <2>1. profiles \subseteq StoresFound /\ StoresFound \subseteq Stores
    BY <1>2, CredentialsAssumption DEF StoresFound, StoresTypeOK
  <2>2. QED BY <1>1, <1>2, <1>3, <2>1 DEF StoresTypeOK, ControlTypeOK, Actors
<1>7. ASSUME NEW b \in Actors PROVE Stage(b)'
  BY <1>1, <1>2 DEF Stage, InEnsure, ControlTypeOK
<1>8. Recoverable'
  BY <1>1 DEF Credible, Recoverable, Window, CAMatches, LeafMatches
<1>9. Covered'
  <2>1. CASE a = "service"
    <3>1. \A s \in swept' : ~Looked(s)'
      BY <1>1, <1>2, <2>1 DEF Looked, StoresTypeOK
    <3>2. QED BY <3>1 DEF Covered
  <2>2. CASE a # "service"
    BY <1>1, <1>2, <2>2, StillCovered DEF Credible, ControlTypeOK, StoresTypeOK, Actors
  <2>3. QED BY <2>1, <2>2
<1>10. QED
  BY <1>4, <1>5, <1>6, <1>7, <1>8, <1>9 DEF Credible

\* What the steps of a sweep have in common.
LEMMA SweepStep ==
  ASSUME Credible, NEW a \in Actors, UNCHANGED sweepFrame,
         \/ pc' = pc
         \/ /\ pc[a] \in {"trusting", "deleting", "adding", "untrusting", "removing"}
            /\ \E label \in {"trusting", "deleting", "adding"} : pc' = [pc EXCEPT ![a] = label]
         \/ /\ pc["command"] \in {"untrusting", "removing"}
            /\ \E label \in {"untrusting", "removing"} : pc' = [pc EXCEPT !["command"] = label],
         sweep' = sweep \/ \E s \in Stores : sweep' = [sweep EXCEPT ![a] = @ \ {s}],
         store' \in [Actors -> Stores], installed' \in [Stores -> 0 .. fresh - 1],
         untrusted' \subseteq Stores, Covered'
  PROVE  Credible'
<1>1. UNCHANGED <<files, profiles, aged, fresh, held, todo, open, ensured, swept, harmed>>
  BY DEF sweepFrame, ensureVars, pastVars
<1>2. NumbersTypeOK /\ ControlTypeOK /\ StoresTypeOK
  BY DEF Credible
<1>3. NumbersTypeOK'
  BY <1>1, <1>2 DEF NumbersTypeOK, Numbers, Contents
<1>4. \A b \in Actors :
        pc'[b] = pc[b] \/ (~InEnsure(b) /\ pc'[b] \in {"trusting", "deleting", "adding", "untrusting", "removing"})
  BY <1>2 DEF ControlTypeOK, InEnsure
<1>5. ControlTypeOK'
  <2>1. pc' \in [Actors -> {"down", "loadCA", "leafOK", "writing", "ensured", "trusting",
                            "deleting", "adding", "untrusting", "removing", "serving"}]
    BY <1>2 DEF ControlTypeOK
  <2>2. pc'["service"] \notin {"untrusting", "removing"} /\ pc'["command"] # "serving"
    BY <1>2 DEF ControlTypeOK, Actors
  <2>3. \A b \in Actors : (InEnsure(b)' <=> InEnsure(b)) /\ (pc'[b] = "writing" <=> pc[b] = "writing")
    BY <1>4 DEF InEnsure
  <2>4. QED BY <1>1, <1>2, <2>1, <2>2, <2>3 DEF ControlTypeOK
<1>6. StoresTypeOK'
  <2>1. sweep' \in [Actors -> SUBSET profiles] /\ (sweep["service"] = {} => sweep'["service"] = {})
    BY <1>2 DEF StoresTypeOK, Actors
  <2>2. pc'["service"] = "serving" => pc["service"] = "serving"
    BY <1>4 DEF Actors
  <2>3. QED BY <1>1, <1>2, <2>1, <2>2 DEF StoresTypeOK
<1>7. (\A b \in Actors : Stage(b)') /\ Recoverable'
  <2>1. \A b \in Actors : pc'[b] = pc[b] \/ pc'[b] \notin {"leafOK", "writing", "ensured"}
    BY <1>4
  <2>2. QED BY <1>1, <2>1, SameDisk
<1>8. QED
  BY <1>3, <1>5, <1>6, <1>7 DEF Credible

LEMMA TrustStep ==
  ASSUME Credible, NEW a \in Actors, NEW s \in Stores, TrustStore(a, s)
  PROVE  Credible'
<1>1. /\ UNCHANGED sweepFrame /\ UNCHANGED <<installed, files, ensured, swept>>
      /\ pc[a] = "trusting" /\ sweep' = [sweep EXCEPT ![a] = @ \ {s}]
  BY DEF TrustStore, sweepFrame
<1>2. NumbersTypeOK /\ ControlTypeOK /\ StoresTypeOK /\ Covered
  BY DEF Credible
<1>3. CASE Trusted(s)
  <2>1. UNCHANGED <<pc, store>> /\ untrusted' = untrusted \ {s}
    BY <1>3 DEF TrustStore
  <2>2. Covered'
    <3> SUFFICES ASSUME files["caCert"].key = ensured, NEW r \in swept \ Locked, Looked(r)'
                 PROVE  /\ installed[r] \in {0, ensured}
                        /\ r \notin untrusted' /\ installed[r] = 0 => Adding(r)'
      BY <1>1 DEF Covered
    <3>1. CASE r = s
      BY <1>3, <3>1 DEF Trusted
    <3>2. CASE r # s
      <4>1. Looked(r)
        BY <1>1, <1>2, <2>1, <3>2 DEF Looked, StoresTypeOK, Actors
      <4>2. Adding(r) => Adding(r)'
        BY <2>1 DEF Adding
      <4>3. QED BY <1>2, <2>1, <3>2, <4>1, <4>2 DEF Covered
    <3>3. QED BY <3>1, <3>2
  <2>3. QED BY <1>1, <1>2, <2>1, <2>2, SweepStep DEF StoresTypeOK, NumbersTypeOK
<1>4. CASE ~Trusted(s)
  <2>1. /\ pc' = [pc EXCEPT ![a] = "deleting"] /\ store' = [store EXCEPT ![a] = s]
        /\ untrusted' = untrusted
    BY <1>4 DEF TrustStore, Goto
  <2>2. Covered'
    <3> SUFFICES ASSUME files["caCert"].key = ensured, NEW r \in swept \ Locked, Looked(r)'
                 PROVE  /\ installed[r] \in {0, ensured}
                        /\ r \notin untrusted /\ installed[r] = 0 => Adding(r)'
      BY <1>1, <2>1 DEF Covered
    <3>1. Looked(r)
      BY <1>1, <1>2, <2>1 DEF Looked, StoresTypeOK, ControlTypeOK, Actors
    <3>2. Adding(r) => Adding(r)'
      BY <1>1, <1>2, <2>1 DEF Adding, StoresTypeOK, ControlTypeOK
    <3>3. QED BY <1>2, <3>1, <3>2 DEF Covered
  <2>3. QED BY <1>1, <1>2, <2>1, <2>2, SweepStep DEF StoresTypeOK, NumbersTypeOK
<1>5. QED BY <1>3, <1>4

LEMMA DeleteStep ==
  ASSUME Credible, NEW a \in Actors, DeleteCA(a)
  PROVE  Credible'
<1>1. /\ UNCHANGED sweepFrame /\ UNCHANGED <<files, ensured, swept, sweep, store, untrusted>>
      /\ pc[a] = "deleting" /\ pc' = [pc EXCEPT ![a] = "adding"]
      /\ installed' = Emptied(store[a])
  BY DEF DeleteCA, Goto, sweepFrame, sweepVars
<1>2. NumbersTypeOK /\ ControlTypeOK /\ StoresTypeOK /\ Covered
  BY DEF Credible
<1>3. /\ installed' \in [Stores -> 0 .. fresh - 1]
      /\ \A r \in Stores : r # store[a] => installed'[r] = installed[r]
      /\ store[a] \notin Locked => installed'[store[a]] = 0
  BY <1>1, <1>2 DEF NumbersTypeOK, StoresTypeOK, Emptied
<1>4. Covered'
  <2> SUFFICES ASSUME files["caCert"].key = ensured, NEW r \in swept \ Locked, Looked(r)'
               PROVE  /\ installed'[r] \in {0, ensured}
                      /\ r \notin untrusted /\ installed'[r] = 0 => Adding(r)'
    BY <1>1 DEF Covered
  <2>1. CASE r = store[a]
    BY <1>1, <1>2, <1>3, <2>1 DEF Adding, ControlTypeOK
  <2>2. CASE r # store[a]
    <3>1. Looked(r) /\ r \in Stores
      BY <1>1, <1>2, <2>2 DEF Looked, StoresTypeOK, ControlTypeOK, Actors
    <3>2. Adding(r) => Adding(r)'
      BY <1>1, <1>2 DEF Adding, ControlTypeOK
    <3>3. QED BY <1>2, <1>3, <2>2, <3>1, <3>2 DEF Covered
  <2>3. QED BY <2>1, <2>2
<1>5. QED
  BY <1>1, <1>2, <1>3, <1>4, SweepStep DEF StoresTypeOK

LEMMA AddStep ==
  ASSUME Credible, NEW a \in Actors, AddCA(a)
  PROVE  Credible'
<1>1. /\ UNCHANGED sweepFrame /\ UNCHANGED <<files, ensured, swept, sweep>>
      /\ pc[a] = "adding" /\ pc' = [pc EXCEPT ![a] = "trusting"]
      /\ store' = [store EXCEPT ![a] = Shared] /\ untrusted' = untrusted \ {store[a]}
  BY DEF AddCA, Goto, sweepFrame
<1>2. NumbersTypeOK /\ ControlTypeOK /\ StoresTypeOK /\ Covered
  BY DEF Credible
<1>3. PICK ca \in Added(store[a]) : installed' = [installed EXCEPT ![store[a]] = ca]
  BY DEF AddCA
<1>4. store[a] \in Stores /\ store' \in [Actors -> Stores]
  BY <1>1, <1>2, CredentialsAssumption DEF StoresTypeOK
<1>5. files["caCert"].key \in Numbers /\ (Parses(files["caCert"]) => files["caCert"].key \in 0 .. fresh - 1)
  BY <1>2, ContentFields DEF Parses, Files, Numbers, NumbersTypeOK
<1>6. installed' \in [Stores -> 0 .. fresh - 1]
  <2>1. ca \in 0 .. fresh - 1
    BY <1>2, <1>4, <1>5 DEF Added, NumbersTypeOK
  <2>2. QED BY <1>2, <1>3, <2>1 DEF NumbersTypeOK
<1>7. Covered'
  <2> SUFFICES ASSUME files["caCert"].key = ensured, NEW r \in swept \ Locked, Looked(r)'
               PROVE  /\ installed'[r] \in {0, ensured}
                      /\ r \notin untrusted' /\ installed'[r] = 0 => Adding(r)'
    BY <1>1 DEF Covered
  <2>1. Looked(r) /\ r \in Stores
    BY <1>1, <1>2 DEF Looked, StoresTypeOK, ControlTypeOK, Actors
  <2>2. CASE r = store[a]
    <3>1. ensured > 0 /\ Parses(files["caCert"])
      BY <1>2 DEF StoresTypeOK, NumbersTypeOK, Parses
    <3>2. installed[r] \in {0, ensured}
      BY <1>2, <2>1 DEF Covered
    <3>3. ca = ensured
      BY <2>2, <3>1, <3>2 DEF Added
    <3>4. QED BY <1>2, <1>3, <2>1, <2>2, <3>1, <3>3 DEF NumbersTypeOK
  <2>3. CASE r # store[a]
    <3>1. installed'[r] = installed[r] /\ (r \notin untrusted' => r \notin untrusted)
      BY <1>1, <1>2, <1>3, <2>1, <2>3 DEF NumbersTypeOK
    <3>2. Adding(r) => Adding(r)'
      BY <1>1, <1>2, <2>3 DEF Adding, ControlTypeOK, StoresTypeOK
    <3>3. QED BY <1>2, <2>1, <3>1, <3>2 DEF Covered
  <2>4. QED BY <2>2, <2>3
<1>8. QED
  BY <1>1, <1>2, <1>4, <1>6, <1>7, SweepStep DEF StoresTypeOK

LEMMA UntrustStep ==
  ASSUME Credible, RemoveCA \/ \E s \in Stores : UntrustStore(s)
  PROVE  Credible'
<1>1. /\ UNCHANGED sweepFrame /\ UNCHANGED <<files, ensured, swept>>
      /\ pc["command"] \in {"untrusting", "removing"} /\ pc'["service"] = pc["service"]
      /\ pc' = pc \/ \E label \in {"untrusting", "removing"} : pc' = [pc EXCEPT !["command"] = label]
      /\ \E s \in Stores : store' = store \/ store' = [store EXCEPT !["command"] = s]
      /\ sweep' = sweep \/ \E s \in Stores : sweep' = [sweep EXCEPT !["command"] = @ \ {s}]
      /\ \/ UNCHANGED <<installed, untrusted>>
         \/ /\ installed' = Emptied(store["command"])
            /\ untrusted' = untrusted \cup {store["command"]}
  BY CredentialsAssumption DEF RemoveCA, UntrustStore, Goto, sweepFrame, Credible, ControlTypeOK, Actors
<1>2. NumbersTypeOK /\ ControlTypeOK /\ StoresTypeOK /\ Covered /\ "command" \in Actors
  BY DEF Credible, Actors
<1>3. /\ installed' \in [Stores -> 0 .. fresh - 1] /\ untrusted' \subseteq Stores
      /\ store' \in [Actors -> Stores] /\ store'["service"] = store["service"]
      /\ sweep'["service"] = sweep["service"]
  BY <1>1, <1>2 DEF NumbersTypeOK, StoresTypeOK, Emptied, Actors
<1>4. Covered'
  <2> SUFFICES ASSUME files["caCert"].key = ensured, NEW r \in swept \ Locked, Looked(r)'
               PROVE  /\ installed'[r] \in {0, ensured}
                      /\ r \notin untrusted' /\ installed'[r] = 0 => Adding(r)'
    BY <1>1 DEF Covered
  <2>1. Looked(r) /\ r \in Stores
    BY <1>1, <1>2, <1>3 DEF Looked, StoresTypeOK
  <2>2. \/ r \in untrusted' /\ installed'[r] = 0
        \/ installed'[r] = installed[r] /\ (r \notin untrusted' => r \notin untrusted)
    BY <1>1, <1>2, <2>1 DEF Emptied, NumbersTypeOK
  <2>3. Adding(r) => Adding(r)'
    BY <1>1, <1>3 DEF Adding, Actors
  <2>4. QED BY <1>2, <2>1, <2>2, <2>3 DEF Covered
<1>5. QED
  BY <1>1, <1>2, <1>3, <1>4, SweepStep

LEMMA EndsStep ==
  ASSUME Credible, CommandEnds \/ RunUntrust \/ ServeTLS
  PROVE  Credible'
<1>1. /\ UNCHANGED <<files, installed, aged, fresh, held, todo, open, store, harmed>>
      /\ \/ UNCHANGED <<ensured, swept, untrusted>>
         \/ ensured' = 0 /\ swept' = {} /\ untrusted' = {}
      /\ \/ UNCHANGED <<profiles, sweep>>
         \/ profiles' = StoresFound /\ sweep' = [sweep EXCEPT !["command"] = StoresFound]
      /\ sweep'["service"] = sweep["service"]
      /\ (pc'["service"] = "serving" => sweep["service"] = {})
  BY DEF CommandEnds, RunUntrust, ServeTLS, ServiceGone, ensureVars, sweepVars, pastVars, Goto,
         Credible, ControlTypeOK, StoresTypeOK, Actors
<1>2. /\ \/ pc["command"] \in {"down", "trusting", "untrusting"}
            /\ (pc' = [pc EXCEPT !["command"] = "down"] \/ pc' = [pc EXCEPT !["command"] = "untrusting"])
         \/ pc["service"] = "trusting"
            /\ (pc' = [pc EXCEPT !["service"] = "serving"] \/ pc' = [pc EXCEPT !["service"] = "down"])
  BY DEF CommandEnds, RunUntrust, ServeTLS, Goto
<1>3. NumbersTypeOK /\ ControlTypeOK /\ StoresTypeOK /\ Covered
  BY DEF Credible
<1>4. NumbersTypeOK'
  BY <1>1, <1>3 DEF NumbersTypeOK, Numbers, Contents
<1>5. ControlTypeOK'
  BY <1>1, <1>2, <1>3 DEF ControlTypeOK, InEnsure, Actors
<1>6. StoresTypeOK'
  <2>1. profiles \subseteq StoresFound /\ StoresFound \subseteq Stores
    BY <1>3, CredentialsAssumption DEF StoresFound, StoresTypeOK
  <2>2. QED BY <1>1, <1>3, <2>1 DEF StoresTypeOK
<1>7. \A b \in Actors : pc'[b] = pc[b] \/ pc'[b] \notin {"leafOK", "writing", "ensured"}
  BY <1>2, <1>3 DEF ControlTypeOK, Actors
<1>8. (\A b \in Actors : Stage(b)') /\ Recoverable'
  BY <1>1, <1>7, SameDisk
<1>9. Covered'
  <2>1. \A b \in Actors : pc'[b] = pc[b] \/ {pc[b], pc'[b]} \cap {"deleting", "adding"} = {}
    BY <1>2, <1>3 DEF ControlTypeOK, Actors
  <2>2. CASE UNCHANGED <<ensured, swept, untrusted>>
    BY <1>1, <1>3, <2>1, <2>2, StillCovered
  <2>3. CASE swept' = {}
    BY <2>3 DEF Covered
  <2>4. QED BY <1>1, <2>2, <2>3
<1>10. QED
  BY <1>4, <1>5, <1>6, <1>8, <1>9 DEF Credible

LEMMA CrashStep ==
  ASSUME Credible, NEW a \in Actors, Crash(a)
  PROVE  Credible'
<1>1. /\ UNCHANGED <<files, profiles, installed, aged, fresh>>
      /\ harmed' = (harmed \/ (pc[a] = "writing" /\ Window)) /\ pc' = [pc EXCEPT ![a] = "down"]
      /\ IF InEnsure(a) THEN held' = NoCA /\ todo' = <<>> /\ open' = FALSE
                        ELSE UNCHANGED <<held, todo, open>>
      /\ \/ /\ a = "command" /\ UNCHANGED <<ensured, swept>>
            /\ untrusted' = untrusted \cup (IF pc[a] = "adding" THEN {store[a]} ELSE {})
         \/ ensured' = 0 /\ swept' = {} /\ untrusted' = {}
      /\ sweep' = [sweep EXCEPT ![a] = {}] /\ store' = [store EXCEPT ![a] = Shared]
  BY DEF Crash, Goto, ServiceGone, ensureVars, Actors
<1>2. NumbersTypeOK /\ ControlTypeOK /\ StoresTypeOK /\ Covered /\ Recoverable
  BY DEF Credible
<1>3. NumbersTypeOK'
  <2>1. held' \in [cert : Numbers', key : Numbers']
    BY <1>1, <1>2 DEF NoCA, Numbers, NumbersTypeOK
  <2>2. ensured' \in 0 .. fresh' - 1
    BY <1>1, <1>2 DEF NumbersTypeOK
  <2>3. QED BY <1>1, <1>2, <2>1, <2>2 DEF NumbersTypeOK, Numbers, Contents
<1>4. StoresTypeOK'
  <2>1. store' \in [Actors -> Stores] /\ untrusted' \subseteq Stores /\ sweep' \in [Actors -> SUBSET profiles]
    BY <1>1, <1>2, CredentialsAssumption DEF StoresTypeOK
  <2>2. pc'["service"] = "serving" => sweep'["service"] = {}
    BY <1>1, <1>2 DEF StoresTypeOK, ControlTypeOK, Actors
  <2>3. QED BY <1>1, <1>2, <2>1, <2>2 DEF StoresTypeOK
<1>5. Covered'
  <2>1. CASE swept' = {}
    BY <2>1 DEF Covered
  <2>2. CASE /\ a = "command" /\ UNCHANGED <<ensured, swept>>
             /\ untrusted' = untrusted \cup (IF pc[a] = "adding" THEN {store[a]} ELSE {})
    <3> SUFFICES ASSUME files["caCert"].key = ensured, NEW r \in swept \ Locked, Looked(r)'
                 PROVE  /\ installed[r] \in {0, ensured}
                        /\ r \notin untrusted' /\ installed[r] = 0 => Adding(r)'
      BY <1>1, <2>2 DEF Covered
    <3>1. Looked(r)
      BY <1>1, <1>2, <2>2 DEF Looked, StoresTypeOK, ControlTypeOK, Actors
    <3>2. Adding(r) => r \in untrusted' \/ Adding(r)'
      BY <1>1, <1>2, <2>2 DEF Adding, StoresTypeOK, ControlTypeOK, Actors
    <3>3. QED BY <1>2, <2>2, <3>1, <3>2 DEF Covered
  <2>3. QED BY <1>1, <2>1, <2>2
<1>6. harmed' \in BOOLEAN
  BY <1>1, <1>2 DEF ControlTypeOK
<1>7. CASE InEnsure(a)
  <2>1. \A b \in Actors : b # a => ~InEnsure(b) /\ pc'[b] = pc[b]
    BY <1>1, <1>2, <1>7 DEF ControlTypeOK
  <2>2. todo' = <<>> /\ ~open' /\ pc'[a] = "down"
    BY <1>1, <1>2, <1>7 DEF ControlTypeOK
  <2>3. ControlTypeOK'
    BY <1>1, <1>2, <1>6, <2>1, <2>2 DEF ControlTypeOK, InEnsure, Actors
  <2>4. \A b \in Actors : Stage(b)'
    BY <2>1, <2>2 DEF Stage, InEnsure
  <2>5. Recoverable'
    <3>1. todo # <<>> => pc[a] = "writing"
      BY <1>2, <2>1 DEF ControlTypeOK, InEnsure
    <3>2. harmed' \/ (CAMatches /\ LeafMatches)
      BY <1>1, <1>2, <3>1 DEF Recoverable
    <3>3. QED BY <1>1, <3>2 DEF Recoverable, CAMatches, LeafMatches
  <2>6. QED BY <1>3, <1>4, <1>5, <2>3, <2>4, <2>5 DEF Credible
<1>8. CASE ~InEnsure(a)
  <2>1. UNCHANGED <<files, fresh, held, todo, open, harmed>>
    BY <1>1, <1>2, <1>8 DEF InEnsure, ControlTypeOK
  <2>2. \A b \in Actors : pc'[b] = pc[b] \/ pc'[b] \notin {"leafOK", "writing", "ensured"}
    BY <1>1, <1>2 DEF ControlTypeOK
  <2>3. (\A b \in Actors : Stage(b)') /\ Recoverable'
    BY <1>1, <2>1, <2>2, SameDisk
  <2>4. ControlTypeOK'
    BY <1>1, <1>2, <1>8, <2>1 DEF ControlTypeOK, InEnsure, Actors
  <2>5. QED BY <1>3, <1>4, <1>5, <2>3, <2>4 DEF Credible
<1>9. QED BY <1>7, <1>8

LEMMA OutsideStep ==
  ASSUME Credible, \/ Age(files["caCert"].key) \/ Age(files["leafCert"].key)
                   \/ DeleteDir \/ \E s \in Stores : NewProfile(s)
  PROVE  Credible'
<1>1. NumbersTypeOK /\ ControlTypeOK /\ StoresTypeOK /\ Covered /\ Recoverable
  BY DEF Credible
<1>2. ASSUME UNCHANGED <<files, installed, fresh, pc, held, todo, open, sweep, store, ensured, swept, untrusted,
                         harmed>>,
             aged' \subseteq Numbers, profiles \subseteq profiles', profiles' \subseteq Stores
      PROVE  Credible'
  <2>1. NumbersTypeOK' /\ StoresTypeOK' /\ Covered'
    BY <1>1, <1>2, StillCovered DEF NumbersTypeOK, StoresTypeOK, Numbers, Contents
  <2>2. ControlTypeOK'
    BY <1>1, <1>2 DEF ControlTypeOK, InEnsure
  <2>3. (\A b \in Actors : Stage(b)') /\ Recoverable'
    BY <1>2, SameDisk
  <2>4. QED BY <2>1, <2>2, <2>3 DEF Credible
<1>3. ASSUME NEW f \in {"caCert", "leafCert"}, Age(files[f].key) PROVE Credible'
  <2>1. files[f].key \in Numbers
    BY <1>1, ContentFields DEF Files
  <2>2. /\ UNCHANGED <<files, profiles, installed, fresh, pc, held, todo, open, sweep, store, ensured,
                       swept, untrusted, harmed>>
        /\ aged' = aged \cup {files[f].key}
    BY <1>3 DEF Age, ensureVars, sweepVars, pastVars
  <2>3. aged' \subseteq Numbers
    BY <1>1, <2>1, <2>2 DEF NumbersTypeOK
  <2>4. QED BY <1>1, <1>2, <2>2, <2>3 DEF StoresTypeOK
<1>4. ASSUME NEW s \in Stores, NewProfile(s) PROVE Credible'
  <2>1. /\ UNCHANGED <<files, installed, aged, fresh, pc, held, todo, open, sweep, store, ensured,
                       swept, untrusted, harmed>>
        /\ profiles' = profiles \cup {s}
    BY <1>4 DEF NewProfile, ensureVars, sweepVars, pastVars
  <2>2. QED BY <1>1, <1>2, <2>1 DEF StoresTypeOK, NumbersTypeOK
<1>5. CASE DeleteDir
  <2>1. /\ UNCHANGED <<profiles, installed, aged, fresh, pc, held, todo, open, sweep, store, ensured,
                       swept, untrusted>>
        /\ files' = [f \in Files |-> Missing] /\ harmed' = FALSE
        /\ \A b \in Actors : ~InEnsure(b)
    BY <1>5 DEF DeleteDir, ensureVars, sweepVars, NoEnsure
  <2>2. NumbersTypeOK' /\ StoresTypeOK'
    <3>1. files' \in [Files -> Contents]
      BY <1>1, <2>1, ContentFields
    <3>2. QED BY <1>1, <2>1, <3>1 DEF NumbersTypeOK, StoresTypeOK, Numbers, Contents
  <2>3. todo = <<>>
    BY <1>1, <2>1 DEF ControlTypeOK, InEnsure
  <2>4. ControlTypeOK'
    BY <1>1, <2>1, <2>3 DEF ControlTypeOK, InEnsure
  <2>5. \A b \in Actors : Stage(b)'
    BY <2>1 DEF Stage, InEnsure
  <2>6. files'["caCert"].key = 0
    BY <2>1 DEF Files, Missing, Key
  <2>7. Recoverable'
    BY <2>6 DEF Recoverable, CAMatches, LeafMatches, Parses
  <2>8. Covered'
    BY <1>1, <2>1, <2>6 DEF Covered, StoresTypeOK
  <2>9. QED BY <2>2, <2>4, <2>5, <2>7, <2>8 DEF Credible
<1>6. QED
  BY <1>3, <1>4, <1>5

LEMMA CredibleNext == Credible /\ [Next]_vars => Credible'
<1> SUFFICES ASSUME Credible, [Next]_vars PROVE Credible'
  OBVIOUS
<1>1. CASE UNCHANGED vars
  <2>1. UNCHANGED <<files, profiles, installed, aged, fresh, pc, held, todo, open, sweep, store, ensured,
                    swept, untrusted, harmed>>
    BY <1>1 DEF vars, ensureVars, sweepVars, pastVars
  <2>2. NumbersTypeOK' /\ ControlTypeOK' /\ StoresTypeOK' /\ Covered'
    BY <2>1, StillCovered DEF Credible, NumbersTypeOK, ControlTypeOK, StoresTypeOK, Numbers, Contents, InEnsure
  <2>3. (\A a \in Actors : Stage(a)') /\ Recoverable'
    BY <2>1, SameDisk
  <2>4. QED BY <2>2, <2>3 DEF Credible
<1>2. "service" \in Actors /\ "command" \in Actors
  BY DEF Actors
<1>3. ASSUME NEW a \in Actors, EnsureStep(a) \/ FindStores(a) \/ Start(a) \/ Crash(a)
      PROVE  Credible'
  BY <1>3, LoadStep, CheckStep, TruncateStep, FillStep, FindStep, StartStep, CrashStep DEF EnsureStep
<1>4. CASE ServiceStep
  BY <1>2, <1>3, <1>4, EndsStep, TrustStep, DeleteStep, AddStep DEF ServiceStep
<1>5. CASE CommandStep
  BY <1>2, <1>3, <1>5, EndsStep, TrustStep, DeleteStep, AddStep, UntrustStep DEF CommandStep
<1>6. QED
  BY <1>1, <1>2, <1>3, <1>4, <1>5, EndsStep, OutsideStep DEF Next

LEMMA CredibleHolds == Spec => []Credible
  BY CredibleInit, CredibleNext, PTL DEF Spec

\* The directory, the stores and the processes keep to the values the program gives
\* them; at most one process is in Ensure, and an open file is one that is torn.
THEOREM CredentialsTyped == Spec => []TypeOK
  BY CredibleHolds, CredibleIs, PTL

\* Wherever and however often processes died before, an Ensure that returns without
\* an error leaves a complete set of credentials, unless one died in a window that
\* createCA and createLeaf leave open.
THEOREM EnsureHeals == Spec => []HealsOutsideTheWindow
  BY CredibleHolds, CredibleIs, PTL

\* Every store the service's last sweep covered and could write holds the authority
\* of the served chain, while the directory holds it, but where an untrust took it out,
\* where a -trust stands between its -D and its -A, or died there; whatever steps of
\* commands, crashes and expiries come between the looks, removals and additions.
THEOREM ServedStaysTrusted == Spec => []ServedIsTrusted
  BY CredibleHolds, CredibleIs, PTL
=============================================================================
