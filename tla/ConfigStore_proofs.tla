-------------------------- MODULE ConfigStore_proofs ------------------------
(***************************************************************************)
(* Theorems about config.json, for any events, settings and threads.       *)
(***************************************************************************)
EXTENDS ConfigStore, TLAPS

(* As long as no save replaced a version it was not based on, the file is  *)
(* what the answered requests made of it one after the other: the load of  *)
(* each then saw the outcome of all before.                                *)
LEMMA KeptInit == ConfigInit => ChangesKept
BY DEF ConfigInit, ChangesKept

(* A request's save keeps what was answered, or is marked stale. *)
LEMMA KeptByClerks ==
  ASSUME ChangesKept, NEW c \in Clerks,
         ClerkStep(c) \/ \E f \in Fields : \E v \in Values(f) : ClerkAsks(c, f, v)
  PROVE  ChangesKept'
<1>1. CASE \E f \in Fields : \E v \in Values(f) : ClerkAsks(c, f, v)
  BY <1>1 DEF ClerkAsks, ChangesKept
<1>2. CASE ClerkLoads(c)
  BY <1>2 DEF ClerkLoads, ChangesKept
<1>3. CASE ClerkSaves(c)
  BY <1>3 DEF ClerkSaves, ChangesKept
<1>4. CASE ClerkSaveFails(c)
  BY <1>4 DEF ClerkSaveFails, ChangesKept
<1> QED BY <1>1, <1>2, <1>3, <1>4 DEF ClerkStep

(* The status poll clears only the event it looked at. *)
LEMMA KeptByPoll ==
  ASSUME ChangesKept, PollStep PROVE ChangesKept'
<1>1. CASE PollReads
  BY <1>1 DEF PollReads, ChangesKept
<1>2. CASE PollLoads
  BY <1>2 DEF PollLoads, ChangesKept
<1>3. CASE PollSaves
  <2>1. CASE stale' BY <2>1 DEF ChangesKept
  <2>2. CASE ~stale'
    <3>1. ~stale /\ pollCopy = confFile /\ pollCopy["active"] = pollSaw
      BY <1>3, <2>2 DEF PollSaves
    <3>2. acknowledged = confFile
      BY <3>1 DEF ChangesKept
    <3>3. confFile' = acknowledged'
      BY <1>3, <3>1, <3>2 DEF PollSaves
    <3> QED BY <3>3 DEF ChangesKept
  <2> QED BY <2>1, <2>2
<1>4. CASE PollSaveFails
  BY <1>4 DEF PollSaveFails, ChangesKept
<1> QED BY <1>1, <1>2, <1>3, <1>4 DEF PollStep

(* ChangesKept is inductive. *)
LEMMA KeptByStep == ChangesKept /\ [ConfigNext]_configVars => ChangesKept'
<1> SUFFICES ASSUME ChangesKept, [ConfigNext]_configVars PROVE ChangesKept'
  OBVIOUS
<1>1. CASE UNCHANGED configVars
  BY <1>1 DEF configVars, ChangesKept
<1>2. CASE PollStep
  BY <1>2, KeptByPoll
<1>3. ASSUME NEW c \in Clerks,
             ClerkStep(c) \/ \E f \in Fields : \E v \in Values(f) : ClerkAsks(c, f, v)
      PROVE ChangesKept'
  BY <1>3, KeptByClerks
<1>4. ASSUME NEW e \in PartyEvents, Conclude(e) \/ Extend(e) PROVE ChangesKept'
  BY <1>4 DEF Conclude, Extend, ChangesKept
<1>5. CASE ConfigCut
  BY <1>5 DEF ConfigCut, ChangesKept
<1> QED BY <1>1, <1>2, <1>3, <1>4, <1>5 DEF ConfigNext

(* No acknowledged change of config.json is lost by a failing write or a   *)
(* power cut, and none by another request that did not overlap with it.    *)
THEOREM AcknowledgedIsKept == ConfigSpec => []ChangesKept
BY KeptInit, KeptByStep, PTL DEF ConfigSpec
-----------------------------------------------------------------------------
(* A request saves a value of the field it changes. *)
ConfigFacts ==
  ConfigTypeOK /\ \A c \in Clerks : clerkValue[c] \in Values(clerkField[c])

(* The configuration the engine starts with is one. *)
LEMMA AppConfigIsOne == AppConfig \in Configs
BY DEF AppConfig, Configs, Fields, Values, AnyValue

(* A configuration with one field changed is a configuration. *)
LEMMA ConfigChanged ==
  ASSUME NEW config \in Configs, NEW f \in Fields, NEW v \in Values(f)
  PROVE  [config EXCEPT ![f] = v] \in Configs
<1>1. v \in AnyValue
  BY DEF Values, AnyValue
<1> QED BY <1>1 DEF Configs

(* The active event is a field, and may be none. *)
LEMMA ActiveField ==
  /\ "active" \in Fields /\ NoEvent \in Values("active")
  /\ \A config \in Configs : config["active"] \in PartyEvents \cup {NoEvent}
BY DEF Fields, Values, Configs

(* At first no request is under way. *)
LEMMA ConfigFactsInit == ConfigInit => ConfigFacts
<1> SUFFICES ASSUME ConfigInit PROVE ConfigFacts
  OBVIOUS
<1>1. stale \in BOOLEAN
  BY Zenon DEF ConfigInit
<1>2. clerkValue \in [Clerks -> AnyValue]
  BY DEF ConfigInit, AnyValue
<1>3. ConfigTypeOK
  BY <1>1, <1>2, AppConfigIsOne, ActiveField, ConfigAssumption DEF ConfigInit, ConfigTypeOK
<1> QED BY <1>3, ActiveField DEF ConfigInit, ConfigFacts

(* The other requests are as they were when one ends. *)
LEMMA ClerkRested ==
  ASSUME ConfigFacts, NEW c \in Clerks, ClerkRests(c)
  PROVE  /\ clerkAt' \in [Clerks -> {"idle", "load", "save"}]
         /\ clerkField' \in [Clerks -> Fields] /\ clerkValue' \in [Clerks -> AnyValue]
         /\ clerkCopy' \in [Clerks -> Configs]
         /\ \A d \in Clerks : clerkValue'[d] \in Values(clerkField'[d])
<1>1. NoEvent \in AnyValue
  BY DEF AnyValue
<1> QED BY <1>1, AppConfigIsOne, ActiveField DEF ClerkRests, ConfigFacts, ConfigTypeOK

(* Every step keeps the types and the fields' values. *)
LEMMA ConfigFactsKept == ConfigFacts /\ [ConfigNext]_configVars => ConfigFacts'
<1> SUFFICES ASSUME ConfigFacts, [ConfigNext]_configVars PROVE ConfigFacts'
  OBVIOUS
<1> USE ConfigAssumption DEF ConfigFacts, ConfigTypeOK, clerkVars, pollVars, SaveMishap
<1>1. CASE UNCHANGED configVars
  BY <1>1 DEF configVars
<1>2. ASSUME NEW c \in Clerks, NEW f \in Fields, NEW v \in Values(f), ClerkAsks(c, f, v)
      PROVE  ConfigFacts'
  <2>1. v \in AnyValue
    BY DEF Values, AnyValue
  <2> QED BY <1>2, <2>1 DEF ClerkAsks
<1>3. ASSUME NEW c \in Clerks, ClerkLoads(c)
      PROVE  ConfigFacts'
  BY <1>3 DEF ClerkLoads
<1>4. ASSUME NEW c \in Clerks, ClerkSaves(c)
      PROVE  ConfigFacts'
  <2>1. confFile' \in Configs /\ acknowledged' \in Configs
    BY <1>4, ConfigChanged DEF ClerkSaves
  <2>2. stale' \in BOOLEAN
    BY <1>4 DEF ClerkSaves
  <2> QED BY <1>4, <2>1, <2>2, ClerkRested DEF ClerkSaves
<1>5. ASSUME NEW c \in Clerks, ClerkSaveFails(c)
      PROVE  ConfigFacts'
  BY <1>5, ClerkRested DEF ClerkSaveFails
<1>6. CASE PollReads
  BY <1>6, ActiveField DEF PollReads
<1>7. CASE PollLoads
  BY <1>7 DEF PollLoads
<1>8. CASE PollSaves
  <2>1. confFile' \in Configs /\ acknowledged' \in Configs
    BY <1>8, ConfigChanged, ActiveField DEF PollSaves
  <2>2. stale' \in BOOLEAN
    BY <1>8 DEF PollSaves
  <2> QED BY <1>8, <2>1, <2>2, AppConfigIsOne DEF PollSaves, PollRests
<1>9. CASE PollSaveFails
  BY <1>9, AppConfigIsOne DEF PollSaveFails, PollRests
<1>10. ASSUME NEW e \in PartyEvents, Conclude(e) \/ Extend(e)
       PROVE  ConfigFacts'
  BY <1>10 DEF Conclude, Extend
<1>11. CASE ConfigCut
  <2>1. clerkValue' \in [Clerks -> AnyValue]
    BY <1>11 DEF ConfigCut, AnyValue
  <2> QED BY <1>11, <2>1, AppConfigIsOne, ActiveField DEF ConfigCut, PollRests
<1> QED BY <1>1, <1>2, <1>3, <1>4, <1>5, <1>6, <1>7, <1>8, <1>9, <1>10, <1>11
        DEF ConfigNext, ClerkStep, PollStep

(* config.json always holds a value of its own kind in each field. *)
THEOREM ConfigTypes == ConfigSpec => []ConfigTypeOK
<1>1. ConfigFacts => ConfigTypeOK
  BY DEF ConfigFacts
<1> QED BY <1>1, ConfigFactsInit, ConfigFactsKept, PTL DEF ConfigSpec
=============================================================================
