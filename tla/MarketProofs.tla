---------------------------- MODULE MarketProofs ----------------------------
(***************************************************************************)
(* What holds of prices for any number of assets, refreshes, users and      *)
(* providers, and without the bound on changes being small.                 *)
(***************************************************************************)
EXTENDS Market, SumFacts

Observations == [asset : Assets, at : Int, manual : BOOLEAN, currency : Currencies]
Ends         == {"stored", "protected", "failed"}
Outcomes     == [asset : Assets, outcome : Ends]
Chosen       == UNION {[S -> Settings] : S \in SUBSET Assets}

\* A refresh between two assets, and one that is asking for a quote.
NextJobs  == [at : {"next"}, todo : SUBSET Assets, done : SUBSET Outcomes,
              pending : SUBSET Observations, config : Chosen]
FetchJobs == [at : {"fetch"}, todo : SUBSET Assets, done : SUBSET Outcomes,
              pending : SUBSET Observations, config : Chosen, asset : Assets, tries : Int]

Columns == {"primary", "secondary", "auto", "lock", "threshold"}

Wishes == {NoWish} \cup [kind : {"delete"}, asset : Assets]
                   \cup [kind : {"currency"}, asset : Assets, currency : Currencies]
                   \cup [kind : {"insert", "update"}, asset : Assets, config : Settings,
                         columns : SUBSET Columns]

Shape ==
    /\ now \in Nat
    /\ DOMAIN currency \subseteq Assets /\ currency \in [DOMAIN currency -> Currencies]
    /\ DOMAIN setting \subseteq Assets /\ setting \in [DOMAIN setting -> Settings]
    /\ prices \subseteq Observations
    /\ job \in [Jobs -> {NoJob} \cup NextJobs \cup FetchJobs]
    /\ user \in [Users -> Wishes]
    /\ witness \in [Jobs -> [manual : SUBSET Observations, unlocked : SUBSET Assets]]

\* What a refresh under way knows is still worth something: a lock it read as
\* open was open at some moment of the run, and a manual price it could have
\* known is still there, or its asset is gone.
KnowledgeHolds ==
    \A j \in Jobs : job[j] # NoJob =>
        /\ \A a \in DOMAIN job[j].config : ~job[j].config[a].lock => a \in witness[j].unlocked
        /\ \A m \in witness[j].manual : m.manual /\ (Exists(m.asset) => m \in prices)

\* The account a refresh keeps: what is not left to do has an outcome, and
\* what has been stored waits in the transaction.
AccountIsKept ==
    \A j \in Jobs : job[j] # NoJob =>
        /\ job[j].todo \subseteq DOMAIN job[j].config
        /\ {d.asset : d \in job[j].done} = DOMAIN job[j].config \ job[j].todo
        /\ {o.asset : o \in job[j].pending} = {d.asset : d \in {e \in job[j].done : e.outcome = "stored"}}
        /\ job[j].at = "fetch" => job[j].asset \in job[j].todo

-----------------------------------------------------------------------------
(* Lemmas on the pieces of a refresh. *)

\* An asset's refresh ends in a well-formed state of the job.
LEMMA EndedType ==
    ASSUME Shape, NEW j \in Jobs, job[j] # NoJob, NEW a \in Assets,
           NEW outcome \in Ends, NEW stored \in SUBSET Observations
    PROVE  /\ Ended(j, a, outcome, stored) \in NextJobs
           /\ Ended(j, a, outcome, stored) # NoJob
<1>1. job[j] \in NextJobs \cup FetchJobs
  BY DEF Shape
<1>2. Ended(j, a, outcome, stored) \in NextJobs
  BY <1>1 DEF FetchJobs, NextJobs, Ended, Rest, Outcomes
<1>3. Ended(j, a, outcome, stored) # NoJob
  BY <1>2 DEF NextJobs, NoJob
<1> QED
  BY <1>2, <1>3

\* A refresh that is asking has an asset to ask for.
LEMMA AskingType ==
    ASSUME Shape, NEW j \in Jobs, job[j].at = "fetch"
    PROVE  job[j] \in FetchJobs /\ job[j] # NoJob /\ job[j].asset \in Assets
<1>1. job[j] \in FetchJobs
  BY DEF Shape, NoJob, NextJobs
<1> QED
  BY <1>1 DEF FetchJobs, NoJob

\* A configuration has a number of providers, and is one after an update.
LEMMA ConfigType ==
    ASSUME NEW c \in Settings
    PROVE  /\ Providers(c) \in Int
           /\ \A wish : wish.config \in Settings => Updated(c, wish) \in Settings
<1> QED
  BY DEF Settings, Providers, Updated

\* Asking, and nobody's answering, stores nothing.
LEMMA AsksOnly ==
    ASSUME Shape, NEW j \in Jobs,
           \/ \E a \in Assets : Fetch(j, a) \/ NobodyToAsk(j, a)
           \/ ProviderFails(j)
    PROVE  /\ job[j] # NoJob
           /\ job'[j].pending = job[j].pending /\ job'[j].config = job[j].config
           /\ \A i \in Jobs \ {j} : job'[i] = job[i]
           /\ UNCHANGED <<currency, traded, watched, setting, prices, rates>>
<1> USE DEF assetVars, priceVars
<1>1. CASE \E a \in Assets : Fetch(j, a)
  BY <1>1 DEF Fetch, Shape, NoJob
<1>2. CASE \E a \in Assets : NobodyToAsk(j, a)
  BY <1>2 DEF NobodyToAsk, Ended, Shape, NoJob
<1>3. CASE ProviderFails(j)
  <2>1. job[j] \in FetchJobs
    BY <1>3, AskingType DEF ProviderFails
  <2> QED
    BY <1>3, <2>1 DEF ProviderFails, Ended, Shape, NoJob, FetchJobs
<1> QED
  BY <1>1, <1>2, <1>3

\* A provider's quote is an observation that is not manual.
LEMMA QuoteType ==
    ASSUME Shape, NEW a \in Assets, NEW lag \in Lags
    PROVE  Quote(a, lag) \in Observations /\ Quote(a, lag).asset = a /\ ~Quote(a, lag).manual
<1> QED
  BY MarketAssumption DEF Shape, Quote, Observation, Observations

\* Which assets are automated.
LEMMA AutomatedType == Automated \subseteq DOMAIN setting
<1> QED
  BY DEF Automated

-----------------------------------------------------------------------------
(* The shape of the state. *)

\* A set of times has a first one.
LEMMA FirstOf ==
    ASSUME NEW T, T \subseteq Nat, T # {}
    PROVE  Min(T) \in T
<1> QED
  BY LeastNumber DEF Min

\* The first state has the shape.
LEMMA InitShape == MarketInit => Shape
<1> SUFFICES ASSUME MarketInit PROVE Shape
  OBVIOUS
<1>1. now \in Nat
  BY FirstOf, MarketAssumption DEF MarketInit
<1> QED
  BY <1>1, MarketAssumption DEF MarketInit, Shape, NoJob, NoWish, NoWitness, Wishes

\* Every action keeps the shape of the state.
LEMMA NextShape == Shape /\ AccountIsKept /\ [MarketNext]_marketVars => Shape'
<1> SUFFICES ASSUME Shape, AccountIsKept, [MarketNext]_marketVars PROVE Shape'
  OBVIOUS
<1>1. CASE Tick
  <2>1. now' \in Nat
    BY <1>1, FirstOf, MarketAssumption DEF Tick, Shape
  <2> QED
    BY <1>1, <2>1 DEF Tick, Shape, assetVars, priceVars
<1>2. CASE Starts
  <2>1. PICK j \in Jobs, todo \in SUBSET DOMAIN setting : StartJob(j, todo)
    BY <1>2 DEF Starts, Automated
  <2>2. [a \in todo |-> setting[a]] \in Chosen
    BY DEF Shape, Chosen
  <2>3. job'[j] \in NextJobs
    BY <2>1, <2>2 DEF StartJob, NextJobs, Shape
  <2>4. witness'[j] \in [manual : SUBSET Observations, unlocked : SUBSET Assets]
    BY <2>1 DEF StartJob, Shape, Unlocked
  <2> QED
    BY <2>1, <2>3, <2>4 DEF StartJob, Shape, assetVars, priceVars
<1>3. ASSUME NEW j \in Jobs, NEW a \in Assets, Fetch(j, a) PROVE Shape'
  <2>1. job[j] \in NextJobs /\ job[j] # NoJob
    BY <1>3 DEF Fetch, Shape, NoJob, FetchJobs
  <2>2. a \in DOMAIN job[j].config
    BY <1>3, <2>1 DEF Fetch, AccountIsKept
  <2>3. PICK S \in SUBSET Assets : job[j].config \in [S -> Settings]
    BY <2>1 DEF NextJobs, Chosen
  <2>4. Providers(job[j].config[a]) \in Int
    BY <2>2, <2>3, ConfigType
  <2>5. job'[j] \in FetchJobs
    BY <1>3, <2>1, <2>4 DEF Fetch, NextJobs, FetchJobs, Shape
  <2>6. witness' \in [Jobs -> [manual : SUBSET Observations, unlocked : SUBSET Assets]]
    BY <1>3 DEF Fetch, Shape
  <2> QED
    BY <1>3, <2>5, <2>6 DEF Fetch, Shape, assetVars, priceVars
<1>16. ASSUME NEW j \in Jobs, NEW a \in Assets, NobodyToAsk(j, a) PROVE Shape'
  <2>1. Ended(j, a, "failed", {}) \in NextJobs
    BY <1>16, EndedType DEF NobodyToAsk, NoJob, Ends
  <2> QED
    BY <1>16, <2>1 DEF NobodyToAsk, Shape, assetVars, priceVars
<1>4. ASSUME NEW j \in Jobs, ProviderFails(j) PROVE Shape'
  <2>1. job[j] \in FetchJobs /\ job[j] # NoJob /\ job[j].asset \in Assets
    BY <1>4, AskingType DEF ProviderFails
  <2>2. Ended(j, job[j].asset, "failed", {}) \in NextJobs
    BY <2>1, EndedType DEF Ends
  <2>3. [job[j] EXCEPT !.tries = @ - 1] \in FetchJobs
    BY <2>1 DEF FetchJobs
  <2> QED
    BY <1>4, <2>2, <2>3 DEF ProviderFails, Shape, assetVars, priceVars
<1>5. ASSUME NEW j \in Jobs, NEW lag \in Lags, Answers(j, lag) PROVE Shape'
  <2>1. job[j].asset \in Assets /\ job[j] # NoJob
    BY <1>5, AskingType DEF Answers
  <2>2. /\ Ended(j, job[j].asset, "stored", {Quote(job[j].asset, lag)}) \in NextJobs
        /\ Ended(j, job[j].asset, "protected", {}) \in NextJobs
    BY <1>5, <2>1, QuoteType, EndedType DEF Answers, Ends
  <2> QED
    BY <1>5, <2>2 DEF Answers, Shape, assetVars, priceVars
<1>6. ASSUME NEW j \in Jobs, CommitJob(j) PROVE Shape'
  <2>1. job[j] \in NextJobs
    BY <1>6 DEF CommitJob, Shape, NoJob, FetchJobs
  <2> QED
    BY <1>6, <2>1 DEF CommitJob, Shape, NextJobs, NoWitness, assetVars
<1>7. ASSUME NEW j \in Jobs, FailJob(j) PROVE Shape'
  BY <1>7 DEF FailJob, Shape, NoWitness, assetVars, priceVars
<1>8. ASSUME NEW u \in Users, WriteConfig(u) PROVE Shape'
  <2> DEFINE a == user[u].asset
  <2>1. user[u].kind \in {"insert", "update"}
    BY <1>8 DEF WriteConfig
  <2>2. a \in Assets /\ user[u].config \in Settings
    BY <2>1 DEF Shape, Wishes, NoWish
  <2>3. ASSUME a \in DOMAIN setting PROVE Updated(setting[a], user[u]) \in Settings
    BY <2>2, <2>3, ConfigType DEF Shape
  <2>4. DOMAIN setting' \subseteq Assets /\ setting' \in [DOMAIN setting' -> Settings]
    <3>1. CASE a \in DOMAIN setting /\ setting' = [setting EXCEPT ![a] = Updated(@, user[u])]
      BY <2>3, <3>1 DEF Shape
    <3>2. CASE setting' = [b \in DOMAIN setting \cup {a} |-> IF b = a THEN user[u].config ELSE setting[b]]
      BY <2>2, <3>2 DEF Shape
    <3>3. CASE UNCHANGED setting
      BY <3>3 DEF Shape
    <3> QED
      BY <1>8, <3>1, <3>2, <3>3 DEF WriteConfig
  <2>5. Unlocked(setting') \subseteq Assets
    BY <2>4 DEF Unlocked
  <2>6. witness' \in [Jobs -> [manual : SUBSET Observations, unlocked : SUBSET Assets]]
    BY <1>8, <2>5 DEF WriteConfig, Shape, NoWitness
  <2>7. user' \in [Users -> Wishes]
    BY <1>8 DEF WriteConfig, Done, Wishes, Shape
  <2> QED
    BY <1>8, <2>4, <2>6, <2>7 DEF WriteConfig, Shape, assetVars
<1>17. ASSUME NEW u \in Users, NEW a \in Assets, NEW new \in Configs, ReadConfig(u, a, new) PROVE Shape'
  <2>1. new \in Settings /\ DOMAIN new = Columns
    BY MarketAssumption DEF Settings, Columns
  <2>2. user' \in [Users -> Wishes]
    BY <1>17, <2>1 DEF ReadConfig, Wish, Wishes, Shape
  <2> QED
    BY <1>17, <2>2 DEF ReadConfig, Shape, assetVars, priceVars
<1>9. ASSUME NEW u \in Users, NEW a \in Assets, NEW c \in Currencies, Check(u, a, c) PROVE Shape'
  BY <1>9 DEF Check, Wish, Wishes, Shape, assetVars, priceVars
<1>10. ASSUME NEW a \in Assets, RecordManual(a) PROVE Shape'
  <2>1. Observation(a, now, TRUE, currency[a]) \in Observations
    BY <1>10 DEF RecordManual, Shape, Exists, Observation, Observations
  <2> QED
    BY <1>10, <2>1 DEF RecordManual, Shape, assetVars
<1>11. ASSUME NEW u \in Users, DeleteAsset(u) PROVE Shape'
  BY <1>11 DEF DeleteAsset, Done, Wishes, Shape
<1>12. ASSUME NEW u \in Users, ChangeCurrency(u) PROVE Shape'
  <2>1. user[u].currency \in Currencies
    BY <1>12 DEF ChangeCurrency, Shape, Wishes, NoWish
  <2> QED
    BY <1>12, <2>1 DEF ChangeCurrency, Done, Wishes, Shape, priceVars
<1>13. ASSUME NEW a \in Assets, Use(a) PROVE Shape'
  BY <1>13 DEF Use, Shape, priceVars
<1>14. ASSUME NEW c \in Currencies, RecordRate(c) PROVE Shape'
  BY <1>14 DEF RecordRate, Shape, assetVars
<1>15. CASE UNCHANGED marketVars
  BY <1>15 DEF Shape, marketVars, assetVars, priceVars
<1> QED
  BY <1>1, <1>2, <1>3, <1>4, <1>5, <1>6, <1>7, <1>8, <1>9, <1>10, <1>11, <1>12, <1>13, <1>14, <1>15, <1>16, <1>17
     DEF MarketNext

-----------------------------------------------------------------------------
(* The account of a refresh. *)

\* An asset's refresh that ends with an outcome, and with a price exactly if
\* the outcome is "stored", keeps the account.
LEMMA EndedKeepsAccount ==
    ASSUME Shape, AccountIsKept, NEW j \in Jobs, job[j] # NoJob, NEW a \in job[j].todo,
           NEW outcome \in Ends, NEW stored \in SUBSET Observations,
           outcome = "stored" => {o.asset : o \in stored} = {a},
           outcome # "stored" => stored = {},
           job' = [job EXCEPT ![j] = Ended(j, a, outcome, stored)]
    PROVE  AccountIsKept'
<1> DEFINE new   == Ended(j, a, outcome, stored)
           entry == [asset |-> a, outcome |-> outcome]
<1>1. job[j] # NoJob /\ a \in job[j].todo
  OBVIOUS
<1>2. job'[j] = new /\ \A i \in Jobs \ {j} : job'[i] = job[i]
  BY DEF Shape
<1>3. /\ new.todo = job[j].todo \ {a}
      /\ new.config = job[j].config
      /\ new.done = job[j].done \cup {entry}
      /\ new.pending = job[j].pending \cup stored
      /\ new.at = "next"
  BY DEF Ended, Rest
<1>4. entry.asset = a /\ entry.outcome = outcome
  OBVIOUS
<1> HIDE DEF new, entry
<1>5. {d.asset : d \in new.done} = DOMAIN new.config \ new.todo
  <2>1. {d.asset : d \in new.done} = {d.asset : d \in job[j].done} \cup {a}
    BY <1>3, <1>4
  <2> QED
    BY <2>1, <1>1, <1>3 DEF AccountIsKept
<1>6. {o.asset : o \in new.pending} = {d.asset : d \in {e \in new.done : e.outcome = "stored"}}
  <2> DEFINE Stored(done) == {d.asset : d \in {e \in done : e.outcome = "stored"}}
  <2>1. {o.asset : o \in new.pending} = {o.asset : o \in job[j].pending} \cup {o.asset : o \in stored}
    BY <1>3
  <2>2. CASE outcome = "stored"
    <3>1. Stored(new.done) = Stored(job[j].done) \cup {a}
      BY <2>2, <1>3, <1>4
    <3> QED
      BY <2>1, <2>2, <3>1, <1>1 DEF AccountIsKept
  <2>3. CASE outcome # "stored"
    <3>1. Stored(new.done) = Stored(job[j].done)
      BY <2>3, <1>3, <1>4
    <3> QED
      BY <2>1, <2>3, <3>1, <1>1 DEF AccountIsKept
  <2> QED
    BY <2>2, <2>3
<1>7. new.todo \subseteq DOMAIN new.config
  BY <1>1, <1>3 DEF AccountIsKept
<1> QED
  BY <1>2, <1>3, <1>5, <1>6, <1>7 DEF AccountIsKept

\* Nobody but a refresh itself changes its account, whose steps keep it.
LEMMA NextAccount == Shape /\ AccountIsKept /\ [MarketNext]_marketVars => AccountIsKept'
<1> SUFFICES ASSUME Shape, AccountIsKept, [MarketNext]_marketVars PROVE AccountIsKept'
  OBVIOUS
<1>1. CASE Starts
  <2>1. PICK j \in Jobs, todo \in SUBSET DOMAIN setting : StartJob(j, todo)
    BY <1>1 DEF Starts, Automated
  <2> QED
    BY <2>1 DEF StartJob, Shape, AccountIsKept
<1>2. ASSUME NEW j \in Jobs, NEW a \in Assets, Fetch(j, a) PROVE AccountIsKept'
  <2>1. job[j] # NoJob
    BY <1>2 DEF Fetch, NoJob
  <2> QED
    BY <1>2, <2>1 DEF Fetch, Shape, AccountIsKept
<1>4. ASSUME NEW j \in Jobs, ProviderFails(j) PROVE AccountIsKept'
  <2>1. job[j] \in FetchJobs /\ job[j] # NoJob /\ job[j].asset \in job[j].todo
    BY <1>4, AskingType DEF ProviderFails, AccountIsKept
  <2>2. CASE job[j].tries = 1
    <3>1. /\ "failed" \in Ends /\ {} \in SUBSET Observations
          /\ job' = [job EXCEPT ![j] = Ended(j, job[j].asset, "failed", {})]
      BY <1>4, <2>2 DEF ProviderFails, Ends
    <3> QED
      BY <2>1, <3>1, EndedKeepsAccount
  <2>3. CASE job[j].tries # 1
    BY <1>4, <2>1, <2>3 DEF ProviderFails, Shape, AccountIsKept, FetchJobs
  <2> QED
    BY <2>2, <2>3
<1>3. ASSUME NEW j \in Jobs, NEW a \in Assets, NobodyToAsk(j, a) PROVE AccountIsKept'
  <2>1. /\ job[j] # NoJob /\ a \in job[j].todo /\ "failed" \in Ends /\ {} \in SUBSET Observations
        /\ job' = [job EXCEPT ![j] = Ended(j, a, "failed", {})]
    BY <1>3 DEF NobodyToAsk, NoJob, Ends
  <2> QED
    BY <2>1, EndedKeepsAccount
<1>5. ASSUME NEW j \in Jobs, NEW lag \in Lags, Answers(j, lag) PROVE AccountIsKept'
  <2> DEFINE a == job[j].asset
  <2>1. /\ job[j].at = "fetch" /\ job[j] # NoJob /\ a \in job[j].todo
        /\ \/ job' = [job EXCEPT ![j] = Ended(j, a, "stored", {Quote(a, lag)})]
           \/ job' = [job EXCEPT ![j] = Ended(j, a, "protected", {})]
    BY <1>5, AskingType DEF Answers, AccountIsKept
  <2>2. Quote(a, lag) \in Observations /\ Quote(a, lag).asset = a
    BY <2>1, AskingType, QuoteType
  <2>3. {o.asset : o \in {Quote(a, lag)}} = {a}
    BY <2>2
  <2>4. CASE job' = [job EXCEPT ![j] = Ended(j, a, "stored", {Quote(a, lag)})]
    <3>1. "stored" \in Ends /\ {Quote(a, lag)} \in SUBSET Observations
      BY <2>2 DEF Ends
    <3> QED
      BY <2>1, <2>3, <2>4, <3>1, EndedKeepsAccount
  <2>5. CASE job' = [job EXCEPT ![j] = Ended(j, a, "protected", {})]
    <3>1. "protected" \in Ends /\ {} \in SUBSET Observations
      BY DEF Ends
    <3> QED
      BY <2>1, <2>5, <3>1, EndedKeepsAccount
  <2> QED
    BY <2>1, <2>4, <2>5
<1>6. ASSUME NEW j \in Jobs, job' = [job EXCEPT ![j] = NoJob] PROVE AccountIsKept'
  BY <1>6 DEF Shape, AccountIsKept
<1>7. ASSUME UNCHANGED job PROVE AccountIsKept'
  BY <1>7 DEF AccountIsKept
<1> QED
  BY <1>1, <1>2, <1>3, <1>4, <1>5, <1>6, <1>7
     DEF MarketNext, Tick, CommitJob, FailJob, ReadConfig, WriteConfig, Check, RecordManual, DeleteAsset,
         ChangeCurrency, Use, RecordRate, marketVars

-----------------------------------------------------------------------------
(* What a refresh knows. *)

\* Locks opened meanwhile are noted, and a manual price goes only with its asset.
LEMMA NextKnowledge ==
    Shape /\ KnowledgeHolds /\ [MarketNext]_marketVars => KnowledgeHolds'
<1> SUFFICES ASSUME Shape, KnowledgeHolds, [MarketNext]_marketVars PROVE KnowledgeHolds'
  OBVIOUS
<1>1. CASE Starts
  <2>1. PICK j \in Jobs, todo \in SUBSET DOMAIN setting : StartJob(j, todo)
    BY <1>1 DEF Starts, Automated
  <2>2. /\ job'[j].config = [a \in todo |-> setting[a]]
        /\ witness'[j] = [manual |-> {o \in prices : o.manual}, unlocked |-> Unlocked(setting)]
        /\ \A i \in Jobs \ {j} : job'[i] = job[i] /\ witness'[i] = witness[i]
        /\ UNCHANGED <<currency, prices>>
    BY <2>1 DEF StartJob, Shape, assetVars, priceVars
  <2> QED
    BY <2>2 DEF KnowledgeHolds, Unlocked, Exists
<1>2. ASSUME NEW j \in Jobs,
             \/ \E a \in Assets : Fetch(j, a) \/ NobodyToAsk(j, a)
             \/ ProviderFails(j)
             \/ \E lag \in Lags : Answers(j, lag)
      PROVE  KnowledgeHolds'
  <2>1. /\ job[j] # NoJob
        /\ job'[j].config = job[j].config
        /\ \A i \in Jobs \ {j} : job'[i] = job[i]
        /\ UNCHANGED <<currency, prices>>
    <3>1. CASE \E lag \in Lags : Answers(j, lag)
      BY <3>1 DEF Answers, Ended, Shape, NoJob, assetVars, priceVars
    <3> QED
      BY <1>2, <3>1, AsksOnly
  <2>2. \A i \in Jobs : /\ witness'[i].unlocked = witness[i].unlocked
                        /\ \A m \in witness'[i].manual : m \in witness[i].manual \/ (m \in prices /\ m.manual)
    <3>1. CASE \E a \in Assets : Fetch(j, a)
      BY <3>1 DEF Fetch, Shape
    <3>2. CASE UNCHANGED witness
      BY <3>2
    <3> QED
      BY <1>2, <3>1, <3>2 DEF NobodyToAsk, ProviderFails, Answers
  <2> QED
    BY <2>1, <2>2 DEF KnowledgeHolds, Exists
<1>3. ASSUME NEW j \in Jobs, CommitJob(j) \/ FailJob(j) PROVE KnowledgeHolds'
  <2>1. /\ job'[j] = NoJob
        /\ \A i \in Jobs \ {j} : job'[i] = job[i] /\ witness'[i] = witness[i]
        /\ UNCHANGED currency /\ prices \subseteq prices'
    BY <1>3 DEF CommitJob, FailJob, Shape, assetVars, priceVars
  <2> QED
    BY <2>1 DEF KnowledgeHolds, Exists
<1>4. ASSUME NEW u \in Users, WriteConfig(u) PROVE KnowledgeHolds'
  <2>1. UNCHANGED <<job, currency, prices>>
    BY <1>4 DEF WriteConfig, assetVars
  <2>2. \A j \in Jobs : job[j] # NoJob => /\ witness[j].unlocked \subseteq witness'[j].unlocked
                                          /\ witness'[j].manual = witness[j].manual
    BY <1>4 DEF WriteConfig, Shape
  <2> QED
    BY <2>1, <2>2 DEF KnowledgeHolds, Exists
<1>5. ASSUME NEW u \in Users, DeleteAsset(u) PROVE KnowledgeHolds'
  <2>1. UNCHANGED <<job, witness>>
    BY <1>5 DEF DeleteAsset
  <2>2. \A m \in prices : Exists(m.asset)' => m \in prices'
    BY <1>5 DEF DeleteAsset, Exists
  <2>3. \A a : Exists(a)' => Exists(a)
    BY <1>5 DEF DeleteAsset, Exists
  <2> QED
    BY <2>1, <2>2, <2>3 DEF KnowledgeHolds
<1>6. ASSUME UNCHANGED <<job, witness>>, prices \subseteq prices', DOMAIN currency' = DOMAIN currency
      PROVE  KnowledgeHolds'
  BY <1>6 DEF KnowledgeHolds, Exists
<1>7. ASSUME NEW u \in Users, ChangeCurrency(u) PROVE KnowledgeHolds'
  BY <1>6, <1>7 DEF ChangeCurrency, priceVars
<1> QED
  BY <1>1, <1>2, <1>3, <1>4, <1>5, <1>6, <1>7
     DEF MarketNext, Tick, Check, ReadConfig, RecordManual, Use, RecordRate, marketVars, assetVars, priceVars

-----------------------------------------------------------------------------
(* Manual prices. *)

\* A price is only added to a refresh's transaction by an answer, which looks
\* at the lock it knows and at the manual prices there are.
LEMMA NextManual ==
    /\ Shape /\ AccountIsKept /\ KnowledgeHolds /\ ManualHolds
    /\ [MarketNext]_marketVars
    => ManualHolds'
<1> SUFFICES ASSUME Shape, AccountIsKept, KnowledgeHolds, ManualHolds, [MarketNext]_marketVars
             PROVE  ManualHolds'
  OBVIOUS
<1>1. CASE Starts
  <2>1. PICK j \in Jobs, todo \in SUBSET DOMAIN setting : StartJob(j, todo)
    BY <1>1 DEF Starts, Automated
  <2> QED
    BY <2>1 DEF StartJob, Shape, ManualHolds
<1>2. ASSUME NEW j \in Jobs,
             (\E a \in Assets : Fetch(j, a) \/ NobodyToAsk(j, a)) \/ ProviderFails(j)
      PROVE  ManualHolds'
  <2>1. /\ job[j] # NoJob
        /\ job'[j].pending = job[j].pending
        /\ \A i \in Jobs \ {j} : job'[i] = job[i]
    BY <1>2, AsksOnly
  <2>2. CASE \E a \in Assets : Fetch(j, a)
    <3>1. PICK a \in Assets : Fetch(j, a)
      BY <2>2
    <3>2. \A o \in job[j].pending : o.asset # a
      BY <2>1, <3>1 DEF Fetch, AccountIsKept
    <3>3. /\ \A i \in Jobs : witness'[i].unlocked = witness[i].unlocked
          /\ \A i \in Jobs \ {j} : witness'[i] = witness[i]
          /\ \A m \in witness'[j].manual : m \in witness[j].manual \/ m.asset = a
      BY <3>1 DEF Fetch, Shape
    <3> QED
      BY <2>1, <3>2, <3>3 DEF ManualHolds
  <2>3. CASE UNCHANGED witness
    BY <2>1, <2>3 DEF ManualHolds
  <2> QED
    BY <1>2, <2>2, <2>3 DEF NobodyToAsk, ProviderFails
<1>3. ASSUME NEW j \in Jobs, NEW lag \in Lags, Answers(j, lag) PROVE ManualHolds'
  <2> DEFINE a     == job[j].asset
             quote == Quote(a, lag)
  <2>1. /\ job[j] # NoJob /\ job[j].at = "fetch"
        /\ Exists(a)
        /\ \A i \in Jobs \ {j} : job'[i] = job[i]
        /\ UNCHANGED witness
    BY <1>3 DEF Answers, Shape, NoJob
  <2>2. CASE ~MaySupersede(job[j].config[a].lock, ManualTimes(a, prices), quote.at)
    <3>1. job'[j].pending = job[j].pending
      BY <1>3, <2>2 DEF Answers, Ended, Shape
    <3> QED
      BY <2>1, <3>1 DEF ManualHolds
  <2>3. CASE MaySupersede(job[j].config[a].lock, ManualTimes(a, prices), quote.at)
    <3>1. job'[j].pending = job[j].pending \cup {quote}
      BY <1>3, <2>3 DEF Answers, Ended, Shape
    <3>2. quote.asset = a
      BY <2>1, AskingType, QuoteType
    <3>3. a \in witness[j].unlocked
      BY <2>1, <2>3 DEF MaySupersede, KnowledgeHolds, AccountIsKept
    <3>4. ASSUME NEW m \in witness[j].manual, m.asset = a PROVE quote.at > m.at
      <4>1. m \in prices /\ m.manual
        BY <2>1, <3>4 DEF KnowledgeHolds
      <4>2. m.at \in ManualTimes(a, prices)
        BY <4>1, <3>4 DEF ManualTimes
      <4> QED
        BY <4>2, <2>3 DEF MaySupersede
    <3> HIDE DEF quote
    <3> QED
      BY <2>1, <3>1, <3>2, <3>3, <3>4 DEF ManualHolds
  <2> QED
    BY <2>2, <2>3
<1>4. ASSUME NEW j \in Jobs, CommitJob(j) \/ FailJob(j) PROVE ManualHolds'
  BY <1>4 DEF CommitJob, FailJob, Shape, ManualHolds
<1>5. ASSUME NEW u \in Users, WriteConfig(u) PROVE ManualHolds'
  <2>1. \A j \in Jobs : job[j] # NoJob => /\ witness[j].unlocked \subseteq witness'[j].unlocked
                                          /\ witness'[j].manual = witness[j].manual
    BY <1>5 DEF WriteConfig, Shape
  <2> QED
    BY <1>5, <2>1 DEF WriteConfig, ManualHolds
<1>6. ASSUME UNCHANGED <<job, witness>> PROVE ManualHolds'
  BY <1>6 DEF ManualHolds
<1> QED
  BY <1>1, <1>2, <1>3, <1>4, <1>5, <1>6
     DEF MarketNext, Tick, Check, ReadConfig, RecordManual, DeleteAsset, ChangeCurrency, Use,
         RecordRate, marketVars

-----------------------------------------------------------------------------
(* The theorems. *)

MarketInv == Shape /\ AccountIsKept /\ KnowledgeHolds /\ ManualHolds

\* No refresh is under way at first.
LEMMA InitInv == MarketInit => MarketInv
<1> SUFFICES ASSUME MarketInit PROVE MarketInv
  OBVIOUS
<1>1. \A j \in Jobs : job[j] = NoJob
  BY DEF MarketInit
<1> QED
  BY <1>1, InitShape DEF MarketInv, AccountIsKept, KnowledgeHolds, ManualHolds

\* Each part of the invariant is kept by every action.
LEMMA NextInv == MarketInv /\ [MarketNext]_marketVars => MarketInv'
<1> QED
  BY NextShape, NextAccount, NextKnowledge, NextManual DEF MarketInv

\* The inductive invariant: what a refresh has read stays good enough for what
\* it stores, whatever users do to prices, locks and assets meanwhile.
THEOREM MarketInvariant == MarketSpec => []MarketInv
<1> QED
  BY InitInv, NextInv, PTL DEF MarketSpec

\* manual_precedence.py, for any number of overlapping refreshes: what one is
\* about to commit is newer than every manual price there was when it began, and
\* than those of its asset when its turn came, and is for no asset that was locked all the time.
THEOREM ManualPrecedence == MarketSpec => []ManualHolds
<1>1. MarketInv => ManualHolds
  BY DEF MarketInv
<1> QED
  BY <1>1, MarketInvariant, PTL

\* One asset's failure never stops the batch, and the answer of a refresh says
\* exactly what it stored.
THEOREM RunsCoverAll == MarketSpec => []RunCoversAll
<1>1. MarketInv => RunCoversAll
  BY DEF MarketInv, AccountIsKept, RunCoversAll
<1> QED
  BY <1>1, MarketInvariant, PTL

\* However the check of a deletion and new transactions interleave, the
\* foreign keys keep every asset that has history.
THEOREM HistoryIsSafe == MarketSpec => []HistoryKeepsItsAsset
<1>1. MarketInit => HistoryKeepsItsAsset
  BY DEF MarketInit, HistoryKeepsItsAsset
<1>2. HistoryKeepsItsAsset /\ [MarketNext]_marketVars => HistoryKeepsItsAsset'
  <2> SUFFICES ASSUME HistoryKeepsItsAsset, [MarketNext]_marketVars PROVE HistoryKeepsItsAsset'
    OBVIOUS
  <2>1. ASSUME NEW u \in Users, DeleteAsset(u) PROVE HistoryKeepsItsAsset'
    BY <2>1 DEF DeleteAsset, Restricts, HistoryKeepsItsAsset
  <2>2. ASSUME NEW a \in Assets, Use(a) PROVE HistoryKeepsItsAsset'
    BY <2>2 DEF Use, Exists, HistoryKeepsItsAsset
  <2>3. ASSUME UNCHANGED <<traded, watched>>, DOMAIN currency' = DOMAIN currency
        PROVE  HistoryKeepsItsAsset'
    BY <2>3 DEF HistoryKeepsItsAsset
  <2> QED
    BY <2>1, <2>2, <2>3
       DEF MarketNext, Tick, Starts, StartJob, Fetch, NobodyToAsk, ProviderFails, Answers,
           CommitJob, FailJob, ReadConfig, WriteConfig, Check, RecordManual, ChangeCurrency, RecordRate,
           marketVars, assetVars, priceVars
<1> QED
  BY <1>1, <1>2, PTL DEF MarketSpec

-----------------------------------------------------------------------------
(* Nothing refers to an asset that is gone. *)

\* A configuration, a price, and a price that waits in a transaction belong to
\* an asset there is: deleting one waits for the transactions that refer to it.
NothingDangles ==
    /\ DOMAIN setting \subseteq DOMAIN currency
    /\ \A o \in prices : Exists(o.asset)
    /\ \A j \in Jobs : job[j] # NoJob => \A o \in job[j].pending : Exists(o.asset)

\* What an answer adds to a transaction is a quote for the asset it was asked
\* for, which exists: the insert would fail otherwise.
LEMMA AnswersAddTheirAsset ==
    ASSUME Shape, NEW j \in Jobs, NEW lag \in Lags, Answers(j, lag)
    PROVE  /\ job[j] # NoJob
           /\ \A o \in job'[j].pending : o \in job[j].pending \/ Exists(o.asset)
           /\ \A i \in Jobs \ {j} : job'[i] = job[i]
<1> DEFINE a == job[j].asset
<1>1. job[j].at = "fetch" /\ job[j] # NoJob /\ Exists(a)
  BY DEF Answers, NoJob
<1>4. a \in Assets
  BY <1>1, AskingType
<1>5. Quote(a, lag).asset = a
  BY <1>4, QuoteType
<1>6. \/ job'[j].pending = job[j].pending \cup {Quote(a, lag)}
      \/ job'[j].pending = job[j].pending \cup {}
  BY DEF Answers, Ended, Shape
<1>7. \A i \in Jobs \ {j} : job'[i] = job[i]
  BY DEF Answers, Shape
<1> QED
  BY <1>1, <1>5, <1>6, <1>7

\* No action leaves something that refers to a deleted asset.
LEMMA NextDangles ==
    Shape /\ AccountIsKept /\ NothingDangles /\ [MarketNext]_marketVars => NothingDangles'
<1> SUFFICES ASSUME Shape, AccountIsKept, NothingDangles, [MarketNext]_marketVars
             PROVE  NothingDangles'
  OBVIOUS
<1>1. ASSUME NEW j \in Jobs, NEW todo, StartJob(j, todo) PROVE NothingDangles'
  BY <1>1 DEF StartJob, Shape, NothingDangles, Exists, assetVars, priceVars
<1>2. ASSUME NEW j \in Jobs,
             (\E a \in Assets : Fetch(j, a) \/ NobodyToAsk(j, a)) \/ ProviderFails(j)
      PROVE  NothingDangles'
  BY <1>2, AsksOnly DEF NothingDangles, Exists
<1>3. ASSUME NEW j \in Jobs, NEW lag \in Lags, Answers(j, lag) PROVE NothingDangles'
  <2>1. UNCHANGED <<currency, setting, prices>>
    BY <1>3 DEF Answers, assetVars, priceVars
  <2> QED
    BY <1>3, <2>1, AnswersAddTheirAsset DEF NothingDangles, Exists
<1>4. ASSUME NEW j \in Jobs, CommitJob(j) PROVE NothingDangles'
  <2>1. job[j] # NoJob /\ UNCHANGED <<currency, setting>>
    BY <1>4 DEF CommitJob, NoJob, assetVars
  <2> QED
    BY <1>4, <2>1 DEF CommitJob, Shape, NothingDangles, Exists
<1>5. ASSUME NEW j \in Jobs, FailJob(j) PROVE NothingDangles'
  BY <1>5 DEF FailJob, Shape, NothingDangles, Exists, assetVars, priceVars
<1>6. ASSUME NEW u \in Users, WriteConfig(u) PROVE NothingDangles'
  <2>1. UNCHANGED <<currency, prices, job>> /\ DOMAIN setting' \subseteq DOMAIN currency
    BY <1>6 DEF WriteConfig, NothingDangles, Exists, assetVars
  <2> QED
    BY <2>1 DEF NothingDangles, Exists
<1>7. ASSUME NEW a \in Assets, RecordManual(a) PROVE NothingDangles'
  <2>1. Observation(a, now, TRUE, currency[a]).asset = a
    BY DEF Observation
  <2> QED
    BY <1>7, <2>1 DEF RecordManual, NothingDangles, Exists, assetVars
<1>8. ASSUME NEW u \in Users, DeleteAsset(u) PROVE NothingDangles'
  <2> DEFINE a == user[u].asset
  <2>1. UNCHANGED job /\ ~Referred(a)
    BY <1>8 DEF DeleteAsset
  <2>2. CASE UNCHANGED <<currency, prices, setting>>
    BY <2>1, <2>2 DEF NothingDangles, Exists
  <2>3. CASE /\ currency' = [b \in DOMAIN currency \ {a} |-> currency[b]]
             /\ setting' = [b \in DOMAIN setting \ {a} |-> setting[b]]
             /\ prices' = {o \in prices : o.asset # a}
    BY <2>1, <2>3 DEF NothingDangles, Exists, Referred
  <2> QED
    BY <1>8, <2>2, <2>3 DEF DeleteAsset
<1>9. ASSUME UNCHANGED <<setting, prices, job>>, DOMAIN currency' = DOMAIN currency
      PROVE  NothingDangles'
  BY <1>9 DEF NothingDangles, Exists
<1>10. ASSUME NEW u \in Users, ChangeCurrency(u) PROVE NothingDangles'
  BY <1>9, <1>10 DEF ChangeCurrency, priceVars
<1> QED
  BY <1>1, <1>2, <1>3, <1>4, <1>5, <1>6, <1>7, <1>8, <1>9, <1>10
     DEF MarketNext, Starts, Tick, Check, ReadConfig, Use, RecordRate, marketVars, assetVars, priceVars

\* Time is one of the moments explored, and changes are counted up to the bound.
Counted == now \in Moments /\ changes \in 0 .. MaxChanges

\* The clock goes from moment to moment, and a change is made within the bound.
LEMMA NextCounted == Counted /\ [MarketNext]_marketVars => Counted'
<1> SUFFICES ASSUME Counted, [MarketNext]_marketVars PROVE Counted'
  OBVIOUS
<1>1. CASE Tick
  <2>1. now' \in Moments
    <3> DEFINE T == {t \in Moments : t > now}
    <3>1. T \subseteq Nat /\ T # {}
      BY <1>1, MarketAssumption DEF Tick
    <3> QED
      BY <1>1, <3>1, FirstOf DEF Tick
  <2> QED
    BY <1>1, <2>1 DEF Tick, Counted
<1>2. ASSUME NEW n \in {1, 2}, Change(n), UNCHANGED now PROVE Counted'
  BY <1>2, MarketAssumption DEF Change, Counted
<1>3. ASSUME UNCHANGED <<now, changes>> PROVE Counted'
  BY <1>3 DEF Counted
<1> QED
  BY <1>1, <1>2, <1>3
     DEF MarketNext, Starts, StartJob, Fetch, NobodyToAsk, ProviderFails, Answers,
         CommitJob, FailJob, ReadConfig, WriteConfig, Check, RecordManual, DeleteAsset, ChangeCurrency, Use, RecordRate, marketVars

\* Prices, configurations and refreshes under way belong to assets there are,
\* whatever is deleted meanwhile.
THEOREM MarketTypeCorrect == MarketSpec => []MarketTypeOK
<1> DEFINE Whole == MarketInv /\ NothingDangles /\ Counted
<1>1. MarketInit => Whole
  <2> SUFFICES ASSUME MarketInit PROVE Whole
    OBVIOUS
  <2>1. NothingDangles
    BY MarketAssumption DEF MarketInit, NothingDangles, Exists
  <2>2. Counted
    BY FirstOf, MarketAssumption DEF MarketInit, Counted
  <2> QED
    BY <2>1, <2>2, InitInv
<1>2. Whole /\ [MarketNext]_marketVars => Whole'
  BY NextInv, NextDangles, NextCounted DEF MarketInv
<1>3. Whole => MarketTypeOK
  <2> SUFFICES ASSUME Whole PROVE MarketTypeOK
    OBVIOUS
  <2>1. Shape
    BY DEF MarketInv
  <2>2. \A j \in Jobs : job[j].at \in {"idle", "next", "fetch"}
    BY <2>1 DEF Shape, NoJob, NextJobs, FetchJobs
  <2>3. \A u \in Users : user[u].kind \in {"idle", "delete", "currency", "insert", "update"}
    BY <2>1 DEF Shape, Wishes, NoWish
  <2>4. \A o \in prices : o.at \in Int /\ o.currency \in Currencies
    BY <2>1 DEF Shape, Observations
  <2>5. \A a \in DOMAIN currency : currency[a] \in Currencies
    BY <2>1 DEF Shape
  <2> QED
    BY <2>2, <2>3, <2>4, <2>5 DEF NothingDangles, Counted, MarketTypeOK
<1> QED
  BY <1>1, <1>2, <1>3, PTL DEF MarketSpec

-----------------------------------------------------------------------------
(* Weekends: the walk from midnight to midnight counts, in whole runs of    *)
(* ticks, what WorkingTicks counts one by one.                              *)

WeekendTicks(start, end) == {t \in start .. end - 1 : IsWeekend(t)}

\* Two times are on the same day until midnight has passed.
LEMMA SameDay ==
    ASSUME NEW t \in Int, NEW u \in Int, t <= u, u < (t \div DayTicks + 1) * DayTicks
    PROVE  u \div DayTicks = t \div DayTicks
<1> QED
  BY StaleAssumption

\* The end of the day is ahead, and the same kind of day until then.
LEMMA DayEndAhead ==
    ASSUME NEW t \in Int, NEW end \in Int, t < end
    PROVE  /\ DayEnd(t, end) \in Int /\ t < DayEnd(t, end) /\ DayEnd(t, end) <= end
           /\ \A u \in t .. DayEnd(t, end) - 1 : IsWeekend(u) = IsWeekend(t)
<1> DEFINE midnight == (t \div DayTicks + 1) * DayTicks
<1>1. midnight \in Int /\ t < midnight
  BY StaleAssumption
<1>2. DayEnd(t, end) = IF midnight < end THEN midnight ELSE end
  BY DEF DayEnd
<1>3. ASSUME NEW u \in t .. DayEnd(t, end) - 1 PROVE IsWeekend(u) = IsWeekend(t)
  <2>1. u \in Int /\ t <= u /\ u < midnight
    BY <1>1, <1>2
  <2>2. u \div DayTicks = t \div DayTicks
    BY <2>1, SameDay
  <2> QED
    BY <2>2 DEF IsWeekend
<1> HIDE DEF midnight
<1> QED
  BY <1>1, <1>2, <1>3

\* An interval of time has finitely many ticks of a kind.
LEMMA TicksFinite ==
    ASSUME NEW start \in Int, NEW end \in Int
    PROVE  /\ IsFiniteSet(WeekendTicks(start, end))
           /\ Cardinality(WeekendTicks(start, end)) \in Nat
<1>1. IsFiniteSet(start .. end - 1)
  BY FS_Interval
<1>2. WeekendTicks(start, end) \subseteq start .. end - 1
  BY DEF WeekendTicks
<1> QED
  BY <1>1, <1>2, FS_Subset, FS_CardinalityType

\* The weekend ticks from t on are those of t's day and those of the rest.
LEMMA WeekendSplits ==
    ASSUME NEW t \in Int, NEW end \in Int, t < end
    PROVE  Cardinality(WeekendTicks(t, end)) =
              (IF IsWeekend(t) THEN DayEnd(t, end) - t ELSE 0)
                 + Cardinality(WeekendTicks(DayEnd(t, end), end))
<1> DEFINE next  == DayEnd(t, end)
           today == {u \in t .. next - 1 : IsWeekend(u)}
           later == WeekendTicks(next, end)
<1>1. /\ next \in Int /\ t < next /\ next <= end
      /\ \A u \in t .. next - 1 : IsWeekend(u) = IsWeekend(t)
  BY DayEndAhead
<1> HIDE DEF next
<1>2. WeekendTicks(t, end) = today \cup later /\ today \cap later = {}
  BY <1>1 DEF WeekendTicks
<1>3. IsFiniteSet(later) /\ Cardinality(later) \in Nat
  BY <1>1, TicksFinite
<1>4. IsFiniteSet(today) /\ Cardinality(today) = IF IsWeekend(t) THEN next - t ELSE 0
  <2>1. CASE IsWeekend(t)
    <3> DEFINE day == t .. next - 1
    <3>1. today = day
      BY <1>1, <2>1
    <3>2. IsFiniteSet(day) /\ Cardinality(day) = (next - 1) - t + 1
      BY <1>1, FS_Interval
    <3>3. (next - 1) - t + 1 = next - t
      BY <1>1
    <3> HIDE DEF day, today
    <3> QED
      BY <2>1, <3>1, <3>2, <3>3
  <2>2. CASE ~IsWeekend(t)
    <3>1. today = {}
      BY <1>1, <2>2
    <3> QED
      BY <2>2, <3>1, FS_EmptySet
  <2> QED
    BY <2>1, <2>2
<1>5. Cardinality(today \cup later) = Cardinality(today) + Cardinality(later) - Cardinality({})
  BY <1>2, <1>3, <1>4, FS_Union
<1>6. Cardinality({}) = 0
  BY FS_EmptySet
<1> HIDE DEF today, later
<1>7. (IF IsWeekend(t) THEN next - t ELSE 0) \in Int
  BY <1>1
<1>8. Cardinality(WeekendTicks(t, end)) = Cardinality(today) + Cardinality(later)
  BY <1>2, <1>3, <1>4, <1>5, <1>6, <1>7
<1> QED
  BY <1>4, <1>8 DEF next, later

\* What _weekend_seconds_between returns.  The walk is a recursive function: the
\* count of weekend ticks satisfies its equation, and nothing else does, since a
\* last tick at which something else differed would be followed by another.
LEMMA WeekendCounted ==
    ASSUME NEW start \in Int, NEW end \in Int
    PROVE  WeekendBetween(start, end) = Cardinality(WeekendTicks(start, end))
<1> DEFINE Step(g, t) == IF t = end THEN 0
                         ELSE (IF IsWeekend(t) THEN DayEnd(t, end) - t ELSE 0) + g[DayEnd(t, end)]
           Eq(g) == g = [t \in start .. end |-> Step(g, t)]
           w     == [t \in start .. end |-> Cardinality(WeekendTicks(t, end))]
           walk  == CHOOSE g : Eq(g)
<1>1. CASE end <= start
  <2>1. WeekendTicks(start, end) = {}
    BY <1>1 DEF WeekendTicks
  <2> QED
    BY <1>1, <2>1, FS_EmptySet DEF WeekendBetween
<1>2. CASE start < end
  <2>1. WeekendBetween(start, end) = walk[start]
    BY <1>2 DEF WeekendBetween
  <2>2. \A t \in start .. end : t # end => DayEnd(t, end) \in start .. end /\ t < DayEnd(t, end)
    BY DayEndAhead
  <2>3. ASSUME NEW t \in start .. end PROVE w[t] = Step(w, t)
    <3>1. CASE t = end
      <4>1. WeekendTicks(t, end) = {}
        BY <3>1 DEF WeekendTicks
      <4> QED
        BY <3>1, <4>1, FS_EmptySet
    <3>2. CASE t # end
      <4>1. t \in Int /\ t < end
        BY <3>2
      <4>2. w[DayEnd(t, end)] = Cardinality(WeekendTicks(DayEnd(t, end), end))
        BY <2>2, <3>2
      <4> QED
        BY <3>2, <4>1, <4>2, WeekendSplits
    <3> QED
      BY <3>1, <3>2
  <2>4. Eq(w)
    <3>1. [t \in start .. end |-> w[t]] = [t \in start .. end |-> Step(w, t)]
      BY <2>3
    <3>2. w = [t \in start .. end |-> w[t]]
      OBVIOUS
    <3> HIDE DEF w, Step
    <3> QED
      BY <3>1, <3>2
  <2>5. Eq(walk)
    <3> HIDE DEF w, Eq
    <3> QED
      BY <2>4
  <2> HIDE DEF walk, w
  <2>6. \A t \in start .. end : walk[t] = Step(walk, t)
    BY <2>5
  <2>7. ASSUME NEW n \in Nat, start <= end - n, walk[end - n] # w[end - n],
               \A m \in Nat : m < n => walk[end - m] = w[end - m]
        PROVE  FALSE
    <3> DEFINE t == end - n
    <3>1. t \in start .. end
      BY <2>7
    <3>2. t # end
      BY <2>3, <2>6, <2>7, <3>1
    <3>3. DayEnd(t, end) \in start .. end /\ t < DayEnd(t, end)
      BY <2>2, <3>1, <3>2
    <3>4. walk[DayEnd(t, end)] = w[DayEnd(t, end)]
      <4>1. end - DayEnd(t, end) \in Nat /\ end - DayEnd(t, end) < n
        BY <3>3
      <4>2. end - (end - DayEnd(t, end)) = DayEnd(t, end)
        BY <3>3
      <4> HIDE DEF t
      <4> QED
        BY <2>7, <4>1, <4>2
    <3>5. Step(walk, t) = Step(w, t)
      BY <3>4
    <3> HIDE DEF Step
    <3> QED
      BY <2>3, <2>6, <2>7, <3>1, <3>5
  <2> DEFINE wrong == {n \in Nat : start <= end - n /\ walk[end - n] # w[end - n]}
  <2>8. wrong = {}
    <3> SUFFICES ASSUME wrong # {} PROVE FALSE
      OBVIOUS
    <3>1. wrong \subseteq Nat
      OBVIOUS
    <3>2. PICK n \in wrong : \A m \in wrong : n <= m
      <4> HIDE DEF wrong
      <4> QED
        BY <3>1, LeastNumber
    <3>3. n \in Nat /\ start <= end - n /\ walk[end - n] # w[end - n]
      OBVIOUS
    <3>4. \A m \in Nat : m < n => start <= end - m /\ m \notin wrong
      BY <3>2, <3>3
    <3>5. \A m \in Nat : m < n => walk[end - m] = w[end - m]
      BY <3>4
    <3> QED
      BY <2>7, <3>3, <3>5
  <2>9. walk[start] = w[start]
    <3>1. end - start \in Nat /\ end - (end - start) = start /\ start <= start
      BY <1>2
    <3>2. end - start \notin wrong
      BY <2>8
    <3> QED
      BY <3>1, <3>2
  <2>10. w[start] = Cardinality(WeekendTicks(start, end))
    BY <1>2 DEF w
  <2> QED
    BY <2>1, <2>9, <2>10
<1> QED
  BY <1>1, <1>2

\* The age of a price is the working time since it was recorded, and none if
\* it is dated ahead of the clock.
LEMMA AgeIsWorkingTime ==
    ASSUME NEW start \in Int, NEW end \in Int
    PROVE  /\ AdjustedAge(start, end) = WorkingTicks(start, end)
           /\ WorkingTicks(start, end) \in Nat
<1> DEFINE working == {t \in start .. end - 1 : ~IsWeekend(t)}
           weekend == WeekendTicks(start, end)
           all     == start .. end - 1
<1>1. IsFiniteSet(all) /\ Cardinality(all) = IF start > end - 1 THEN 0 ELSE (end - 1) - start + 1
  BY FS_Interval
<1>2. /\ working \cup weekend = all /\ working \cap weekend = {}
      /\ working \subseteq all /\ weekend \subseteq all
  BY DEF WeekendTicks
<1> HIDE DEF working, weekend, all
<1>3. /\ IsFiniteSet(working) /\ Cardinality(working) \in Nat
      /\ IsFiniteSet(weekend) /\ Cardinality(weekend) \in Nat
  BY <1>1, <1>2, FS_Subset, FS_CardinalityType
<1>4. Cardinality(all) = Cardinality(working) + Cardinality(weekend)
  <2>1. Cardinality(working \cup weekend) =
           Cardinality(working) + Cardinality(weekend) - Cardinality(working \cap weekend)
    BY <1>3, FS_Union
  <2>2. Cardinality(working \cap weekend) = 0
    BY <1>2, FS_EmptySet
  <2>3. Cardinality(working \cup weekend) = Cardinality(all)
    BY <1>2, Zenon
  <2> QED
    BY <1>3, <2>1, <2>2, <2>3
<1>5. WeekendBetween(start, end) = Cardinality(weekend)
  BY WeekendCounted DEF weekend
<1>6. WorkingTicks(start, end) = Cardinality(working)
  BY DEF WorkingTicks, working
<1> QED
  BY <1>1, <1>3, <1>4, <1>5, <1>6 DEF AdjustedAge, AtLeastZero

\* Less working time has passed since a later time, and until an earlier one.
LEMMA WorkingTimeGrows ==
    ASSUME NEW a \in Int, NEW b \in Int, NEW c \in Int, NEW d \in Int, a <= b, c <= d
    PROVE  WorkingTicks(b, c) <= WorkingTicks(a, d)
<1> DEFINE outer == {t \in a .. d - 1 : ~IsWeekend(t)}
           inner == {t \in b .. c - 1 : ~IsWeekend(t)}
<1>1. inner \subseteq outer
  OBVIOUS
<1>2. IsFiniteSet(outer)
  <2>1. IsFiniteSet(a .. d - 1)
    BY FS_Interval
  <2> QED
    BY <2>1, FS_Subset
<1> HIDE DEF inner, outer
<1> QED
  BY <1>1, <1>2, FS_Subset DEF WorkingTicks, inner, outer

-----------------------------------------------------------------------------
(* What is shown as live. *)

Rates == [currency : Currencies, at : Nat]

\* No rate is dated ahead of the clock.
Rated == rates \subseteq Rates /\ \A r \in rates : r.at <= now

\* What LiveMeansFresh asks of a price that is shown as live.
Fresh(a, o) ==
    /\ WorkingTicks(o.at, now) <= SettingOf(a).threshold
    /\ o.currency # Base =>
          \E r \in rates : r.currency = currency[a] /\ WorkingTicks(r.at, now) <= FxThreshold

\* The clock goes forward.
LEMMA TickForward == ASSUME Shape, Tick PROVE now' \in Nat /\ now < now'
<1> DEFINE T == {t \in Moments : t > now}
<1>1. T \subseteq Nat /\ T # {}
  BY MarketAssumption DEF Tick
<1>2. now' \in T
  BY <1>1, FirstOf DEF Tick
<1> QED
  BY <1>1, <1>2

\* Rates are recorded with the time of the clock, which goes forward.
LEMMA NextRated == Shape /\ Rated /\ [MarketNext]_marketVars => Rated'
<1> SUFFICES ASSUME Shape, Rated, [MarketNext]_marketVars PROVE Rated'
  OBVIOUS
<1>1. CASE Tick
  <2>1. now' \in Nat /\ now < now' /\ now \in Nat
    BY <1>1, TickForward DEF Shape
  <2>2. UNCHANGED rates
    BY <1>1 DEF Tick, priceVars
  <2> QED
    BY <2>1, <2>2 DEF Rated, Rates
<1>2. ASSUME NEW c \in Currencies, RecordRate(c) PROVE Rated'
  BY <1>2 DEF RecordRate, Rated, Rates, Shape
<1>3. ASSUME UNCHANGED <<now, rates>> PROVE Rated'
  BY <1>3 DEF Rated
<1> QED
  BY <1>1, <1>2, <1>3
     DEF MarketNext, Starts, StartJob, Fetch, NobodyToAsk, ProviderFails, Answers,
         CommitJob, FailJob, ReadConfig, WriteConfig, Check, RecordManual, DeleteAsset, ChangeCurrency, Use, marketVars, priceVars

\* The latest rate of a currency is the youngest there is.
LEMMA LatestIsYoungest ==
    ASSUME Shape, Rated, NEW c
    PROVE  \/ LatestRate(c) = -1 /\ ~\E r \in rates : r.currency = c
           \/ /\ \E r \in rates : r.currency = c /\ r.at = LatestRate(c)
              /\ \A r \in rates : r.currency = c => r.at <= LatestRate(c)
<1> DEFINE T == {r.at : r \in {x \in rates : x.currency = c}}
           D == {n \in Nat : now - n \in T}
<1>1. LatestRate(c) = IF T = {} THEN -1 ELSE Max(T)
  BY DEF LatestRate
<1>2. CASE T = {}
  BY <1>1, <1>2
<1>3. CASE T # {}
  <2>1. now \in Nat /\ T \subseteq Nat /\ \A t \in T : t <= now
    BY DEF Shape, Rated, Rates
  <2> HIDE DEF T
  <2>2. D \subseteq Nat /\ \A t \in T : now - t \in D
    BY <2>1
  <2>3. D # {}
    BY <1>3, <2>2
  <2> HIDE DEF D
  <2>4. PICK n \in D : \A m \in D : n <= m
    BY <2>2, <2>3, LeastNumber
  <2>5. n \in Nat /\ now - n \in T
    BY <2>2, <2>4 DEF D
  <2>6. \A t \in T : now - n >= t
    BY <2>1, <2>2, <2>4, <2>5
  <2>7. Max(T) \in T /\ \A t \in T : Max(T) >= t
    BY <2>5, <2>6 DEF Max
  <2>8. LatestRate(c) \in T /\ \A t \in T : t <= LatestRate(c)
    BY <1>1, <1>3, <2>1, <2>7
  <2> QED
    BY <2>8 DEF T
<1> QED
  BY <1>2, <1>3

\* A price is shown as live exactly if it and its rate are fresh.
LEMMA LiveExactly ==
    Shape /\ Rated =>
        \A a \in DOMAIN currency : \A o \in prices : StatusOf(a, o) = "CURRENT" <=> Fresh(a, o)
<1> SUFFICES ASSUME Shape, Rated, NEW a \in DOMAIN currency, NEW o \in prices
             PROVE  StatusOf(a, o) = "CURRENT" <=> Fresh(a, o)
  OBVIOUS
<1> DEFINE c == currency[a]
           threshold == SettingOf(a).threshold
<1>1. now \in Int /\ o.at \in Int
  BY DEF Shape, Observations
<1>2. threshold \in Nat /\ FxThreshold \in Nat
  BY MarketAssumption DEF SettingOf, NoConfig, DefaultThreshold, Shape, Settings
<1>3. NativeStale(a, o) <=> ~(WorkingTicks(o.at, now) <= threshold)
  <2>1. NativeStale(a, o) <=> WorkingTicks(o.at, now) > threshold
    BY <1>1, AgeIsWorkingTime DEF NativeStale, IsStale
  <2>2. WorkingTicks(o.at, now) \in Nat
    BY <1>1, AgeIsWorkingTime
  <2> QED
    BY <1>2, <2>1, <2>2
<1>4. (LatestRate(c) # -1 /\ ~FxIsStale(c))
         <=> \E r \in rates : r.currency = c /\ WorkingTicks(r.at, now) <= FxThreshold
  <2>1. CASE LatestRate(c) = -1 /\ ~\E r \in rates : r.currency = c
    BY <2>1
  <2>2. CASE /\ \E r \in rates : r.currency = c /\ r.at = LatestRate(c)
             /\ \A r \in rates : r.currency = c => r.at <= LatestRate(c)
    <3>1. LatestRate(c) \in Nat /\ \A r \in rates : r.at \in Nat
      BY <2>2 DEF Rated, Rates
    <3>2. /\ FxIsStale(c) <=> WorkingTicks(LatestRate(c), now) > FxThreshold
          /\ WorkingTicks(LatestRate(c), now) \in Nat
      <4>1. LatestRate(c) \in Int
        BY <3>1
      <4>2. /\ AdjustedAge(LatestRate(c), now) = WorkingTicks(LatestRate(c), now)
            /\ WorkingTicks(LatestRate(c), now) \in Nat
        BY <1>1, <4>1, AgeIsWorkingTime
      <4> QED
        BY <4>2 DEF FxIsStale, IsStale
    <3>3. ASSUME NEW r \in rates, r.currency = c, WorkingTicks(r.at, now) <= FxThreshold
          PROVE  WorkingTicks(LatestRate(c), now) <= FxThreshold
      <4>1. r.at \in Int /\ LatestRate(c) \in Int /\ r.at <= LatestRate(c)
        BY <2>2, <3>1, <3>3
      <4>2. WorkingTicks(LatestRate(c), now) <= WorkingTicks(r.at, now)
        BY <1>1, <4>1, WorkingTimeGrows
      <4>3. WorkingTicks(r.at, now) \in Nat
        BY <1>1, <4>1, AgeIsWorkingTime
      <4> QED
        BY <1>2, <3>2, <3>3, <4>2, <4>3
    <3> QED
      BY <1>2, <2>2, <3>1, <3>2, <3>3
  <2> QED
    BY <2>1, <2>2, LatestIsYoungest
<1>5. StatusOf(a, o) = "CURRENT"
         <=> /\ ~NativeStale(a, o)
             /\ o.currency # Base => LatestRate(c) # -1 /\ ~FxIsStale(c)
  BY DEF StatusOf
<1> QED
  BY <1>3, <1>4, <1>5 DEF Fresh

\* The shape and the dates of the rates, together.
LEMMA ShapeAndRates == MarketSpec => [](Shape /\ Rated)
<1>1. MarketInit => Rated
  BY DEF MarketInit, Rated
<1>2. MarketInv => Shape
  BY DEF MarketInv
<1>3. Shape /\ Rated /\ [MarketNext]_marketVars => Rated'
  BY NextRated
<1> QED
  BY <1>1, <1>2, <1>3, MarketInvariant, PTL DEF MarketSpec

\* stale_policy.py with any number of ticks to a day, for prices and rates
\* recorded and read on any days: what is live is what is fresh.
THEOREM LiveIsFresh == MarketSpec => []LiveMeansFresh
<1>1. Shape /\ Rated => LiveMeansFresh
  <2> SUFFICES ASSUME Shape, Rated PROVE LiveMeansFresh
    OBVIOUS
  <2>1. \A a \in DOMAIN currency : \A o \in LatestOf(a) : StatusOf(a, o) = "CURRENT" <=> Fresh(a, o)
    BY LiveExactly DEF LatestOf
  <2> QED
    BY <2>1 DEF LiveMeansFresh, Fresh
<1> QED
  BY <1>1, ShapeAndRates, PTL

Exact == \A a \in DOMAIN currency : \A o \in prices : StatusOf(a, o) = "CURRENT" <=> Fresh(a, o)

\* What StaleStaysStale says of a step.
Ages ==
    UNCHANGED <<currency, priceVars>> =>
        \A a \in DOMAIN currency : \A o \in LatestOf(a) :
            StatusOf(a, o) # "CURRENT" => StatusOf(a, o)' # "CURRENT"

\* Working time only grows, so that what is too old stays too old.
LEMMA AgesStep == Shape /\ Rated /\ Exact /\ Shape' /\ Exact' /\ [MarketNext]_marketVars => Ages
<1> SUFFICES ASSUME Shape, Rated, Exact, Shape', Exact', [MarketNext]_marketVars,
                    UNCHANGED <<currency, priceVars>>,
                    NEW a \in DOMAIN currency, NEW o \in LatestOf(a),
                    StatusOf(a, o)' = "CURRENT"
             PROVE  StatusOf(a, o) = "CURRENT"
  BY DEF Ages
<1>1. o \in prices /\ UNCHANGED <<currency, setting, prices, rates>>
  BY DEF priceVars, LatestOf
<1>2. now \in Nat /\ now' \in Nat /\ now <= now'
  <2>1. now \in Nat /\ now' \in Nat
    BY DEF Shape
  <2>2. CASE Tick
    BY <2>1, <2>2, TickForward
  <2>3. CASE UNCHANGED now
    BY <2>1, <2>3
  <2> QED
    BY <2>2, <2>3
       DEF MarketNext, Starts, StartJob, Fetch, NobodyToAsk, ProviderFails, Answers,
           CommitJob, FailJob, ReadConfig, WriteConfig, Check, RecordManual, DeleteAsset, ChangeCurrency, Use, RecordRate, marketVars
<1>3. Fresh(a, o)'
  BY <1>1 DEF Exact
<1>4. SettingOf(a).threshold \in Nat /\ FxThreshold \in Nat
  BY MarketAssumption DEF SettingOf, NoConfig, DefaultThreshold, Shape, Settings
<1>5. ASSUME NEW t \in Int, NEW limit \in Nat, WorkingTicks(t, now') <= limit
      PROVE  WorkingTicks(t, now) <= limit
  <2>1. WorkingTicks(t, now) <= WorkingTicks(t, now')
    BY <1>2, WorkingTimeGrows
  <2>2. now \in Int /\ now' \in Int
    BY <1>2
  <2>3. WorkingTicks(t, now) \in Nat
    BY <2>2, AgeIsWorkingTime
  <2>4. WorkingTicks(t, now') \in Nat
    BY <2>2, AgeIsWorkingTime
  <2> QED
    BY <1>5, <2>1, <2>3, <2>4
<1>6. WorkingTicks(o.at, now) <= SettingOf(a).threshold
  <2>1. WorkingTicks(o.at, now') <= SettingOf(a).threshold
    BY <1>1, <1>3 DEF Fresh, SettingOf
  <2>2. o.at \in Int
    BY <1>1 DEF Shape, Observations
  <2> QED
    BY <1>4, <1>5, <2>1, <2>2
<1>7. ASSUME o.currency # Base
      PROVE  \E r \in rates : r.currency = currency[a] /\ WorkingTicks(r.at, now) <= FxThreshold
  <2>1. PICK r \in rates : r.currency = currency[a] /\ WorkingTicks(r.at, now') <= FxThreshold
    BY <1>1, <1>3, <1>7 DEF Fresh
  <2>2. r.at \in Int
    BY DEF Rated, Rates
  <2> QED
    BY <1>4, <1>5, <2>1, <2>2
<1>8. Fresh(a, o)
  BY <1>6, <1>7 DEF Fresh
<1> QED
  BY <1>1, <1>8 DEF Exact

\* What is known of every state of the market that is shown.
LEMMA ExactAlways == MarketSpec => [](Shape /\ Rated /\ Exact)
<1>1. Shape /\ Rated => Exact
  BY LiveExactly DEF Exact
<1> QED
  BY <1>1, ShapeAndRates, PTL

\* Taking weekends out of the age of a price never makes it live again.
THEOREM StaleIsForGood == MarketSpec => StaleStaysStale
<1>1. MarketSpec => [][Ages]_marketVars
  BY ExactAlways, AgesStep, PTL DEF MarketSpec
<1>2. StaleStaysStale <=> [][Ages]_marketVars
  BY DEF StaleStaysStale, Ages
<1> QED
  BY <1>1, <1>2

-----------------------------------------------------------------------------
(* What ages keeps its value. *)

\* Prices and trades come one at a time.
Few ==
    /\ IsFiniteSet(prices) /\ IsFiniteSet(traded)
    /\ \A j \in Jobs : job[j] # NoJob => IsFiniteSet(job[j].pending)

\* What an answer adds to a transaction is one quote, or none.
LEMMA AnswersAddOne ==
    ASSUME Shape, NEW j \in Jobs, NEW lag \in Lags, Answers(j, lag)
    PROVE  /\ job[j] # NoJob
           /\ \E stored : /\ IsFiniteSet(stored)
                          /\ job'[j].pending = job[j].pending \cup stored
           /\ \A i \in Jobs \ {j} : job'[i] = job[i]
<1> DEFINE a == job[j].asset
<1>1. job[j].at = "fetch" /\ job[j] # NoJob
  BY DEF Answers, NoJob
<1>2. \/ job'[j].pending = job[j].pending \cup {Quote(a, lag)}
      \/ job'[j].pending = job[j].pending \cup {}
  BY DEF Answers, Ended, Shape
<1>3. \A i \in Jobs \ {j} : job'[i] = job[i]
  BY DEF Answers, Shape
<1>4. IsFiniteSet({Quote(a, lag)}) /\ IsFiniteSet({})
  BY FS_Singleton, FS_EmptySet
<1> QED
  BY <1>1, <1>2, <1>3, <1>4

\* No action adds more than a job has gathered.
LEMMA NextFew == Shape /\ Few /\ [MarketNext]_marketVars => Few'
<1> SUFFICES ASSUME Shape, Few, [MarketNext]_marketVars PROVE Few'
  OBVIOUS
<1>1. ASSUME NEW j \in Jobs, NEW todo, StartJob(j, todo) PROVE Few'
  BY <1>1, FS_EmptySet DEF StartJob, Shape, Few, assetVars, priceVars
<1>2. ASSUME NEW j \in Jobs,
             (\E a \in Assets : Fetch(j, a) \/ NobodyToAsk(j, a)) \/ ProviderFails(j)
      PROVE  Few'
  BY <1>2, AsksOnly DEF Few
<1>3. ASSUME NEW j \in Jobs, NEW lag \in Lags, Answers(j, lag) PROVE Few'
  <2>1. UNCHANGED <<traded, prices>>
    BY <1>3 DEF Answers, assetVars, priceVars
  <2>2. /\ job[j] # NoJob
        /\ \A i \in Jobs \ {j} : job'[i] = job[i]
    BY <1>3, AnswersAddOne
  <2>3. PICK stored : IsFiniteSet(stored) /\ job'[j].pending = job[j].pending \cup stored
    BY <1>3, AnswersAddOne
  <2>4. IsFiniteSet(job[j].pending \cup stored)
    BY <2>2, <2>3, FS_Union DEF Few
  <2> QED
    BY <2>1, <2>2, <2>3, <2>4 DEF Few
<1>4. ASSUME NEW j \in Jobs, CommitJob(j) PROVE Few'
  <2>1. job[j] # NoJob /\ UNCHANGED traded
    BY <1>4 DEF CommitJob, NoJob, assetVars
  <2>2. IsFiniteSet(prices \cup job[j].pending)
    BY <2>1, FS_Union DEF Few
  <2> QED
    BY <1>4, <2>1, <2>2 DEF CommitJob, Shape, Few
<1>5. ASSUME NEW j \in Jobs, FailJob(j) PROVE Few'
  BY <1>5 DEF FailJob, Shape, Few, assetVars, priceVars
<1>6. ASSUME NEW a \in Assets, RecordManual(a) PROVE Few'
  <2> DEFINE new == Observation(a, now, TRUE, currency[a])
  <2>1. prices' = prices \cup {new} /\ UNCHANGED <<traded, job>>
    BY <1>6 DEF RecordManual, assetVars
  <2> HIDE DEF new
  <2>2. IsFiniteSet(prices \cup {new})
    BY FS_AddElement DEF Few
  <2> QED
    BY <2>1, <2>2 DEF Few
<1>7. ASSUME NEW u \in Users, DeleteAsset(u) PROVE Few'
  <2>1. prices' \subseteq prices /\ UNCHANGED <<traded, job>>
    BY <1>7 DEF DeleteAsset
  <2> QED
    BY <2>1, FS_Subset DEF Few
<1>8. ASSUME NEW a \in Assets, Use(a) PROVE Few'
  <2>1. traded' \in {traded, traded \cup {a}} /\ UNCHANGED <<prices, job>>
    BY <1>8 DEF Use, priceVars
  <2>2. IsFiniteSet(traded \cup {a})
    BY FS_AddElement DEF Few
  <2> QED
    BY <2>1, <2>2 DEF Few
<1>9. ASSUME UNCHANGED <<traded, prices, job>> PROVE Few'
  BY <1>9 DEF Few
<1>10. ASSUME NEW u \in Users, WriteConfig(u) PROVE Few'
  BY <1>9, <1>10 DEF WriteConfig, assetVars
<1> QED
  BY <1>1, <1>2, <1>3, <1>4, <1>5, <1>6, <1>7, <1>8, <1>9, <1>10
     DEF MarketNext, Starts, Tick, Check, ReadConfig, ChangeCurrency, RecordRate, marketVars, assetVars, priceVars

\* An asset that has prices has a latest one.
LEMMA LatestExists ==
    ASSUME Shape, Few, NEW a, HasPrices(a)
    PROVE  LatestOf(a) # {}
<1> DEFINE S == {o \in prices : o.asset = a}
           f == [o \in S |-> o.at]
<1>1. IsFiniteSet(S) /\ S # {}
  BY FS_Subset DEF Few, HasPrices
<1>2. \A o \in S : f[o] \in Int /\ f[o] = o.at
  BY DEF Shape, Observations
<1> HIDE DEF f
<1>3. \E x \in S : \A y \in S : f[y] <= f[x]
  <2> HIDE DEF S
  <2> QED
    BY <1>1, <1>2, Highest
<1> QED
  BY <1>2, <1>3 DEF LatestOf

\* The value of the priced positions is a sum.
LEMMA ValueInSum ==
    ASSUME NEW P, NEW S, NEW T, T = {a \in S : P[a].value # Unpriced}, IsFiniteSet(T),
           NEW v \in [T -> Int], \A a \in T : P[a].value = v[a]
    PROVE  ValueIn(P, S) = Amount(v, T)
<1> DEFINE Eq(g) == g = [s \in SUBSET T |->
                           IF s = {} THEN 0
                           ELSE P[CHOOSE x \in s : TRUE].value + g[s \ {CHOOSE x \in s : TRUE}]]
           iter == CHOOSE g : Eq(g)
<1>1. ValueIn(P, S) = iter[T]
  BY DEF ValueIn, MapThenSumSet, MapThenFoldSet
<1>2. ASSUME NEW g PROVE Eq(g) <=> AddsUp(g, v, T)
  <2>1. \A s \in SUBSET T : s # {} => v[CHOOSE x \in s : TRUE] = P[CHOOSE x \in s : TRUE].value
    OBVIOUS
  <2> QED
    BY <2>1 DEF AddsUp
<1>3. \E g : Eq(g)
  <2>1. AddsUp([s \in SUBSET T |-> Amount(v, s)], v, T)
    BY SumExists
  <2> HIDE DEF Eq
  <2> QED
    BY <1>2, <2>1
<1>4. Eq(iter)
  BY <1>3
<1> HIDE DEF iter, Eq
<1> QED
  BY <1>1, <1>2, <1>4, SumUnique

\* So is the profit of some holdings.
LEMMA ProfitInSum ==
    ASSUME NEW H, NEW P, NEW S, IsFiniteSet(S),
           NEW v \in [S -> Int], \A a \in S : ShownProfit(H[a], P[a]) = v[a]
    PROVE  ProfitIn(H, P, S) = Amount(v, S)
<1> DEFINE Eq(g) == g = [s \in SUBSET S |->
                           IF s = {} THEN 0
                           ELSE ShownProfit(H[CHOOSE x \in s : TRUE], P[CHOOSE x \in s : TRUE])
                                   + g[s \ {CHOOSE x \in s : TRUE}]]
           iter == CHOOSE g : Eq(g)
<1>1. ProfitIn(H, P, S) = iter[S]
  BY DEF ProfitIn, MapThenSumSet, MapThenFoldSet
<1>2. ASSUME NEW g PROVE Eq(g) <=> AddsUp(g, v, S)
  <2>1. \A s \in SUBSET S : s # {} => v[CHOOSE x \in s : TRUE]
                 = ShownProfit(H[CHOOSE x \in s : TRUE], P[CHOOSE x \in s : TRUE])
    OBVIOUS
  <2> QED
    BY <2>1 DEF AddsUp
<1>3. \E g : Eq(g)
  <2>1. AddsUp([s \in SUBSET S |-> Amount(v, s)], v, S)
    BY SumExists
  <2> HIDE DEF Eq
  <2> QED
    BY <1>2, <2>1
<1>4. Eq(iter)
  BY <1>3
<1> HIDE DEF iter, Eq
<1> QED
  BY <1>1, <1>2, <1>4, SumUnique

\* Holdings H0 valued as P0 that turn into H1 valued as P1: no value changes,
\* and nothing is live that was not.
Aged(T, H0, P0, H1, P1) ==
    /\ DOMAIN P0 = T /\ DOMAIN P1 = T
    /\ \A a \in T :
          /\ P0[a].value \in Int /\ P1[a].value = P0[a].value
          /\ H0[a].book \in Int /\ H1[a].book = H0[a].book
          /\ P1[a].live => P0[a].live

\* The total and what it lacks stay as they are.
LEMMA AgedTotals ==
    ASSUME NEW T, IsFiniteSet(T), NEW H0, NEW P0, NEW H1, NEW P1, Aged(T, H0, P0, H1, P1)
    PROVE  Total(P1) = Total(P0) /\ IsComplete(P1) = IsComplete(P0)
<1> DEFINE R == {a \in T : P0[a].value # Unpriced}
           v == [a \in R |-> P0[a].value]
<1>1. R = {a \in T : P1[a].value # Unpriced} /\ IsFiniteSet(R)
  BY FS_Subset DEF Aged
<1>2. v \in [R -> Int] /\ \A a \in R : P0[a].value = v[a] /\ P1[a].value = v[a]
  BY DEF Aged
<1>3. Total(P0) = ValueIn(P0, T) /\ Total(P1) = ValueIn(P1, T)
  BY DEF Aged, Total
<1>4. UnpricedIn(P0) = UnpricedIn(P1)
  BY DEF Aged, UnpricedIn
<1>5. R = {a \in T : P0[a].value # Unpriced}
  OBVIOUS
<1> HIDE DEF R, v
<1>6. ValueIn(P0, T) = Amount(v, R)
  BY <1>1, <1>2, <1>5, ValueInSum
<1>7. ValueIn(P1, T) = Amount(v, R)
  BY <1>1, <1>2, ValueInSum
<1> QED
  BY <1>3, <1>4, <1>6, <1>7 DEF IsComplete

\* The profit is that of what is still live.
LEMMA AgedProfit ==
    ASSUME NEW T, IsFiniteSet(T), NEW H0, NEW P0, NEW H1, NEW P1, Aged(T, H0, P0, H1, P1)
    PROVE  \E live \in SUBSET T :
              /\ \A a \in T : ShownProfit(H1[a], P1[a]) = IF a \in live THEN ShownProfit(H0[a], P0[a]) ELSE 0
              /\ TotalProfit(H1, P1) = ProfitIn(H0, P0, live)
<1> DEFINE live == {a \in T : P1[a].live}
           v == [a \in T |-> ShownProfit(H1[a], P1[a])]
           w == [a \in live |-> ShownProfit(H0[a], P0[a])]
<1>1. \A a \in T : ShownProfit(H1[a], P1[a]) = IF a \in live THEN ShownProfit(H0[a], P0[a]) ELSE 0
  BY DEF Aged, ShownProfit
<1>2. \A a \in T : ShownProfit(H1[a], P1[a]) \in Int /\ ShownProfit(H0[a], P0[a]) \in Int
  BY DEF Aged, ShownProfit
<1>3. v \in [T -> Int] /\ \A a \in T : ShownProfit(H1[a], P1[a]) = v[a]
  BY <1>2
<1>4. live \subseteq T /\ IsFiniteSet(live)
  BY FS_Subset
<1>5. w \in [live -> Int] /\ \A a \in live : ShownProfit(H0[a], P0[a]) = w[a]
  BY <1>2
<1>6. (\A a \in live : v[a] = w[a]) /\ (\A a \in T \ live : v[a] = 0)
  BY <1>1
<1> HIDE DEF v, w, live
<1>7. T \subseteq DOMAIN v /\ live \subseteq DOMAIN v /\ live \subseteq DOMAIN w /\ \A a \in T : v[a] \in Int
  BY <1>3, <1>4, <1>5
<1>8. TotalProfit(H1, P1) = Amount(v, T)
  <2>1. TotalProfit(H1, P1) = ProfitIn(H1, P1, T)
    BY DEF TotalProfit, Aged
  <2> QED
    BY <1>3, <2>1, ProfitInSum
<1>9. Amount(v, T) = Amount(v, live)
  BY <1>4, <1>6, <1>7, AmountRest
<1>10. Amount(v, live) = Amount(w, live)
  BY <1>6, <1>7, AmountSame
<1>11. ProfitIn(H0, P0, live) = Amount(w, live)
  BY <1>4, <1>5, ProfitInSum
<1>12. TotalProfit(H1, P1) = ProfitIn(H0, P0, live)
  BY <1>8, <1>9, <1>10, <1>11
<1> QED
  BY <1>1, <1>4, <1>12

\* While assets, prices and rates stay as they are, a holding keeps its value:
\* a quote may turn from CURRENT to LAST_KNOWN, and both are used.
LEMMA QuoteAges ==
    ASSUME Shape, Few, HistoryKeepsItsAsset, Ages, UNCHANGED <<assetVars, priceVars>>
    PROVE  Aged(traded, Held, Holdings, Held', Holdings')
<1>1. /\ UNCHANGED <<currency, traded, setting, prices, rates>>
      /\ UNCHANGED <<currency, priceVars>>
  BY DEF assetVars, priceVars
<1>2. DOMAIN Holdings = traded /\ DOMAIN Holdings' = traded /\ DOMAIN Held = traded /\ DOMAIN Held' = traded
  BY <1>1 DEF Holdings, Held
<1> SUFFICES ASSUME NEW a \in traded
             PROVE  /\ Holdings[a].value \in Int /\ Holdings'[a].value = Holdings[a].value
                    /\ Held[a].book \in Int /\ Held'[a].book = Held[a].book
                    /\ Holdings'[a].live => Holdings[a].live
  BY <1>2 DEF Aged
<1> DEFINE h == Holding(a)
           o == CHOOSE x \in LatestOf(a) : TRUE
<1>3. Held[a] = h /\ Held'[a] = h'
  BY <1>1 DEF Held
<1>4. /\ Holdings[a].value = ValueOf(h) /\ Holdings'[a].value = ValueOf(h')
      /\ Holdings[a].live <=> h.quote = "CURRENT"
      /\ Holdings'[a].live <=> h'.quote = "CURRENT"
  BY <1>1, <1>3 DEF Holdings, Position
<1>5. HasPrices(a)' = HasPrices(a) /\ o' = o
  BY <1>1 DEF HasPrices, LatestOf
<1>6. PICK c : c = o
  OBVIOUS
<1>7. /\ h.held = TRUE /\ h.book = 1 /\ h.foreign = (currency[a] # Base)
      /\ h.worth = IF HasPrices(a) THEN Worth(o) ELSE 0
      /\ h.quote = IF HasPrices(a) THEN StatusOf(a, o) ELSE "UNAVAILABLE"
  BY DEF Holding
<1>8. /\ h'.held = TRUE /\ h'.book = 1 /\ h'.foreign = (currency'[a] # Base)
      /\ h'.worth = IF HasPrices(a)' THEN Worth(o') ELSE 0
      /\ h'.quote = IF HasPrices(a)' THEN StatusOf(a, o)' ELSE "UNAVAILABLE"
  BY DEF Holding
<1> HIDE DEF h, o
<1>9. h.quote = (IF HasPrices(a) THEN StatusOf(a, c) ELSE "UNAVAILABLE")
      /\ h'.quote = (IF HasPrices(a) THEN StatusOf(a, c)' ELSE "UNAVAILABLE")
  BY <1>5, <1>6, <1>7, <1>8 DEF StatusOf, NativeStale
<1>10. h'.foreign = h.foreign /\ h'.worth = h.worth /\ h.worth \in Int
  BY <1>1, <1>5, <1>7, <1>8 DEF Worth
<1>11. Usable(h'.quote) <=> Usable(h.quote)
  BY <1>1, <1>9 DEF Usable, StatusOf, LatestRate
<1>12. h'.quote = "CURRENT" => h.quote = "CURRENT"
  <2>1. CASE HasPrices(a)
    <3>1. a \in DOMAIN currency /\ c \in LatestOf(a)
      BY <1>6, <2>1, LatestExists DEF HistoryKeepsItsAsset, o
    <3>2. StatusOf(a, c) # "CURRENT" => StatusOf(a, c)' # "CURRENT"
      BY <1>1, <3>1 DEF Ages
    <3> QED
      BY <1>9, <2>1, <3>2
  <2> QED
    BY <1>9, <2>1
<1>13. ValueOf(h') = ValueOf(h) /\ ValueOf(h) \in Int
  BY <1>7, <1>8, <1>10, <1>11 DEF ValueOf, CostStandsIn, Unpriced
<1> QED
  BY <1>3, <1>4, <1>7, <1>8, <1>12, <1>13

\* Time alone changes no value and no total, and of the profit it takes away
\* only what a quote that has turned old contributed.
THEOREM AgeingIsHarmless == MarketSpec => AgeingKeepsValue
<1> DEFINE Known == Shape /\ Rated /\ Exact /\ Few /\ HistoryKeepsItsAsset
           Kept ==
              UNCHANGED <<assetVars, priceVars>> =>
                /\ Total(Holdings)' = Total(Holdings)
                /\ IsComplete(Holdings)' = IsComplete(Holdings)
                /\ \E live \in SUBSET traded :
                      /\ \A a \in traded : ShownProfit(Held[a], Holdings[a])' =
                                              IF a \in live THEN ShownProfit(Held[a], Holdings[a]) ELSE 0
                      /\ TotalProfit(Held, Holdings)' = ProfitIn(Held, Holdings, live)
<1>1. MarketInit => Few
  BY FS_EmptySet DEF MarketInit, Few
<1>2. MarketSpec => []Known
  BY <1>1, NextFew, ExactAlways, HistoryIsSafe, PTL DEF MarketSpec
<1>3. Known /\ Known' /\ [MarketNext]_marketVars => Kept
  <2> SUFFICES ASSUME Known, Known', [MarketNext]_marketVars, UNCHANGED <<assetVars, priceVars>>
               PROVE  /\ Total(Holdings)' = Total(Holdings)
                      /\ IsComplete(Holdings)' = IsComplete(Holdings)
                      /\ \E live \in SUBSET traded :
                            /\ \A a \in traded : ShownProfit(Held[a], Holdings[a])' =
                                                    IF a \in live THEN ShownProfit(Held[a], Holdings[a]) ELSE 0
                            /\ TotalProfit(Held, Holdings)' = ProfitIn(Held, Holdings, live)
    OBVIOUS
  <2>1. Ages
    BY AgesStep
  <2>2. Aged(traded, Held, Holdings, Held', Holdings') /\ IsFiniteSet(traded)
    BY <2>1, QuoteAges DEF Few
  <2>3. Total(Holdings') = Total(Holdings) /\ IsComplete(Holdings') = IsComplete(Holdings)
    BY <2>2, AgedTotals
  <2>4. \E live \in SUBSET traded :
           /\ \A a \in traded : ShownProfit(Held'[a], Holdings'[a])
                                   = IF a \in live THEN ShownProfit(Held[a], Holdings[a]) ELSE 0
           /\ TotalProfit(Held', Holdings') = ProfitIn(Held, Holdings, live)
    BY <2>2, AgedProfit
  <2> QED
    BY <2>3, <2>4
<1>4. MarketSpec => [][Kept]_marketVars
  BY <1>2, <1>3, PTL DEF MarketSpec
<1>5. AgeingKeepsValue <=> [][Kept]_marketVars
  BY DEF AgeingKeepsValue
<1> QED
  BY <1>4, <1>5
=============================================================================
