------------------------------- MODULE Settings -------------------------------
(***************************************************************************)
(* The configuration: what is loaded from evot.toml, the env file, the        *)
(* process's environment and the cloud catalogue, how a change is saved, and   *)
(* which model a running agent keeps when it is loaded again.  Several         *)
(* processes load and save the same env file, and its user edits it too.       *)
(* A line of the env file is a key and a value; a key is <<"llm", provider,    *)
(* field>>, <<"legacy", provider, field>> (the old names of a provider's       *)
(* fields), <<"global", field>>, <<"feishu", field>> or <<"other", name>>.     *)
(* A provider keeps three fields: its API key (own, or issued by evot), its    *)
(* base URL (own or the cloud's) and its thinking level.                       *)
(***************************************************************************)
EXTENDS Naturals, Sequences, FiniteSets, SequencesExt, TLC

CONSTANTS
  Procs,       \* the processes that load and save the env file
  Toml,        \* evot.toml: [providers |-> <<[name, fields]>>, feishu, allow]
  EnvFiles,    \* the env files the user may leave, the first one included
  Shell,       \* process |-> the lines of its environment
  Extending,   \* <<n, m>> when m's name in a key begins with n's and "_"
  Catalog,     \* the providers of the cloud catalogue, in the server's order
  Rank,        \* model |-> its rank in the catalogue; the greatest is preferred
  Updates,     \* what the settings page may send: see SaveModels
  Apps,        \* Feishu applications
  MaxSaves     \* bound: saves, edits and logins

VARIABLES
  env,         \* the lines of the env file
  loggedIn,    \* is there a login, and a catalogue with it
  config,      \* process |-> its configuration, with the revision it is of
  live,        \* process |-> the provider and model of its agent
  saves        \* saves, edits and logins so far

vars == <<env, loggedIn, config, live, saves>>

Fields == {"key", "url", "level"}
Blank == [f \in Fields |-> ""]
NotLoaded == [revision |-> <<"never">>]
Unconfigured == <<"", "">>

-----------------------------------------------------------------------------
(* Providers are kept in the order they were first named.                    *)
Names(c) == {c.providers[i].name : i \in DOMAIN c.providers}
IndexOf(c, n) == CHOOSE i \in DOMAIN c.providers : c.providers[i].name = n
Profile(c, n) == c.providers[IndexOf(c, n)]

(* A provider that is new starts blank; otherwise only what is given changes.*)
Merged(p, fields, models) ==
  [p EXCEPT !.fields = [f \in Fields |-> IF f \in DOMAIN fields THEN fields[f] ELSE @[f]],
            !.models = IF models = <<>> THEN @ ELSE models]

Merge(c, n, fields, models) ==
  [c EXCEPT !.providers =
     IF n \in Names(c)
     THEN [i \in DOMAIN @ |-> IF @[i].name = n THEN Merged(@[i], fields, models) ELSE @[i]]
     ELSE Append(@, Merged([name |-> n, fields |-> Blank, models |-> <<>>], fields, models))]

FromToml(t) ==
  LET empty == [providers |-> <<>>, provider |-> "", pin |-> "", level |-> "",
                feishu |-> t.feishu, cloud |-> {}, revision |-> <<>>]
  IN FoldLeft(LAMBDA c, p : Merge(c, p.name, p.fields, p.models), empty, t.providers)

(* A value for one field of a provider; a model list is a field of its own.  *)
SetField(c, n, f, value) ==
  Merge(c, n, IF f = "models" THEN <<>> ELSE f :> value,
        IF f = "models" THEN value ELSE <<>>)

(* Keys of a provider are told by their prefix alone, which is also the      *)
(* prefix of the keys of a provider whose name goes on after it.             *)
HasPrefix(key, n) == key[1] = "llm" /\ (key[2] = n \/ <<n, key[2]>> \in Extending)
HasNewFormat(lines, n) == \E i \in DOMAIN lines : HasPrefix(lines[i].key, n)

(* Legacy names first, and only of a provider without new ones; then the new *)
(* names, the selection and the channel, whose list of senders starts empty. *)
ApplyLegacy(c, lines) ==
  FoldLeft(LAMBDA d, l : IF l.key[1] = "legacy" /\ ~HasNewFormat(lines, l.key[2])
                         THEN SetField(d, l.key[2], l.key[3], l.value) ELSE d, c, lines)

ApplyLine(d, l) ==
  CASE l.key[1] = "llm"                  -> SetField(d, l.key[2], l.key[3], l.value)
    [] l.key = <<"global", "provider">> -> [d EXCEPT !.provider = l.value]
    [] l.key = <<"global", "level">>    -> [d EXCEPT !.level = l.value]
    [] l.key = <<"feishu", "app">>      ->
         [d EXCEPT !.feishu = [app |-> l.value, allow |-> {}]]
    [] OTHER -> d

FromEnv(c, lines) == FoldLeft(ApplyLine, ApplyLegacy(c, lines), lines)

(* An older client may have saved a cloud provider in the env file: its      *)
(* credentials were issued by evot, for a cloud endpoint.                    *)
IsStaleCloud(profile) == profile.fields.url = "cloud" /\ profile.fields.key = "evot"

(* The best ranked model of the cloud providers; of equals the first.        *)
CloudModels(c) ==
  {ij \in UNION {{i} \X DOMAIN c.providers[i].models : i \in DOMAIN c.providers} :
     c.providers[ij[1]].name \in c.cloud}

ModelAt(c, ij) == c.providers[ij[1]].models[ij[2]]

Before(c, a, b) ==
  \/ Rank[ModelAt(c, a)] > Rank[ModelAt(c, b)]
  \/ /\ Rank[ModelAt(c, a)] = Rank[ModelAt(c, b)]
     /\ a[1] < b[1] \/ (a[1] = b[1] /\ a[2] < b[2])

Best(c) == CHOOSE a \in CloudModels(c) : \A b \in CloudModels(c) : a = b \/ Before(c, a, b)
NameAndModel(c, ij) == <<c.providers[ij[1]].name, ModelAt(c, ij)>>
Preferred(c) == NameAndModel(c, Best(c))

(* A cloud provider is registered unless the user has one of that name.      *)
NeverCollides(c, n) == FALSE    \* mutant: the catalogue takes the name
Collides(c, n) == n \in Names(c) /\ ~IsStaleCloud(Profile(c, n))

CloudProfile(g) == [name |-> g.name, models |-> g.models,
                    fields |-> [Blank EXCEPT !.key = "evot", !.url = "cloud"]]

Register(c, g) ==
  IF g.models = <<>> \/ Collides(c, g.name) THEN c
  ELSE [c EXCEPT !.cloud = @ \cup {g.name},
                 !.providers = IF g.name \in Names(c)
                               THEN [@ EXCEPT ![IndexOf(c, g.name)] = CloudProfile(g)]
                               ELSE Append(@, CloudProfile(g))]

(* The selection moves to the catalogue's best unless a provider of the       *)
(* user's own, with a key, is selected.                                       *)
OwnIsActive(c) ==
  c.provider \in Names(c) \ c.cloud /\ Profile(c, c.provider).fields.key # ""

Landed(c) ==
  IF OwnIsActive(c) \/ CloudModels(c) = {} THEN c
  ELSE [c EXCEPT !.provider = Preferred(c)[1], !.pin = ""]

WithCloud(c, logged) == IF logged THEN Landed(FoldLeft(Register, c, Catalog)) ELSE c

(* The names in the env file whose keys the server owns.                     *)
StaleNames(c, lines) ==
  {n \in {lines[i].key[2] : i \in {j \in DOMAIN lines : lines[j].key[1] = "llm"}} :
     n \in c.cloud \/ (n \in Names(c) /\ IsStaleCloud(Profile(c, n)))}

(* Their keys leave the file; the profiles that are not cloud's leave the     *)
(* configuration.                                                             *)
Without(c, stale) ==
  [c EXCEPT !.providers = SelectSeq(@, LAMBDA p : p.name \notin stale \ c.cloud)]
Cleaned(lines, stale) ==
  SelectSeq(lines, LAMBDA l : ~ \E n \in stale : HasPrefix(l.key, n))

(* A selection that names no provider falls to the first.                    *)
OrFirst(c, known) ==
  IF known \/ c.providers = <<>> THEN c ELSE [c EXCEPT !.provider = c.providers[1].name]

(* One load, under the env file's lock.                                      *)
Given(lines, shell) == FromEnv(FromEnv(FromToml(Toml), lines), shell)
Defaulted(c) == OrFirst(c, c.provider # "")
Resolved(c) == OrFirst(c, c.provider \in Names(c))

Reconciled(c, lines, stale) ==
  [config |-> [Resolved(Without(c, stale)) EXCEPT !.revision = Cleaned(lines, stale)],
   env    |-> Cleaned(lines, stale)]

CloudReconciled(c, lines) == Reconciled(c, lines, StaleNames(c, lines))

Loaded(lines, shell, logged) ==
  CloudReconciled(WithCloud(Defaulted(Given(lines, shell)), logged), lines)

-----------------------------------------------------------------------------
(* The pair a request without a model of its own resolves to.                *)
ActiveSelection(c) ==
  IF c.pin # "" THEN <<c.provider, c.pin>>
  ELSE IF c.provider \in c.cloud \cup {""} /\ CloudModels(c) # {} THEN Preferred(c)
  ELSE IF c.provider \notin Names(c) THEN Unconfigured
  ELSE <<c.provider, IF Profile(c, c.provider).models = <<>> THEN ""
                     ELSE Profile(c, c.provider).models[1]>>

(* A provider with a key serves; a cloud one only what its catalogue lists.  *)
Serves(c, pm) ==
  /\ pm[2] # "" /\ pm[1] \in Names(c)
  /\ Profile(c, pm[1]).fields.key # ""
  /\ pm[1] \in c.cloud => pm[2] \in ToSet(Profile(c, pm[1]).models)

ActiveLlm(c) ==
  LET a == ActiveSelection(c) IN IF a[1] \in Names(c) THEN a ELSE Unconfigured

ReloadSelection(c, current) == IF Serves(c, current) THEN current ELSE ActiveLlm(c)

-----------------------------------------------------------------------------
(* What a save writes: the whole configuration in one block, but for the     *)
(* cloud's providers; the lines that are none of evot's stay before it.      *)
Line(k, v) == [key |-> k, value |-> v]
FieldLine(p, f) ==
  IF p.fields[f] = "" /\ f # "url" THEN <<>> ELSE <<Line(<<"llm", p.name, f>>, p.fields[f])>>
ProviderGroup(p) ==
  FieldLine(p, "url") \o <<Line(<<"llm", p.name, "models">>, p.models)>>
  \o FieldLine(p, "key") \o FieldLine(p, "level")

EnvGroups(c) ==
  <<Line(<<"global", "provider">>, c.provider)>>
  \o (IF c.level = "" THEN <<>> ELSE <<Line(<<"global", "level">>, c.level)>>)
  \o FlattenSeq([i \in DOMAIN c.providers |->
       IF c.providers[i].name \in c.cloud THEN <<>> ELSE ProviderGroup(c.providers[i])])
  \o (IF c.feishu.app = "" THEN <<>> ELSE <<Line(<<"feishu", "app">>, c.feishu.app)>>)

Written(lines, c) == SelectSeq(lines, LAMBDA l : l.key[1] = "other") \o EnvGroups(c)

(* A change is made on a copy and written only if the file is still the one  *)
(* that was loaded; then the copy becomes the configuration.                 *)
IsCurrent(p) == config[p].revision = env

UpdateConfig(p, candidate) ==
  /\ IsCurrent(p)
  /\ env' = Written(env, candidate)
  /\ config' = [config EXCEPT ![p] = [candidate EXCEPT !.revision = env']]
  /\ saves' = saves + 1

-----------------------------------------------------------------------------
IsLoaded(p) == config[p] # NotLoaded

(* A process starts, or loads again because the login changed; a load may    *)
(* clean the file.                                                           *)
Take(p, l) ==
  /\ config' = [config EXCEPT ![p] = l.config]
  /\ env' = l.env

Load(p) ==
  /\ Take(p, Loaded(env, Shell[p], loggedIn))
  /\ live' = [live EXCEPT ![p] = IF IsLoaded(p) THEN ReloadSelection(config'[p], @)
                                 ELSE ActiveLlm(config'[p])]
  /\ UNCHANGED <<loggedIn, saves>>

(* A settings page that is opened loads again, and leaves the agent alone.   *)
OpenPage(p) ==
  /\ IsLoaded(p)
  /\ Take(p, Loaded(env, Shell[p], loggedIn))
  /\ UNCHANGED <<loggedIn, live, saves>>

(* An effort chosen in a session becomes the default, also where the          *)
(* provider's own would mask it.                                              *)
WithLevel(c, n, level) ==
  IF n \in Names(c) /\ Profile(c, n).fields.level # ""
  THEN Merge([c EXCEPT !.level = level], n, "level" :> level, <<>>)
  ELSE [c EXCEPT !.level = level]

SetLevel(p, level) ==
  /\ IsLoaded(p) /\ saves < MaxSaves
  /\ UpdateConfig(p, WithLevel(config[p], live[p][1], level))
  /\ UNCHANGED <<loggedIn, live>>

(* The models page sends all providers of the user's own; an empty key keeps *)
(* the old one, and the cloud's providers are added back behind them.        *)
Kept(c, s) ==
  IF s.fields.key # "" \/ s.name \notin Names(c) THEN s
  ELSE [s EXCEPT !.fields.key = Profile(c, s.name).fields.key]

WithModels(c, u) ==
  [c EXCEPT !.providers =
              [i \in DOMAIN u.providers |-> Kept(c, u.providers[i])]
              \o SelectSeq(@, LAMBDA q : q.name \in c.cloud),
            !.level = u.level, !.provider = u.provider, !.pin = u.pin]

OwnOnly(c, u) ==
  [u EXCEPT !.providers = SelectSeq(@, LAMBDA s : s.name \notin c.cloud)]

(* Saves the candidate, and the agent takes what it selects.                 *)
ApplyAndPersist(p, candidate) ==
  /\ UpdateConfig(p, candidate)
  /\ live' = [live EXCEPT ![p] = ActiveLlm(candidate)]
  /\ UNCHANGED loggedIn

Selects(c, u) ==
  /\ u.provider \in Names(c)
  /\ u.pin # "" => u.pin \in ToSet(Profile(c, u.provider).models)

SaveModels(p, u) ==
  /\ IsLoaded(p) /\ saves < MaxSaves
  /\ Selects(WithModels(config[p], OwnOnly(config[p], u)), u)
  /\ ApplyAndPersist(p, WithModels(config[p], OwnOnly(config[p], u)))

(* Another application drops what belonged to the old one.                   *)
WithFeishu(c, app) ==
  [c EXCEPT !.feishu = [app |-> app, allow |-> IF app = @.app THEN @.allow ELSE {}]]

SaveFeishu(p, app) ==
  /\ IsLoaded(p) /\ saves < MaxSaves
  /\ ActiveLlm(config[p]) # Unconfigured
  /\ ApplyAndPersist(p, WithFeishu(config[p], app))

UserEdits(lines) ==
  /\ saves < MaxSaves /\ lines # env
  /\ env' = lines
  /\ saves' = saves + 1
  /\ UNCHANGED <<loggedIn, config, live>>

LoginOrOut ==
  /\ saves < MaxSaves
  /\ loggedIn' = ~loggedIn
  /\ saves' = saves + 1
  /\ UNCHANGED <<env, config, live>>

Init ==
  /\ env \in EnvFiles
  /\ loggedIn \in BOOLEAN
  /\ config = [p \in Procs |-> NotLoaded]
  /\ live = [p \in Procs |-> Unconfigured]
  /\ saves = 0

Next ==
  \/ \E p \in Procs :
       \/ Load(p)
       \/ OpenPage(p)
       \/ \E level \in {"low", "high"} : SetLevel(p, level)
       \/ \E u \in Updates : SaveModels(p, u)
       \/ \E a \in Apps : SaveFeishu(p, a)
  \/ \E lines \in EnvFiles : UserEdits(lines)
  \/ LoginOrOut

Spec == Init /\ [][Next]_vars

-----------------------------------------------------------------------------
(* What a process has loaded or saved, and nobody has changed since, is what *)
(* it loads after a restart, whoever logs in or out in between: no provider  *)
(* of the user's own is taken for the cloud's, lost or blanked, and one that *)
(* is selected and has a key stays selected.  What its shell sets goes first.*)
(* Left out are providers whose name goes on after another's: see            *)
(* NamesAreTheirOwn.                                                         *)
SetByShell(p, n, f) == \E i \in DOMAIN Shell[p] : Shell[p][i].key = <<"llm", n, f>>
SelectedByShell(p) == \E i \in DOMAIN Shell[p] : Shell[p][i].key = <<"global", "provider">>

Returns(p, q, r) ==
  /\ q.name \in Names(r) \ r.cloud
  /\ q.models # <<>> => Profile(r, q.name).models = q.models
  /\ \A f \in Fields : \/ q.fields[f] = "" \/ SetByShell(p, q.name, f)
                       \/ Profile(r, q.name).fields[f] = q.fields[f]

OwnProviders(c) ==
  {c.providers[i] : i \in {j \in DOMAIN c.providers :
     c.providers[j].name \notin c.cloud /\ ~IsStaleCloud(c.providers[j])}}

Selected(n) == \E i \in DOMAIN env : env[i] = Line(<<"global", "provider">>, n)

Reloads(p, c, r) ==
  \A q \in {o \in OwnProviders(c) : ~ \E e \in Extending : e[2] = o.name} :
    /\ Returns(p, q, r)
    /\ q.name = c.provider /\ q.fields.key # "" /\ Selected(q.name) /\ ~SelectedByShell(p)
         => r.provider = q.name

SavedConfigReloads ==
  \A p \in {q \in Procs : IsLoaded(q) /\ IsCurrent(q)} :
    Reloads(p, config[p], Loaded(env, Shell[p], loggedIn).config)

(* Violated by the code, and checked by no run: the same of every provider.  *)
(* The keys of a name that goes on after a stale one's, as OPENAI_EU after    *)
(* OPENAI, are removed with it, and the legacy keys of the shorter name are   *)
(* ignored because of the longer one's.                                       *)
NamesAreTheirOwn ==
  \A p \in {q \in Procs : IsLoaded(q) /\ IsCurrent(q)} :
    \A q \in OwnProviders(config[p]) :
      Returns(p, q, Loaded(env, Shell[p], loggedIn).config)
=============================================================================
