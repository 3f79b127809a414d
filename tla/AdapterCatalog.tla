--------------------------- MODULE AdapterCatalog ---------------------------
(***************************************************************************)
(* Which adapter a session runs on: the registry of bundled and user       *)
(* manifests (internal/adapters/registry.go), the Python interpreter and   *)
(* its debugpy (python.go), and the .NET driver's choice between           *)
(* netcoredbg and SharpDbg (drivers/dotnet/dotnet.go).  They decide from   *)
(* files, settings and the environment, and keep no state: a behaviour     *)
(* asks one question, and it is answered.                                  *)
(***************************************************************************)
EXTENDS Naturals, Sequences, FiniteSets

CONSTANTS
    Names, Langs, None,
    Bad,        \* a file that is not trusted or does not parse
    Builtin,    \* the languages compiled drivers serve
    UserFiles   \* the files of the user's manifest directory

\* Nothing is no name, no file's content and no choice of an adapter.
ASSUME CatalogAssumption ==
    /\ None \notin Names \cup Langs /\ None \notin {"served", "sharp"}
    /\ \A m \in [name : Names, lang : Langs \cup {None}, builtin : BOOLEAN] : m \notin {None, Bad}

VARIABLES question, answer

catalogVars == <<question, answer>>

----------------------------------------------------------------------------
(***************************************************************************)
(* The registry.                                                           *)
(***************************************************************************)

\* Parse and validate; a builtin manifest has a language.
Manifests ==
    {m \in [name : Names, lang : Langs \cup {None}, builtin : BOOLEAN] :
        m.lang = None => ~m.builtin}

\* validate: a file that breaks a rule of the format is no manifest.
Parsed(content) == content \notin {None, Bad}

\* readUser: nor is one that is missing, not a file or not trusted; of a
\* directory that is not trusted (trustDir) nothing is read.
Loadable(user, trusted) == {f \in UserFiles : trusted /\ Parsed(user[f])}

\* admit: only a builtin manifest may name a compiled driver's language.
Admits(m) == m.builtin <=> (m.lang \in Builtin)

\* dropConflicts: of user manifests that share a name or a language, none.
SameLang(m, n) == m.lang # None /\ m.lang = n.lang
Conflict(m, n) == m.name = n.name \/ SameLang(m, n)
DropSameName(user, files) ==
    {f \in files : \A g \in files \ {f} : user[f].name # user[g].name}
DropConflicts(user, files) ==
    {f \in files : \A g \in files \ {f} : ~Conflict(user[f], user[g])}

\* Load.  A user manifest replaces the bundled ones of its name or language.
\* A problem names its file, one of the directory all of them.
Load(bundled, user, trusted) ==
    LET admitted == {f \in Loadable(user, trusted) : Admits(user[f])}
        loaded   == DropConflicts(user, admitted)
    IN  [adapters |-> {m \in bundled : /\ Admits(m)
                                       /\ \A f \in loaded : ~Conflict(m, user[f])}
                      \cup {user[f] : f \in loaded},
         problems |-> {f \in UserFiles : user[f] = Bad \/ ~trusted}
                      \cup (Loadable(user, trusted) \ loaded)]

\* Adapter, Language and Resolve: by name, else by language.
Resolve(reg, s) ==
    LET named == {m \in reg.adapters : m.name = s}
    IN  IF named # {} THEN named ELSE {m \in reg.adapters : m.lang = s}

----------------------------------------------------------------------------
(***************************************************************************)
(* The Python interpreter.  What a place holds: nothing, a name that does  *)
(* not exist, a venv others may write, an interpreter that does not run,   *)
(* one too old for the installed debugpy, or a new enough one.             *)
(***************************************************************************)

\* probe: does it run?
Runs(c) == c \in {"old", "new"}

\* withRoot: the installed debugpy, else the interpreter's own.
WithRoot(c, source, installed, own) ==
    IF installed /\ c = "new" THEN [from |-> source, root |-> "installed"]
    ELSE IF own THEN [from |-> source, root |-> "python"]
    ELSE [from |-> source, root |-> "error"]

\* explicit: the option, else the variable; virtualEnv: a venv that is named.
Explicit(in) ==
    IF in.option # "none" THEN <<"option", in.option>>
    ELSE IF in.env # "none" THEN <<"env", in.env>>
    ELSE <<"virtualenv", in.virtualEnv>>

\* venv, venvDirs: the nearest project venv, in directories the user owns.
FirstVenv(dirs) ==
    LET hits == {i \in DOMAIN dirs : dirs[i] # "none"}
    IN  IF hits = {} THEN "none"
        ELSE dirs[CHOOSE i \in hits : \A j \in hits : i <= j]

\* resolve: of the commands on PATH, the first that runs.
FirstOnPath(path) ==
    LET hits == {i \in DOMAIN path : Runs(path[i])}
    IN  IF hits = {} THEN "none"
        ELSE path[CHOOSE i \in hits : \A j \in hits : i <= j]

\* An unsafe or missing choice, or one that does not run, is an error.
Probed(c, source, in) ==
    IF Runs(c) THEN WithRoot(c, source, in.installed, in.own)
               ELSE [from |-> source, root |-> "error"]

ResolvePythonFallsThrough(in) ==
    LET e == Explicit(in)
    IN  IF Runs(e[2]) THEN Probed(e[2], e[1], in)
        ELSE IF Runs(FirstVenv(in.venvs)) THEN Probed(FirstVenv(in.venvs), "venv", in)
        ELSE Probed(FirstOnPath(in.path), "path", in)
ResolvePython(in) ==
    LET e == Explicit(in)
    IN  IF e[2] # "none" THEN Probed(e[2], e[1], in)
        ELSE IF FirstVenv(in.venvs) # "none" THEN Probed(FirstVenv(in.venvs), "venv", in)
        ELSE Probed(FirstOnPath(in.path), "path", in)

PythonInputs ==
    [option : {"none", "missing", "broken", "old", "new"}, env : {"none", "missing", "new"},
     virtualEnv : {"none", "missing", "unsafe", "new"},
     venvs : [1..2 -> {"none", "unsafe", "broken", "new"}],
     path : [1..2 -> {"missing", "broken", "old", "new"}], installed : BOOLEAN, own : BOOLEAN]

----------------------------------------------------------------------------
(***************************************************************************)
(* The .NET driver's adapter.                                              *)
(***************************************************************************)

\* Find, ResolveDotnet: found, there but not usable, or not installed.
Found == {"usable", "broken", "missing"}

\* autoDefault: SharpDbg when it alone can be had here.  What serves dotnet is
\* netcoredbg or a user's manifest in its place, that of SharpDbg too.
AutoDefault(in) ==
    /\ in.serves = "native" /\ in.sharp \notin {None, "missing"}
    /\ ~in.download /\ ~in.withheld /\ in.served = "missing"

\* adapterLaunch, launchWith; an error where no manifest serves dotnet.
AdapterLaunch(in) ==
    LET pick == IF in.pick # None THEN in.pick
                ELSE IF AutoDefault(in) THEN "sharp"
                ELSE IF in.serves # None THEN "served" ELSE None
    IN  [adapter |-> pick, works |-> pick # None /\ in[pick] = "usable"]

\* WithAdapter: only a manifest that there is can be picked.
DotnetInputs ==
    {in \in [pick : {None, "served", "sharp"}, serves : {None, "native", "managed", "sharp"},
             download : BOOLEAN, withheld : BOOLEAN, served : Found, sharp : Found \cup {None}] :
        /\ in.pick = "served" => in.serves # None
        /\ in.pick = "sharp" => in.sharp # None
        /\ in.serves = "sharp" => in.sharp = in.served}

----------------------------------------------------------------------------

\* Bundled manifests have names and languages of their own.
BundledSets ==
    {b \in SUBSET Manifests :
        /\ Cardinality(b) <= 2
        /\ \A m, n \in b : m # n => ~Conflict(m, n)}

CatalogInit == answer = None /\ question = None

AskLoad ==
    /\ question = None
    /\ \E b \in BundledSets, trusted \in BOOLEAN :
       \E u \in [UserFiles -> Manifests \cup {Bad, None}] :
          /\ question' = [kind |-> "load", bundled |-> b, user |-> u, trusted |-> trusted]
          /\ answer' = Load(b, u, trusted)

AskPython ==
    /\ question = None
    /\ \E in \in PythonInputs :
          question' = [kind |-> "python", in |-> in] /\ answer' = ResolvePython(in)

AskDotnet ==
    /\ question = None
    /\ \E in \in DotnetInputs :
          question' = [kind |-> "dotnet", in |-> in] /\ answer' = AdapterLaunch(in)

CatalogNext == AskLoad \/ AskPython \/ AskDotnet

CatalogSpec == CatalogInit /\ [][CatalogNext]_catalogVars

Asked(kind) == question # None /\ question.kind = kind

----------------------------------------------------------------------------
(***************************************************************************)
(* Properties.                                                             *)
(***************************************************************************)

\* "At most one per adapter name and one per language" (Registry), whatever
\* the user's files hold; every user file is loaded or told as a problem, and
\* nothing of a directory others may write is loaded; a bundled adapter is
\* only missing when a loaded one took its place; and one name never resolves
\* to two adapters.
RegistrySound ==
    Asked("load") =>
        LET user == question.user
            reg  == answer
        IN  /\ \A m, n \in reg.adapters : m # n => ~Conflict(m, n)
            /\ \A f \in UserFiles : user[f] # None /\ f \notin reg.problems
                   => user[f] \in reg.adapters
            /\ question.trusted \/ reg.adapters \subseteq question.bundled
            /\ \A m \in question.bundled : m \notin reg.adapters =>
                   ~Admits(m) \/ \E f \in UserFiles \ reg.problems :
                                    user[f] \in reg.adapters /\ Conflict(m, user[f])
            /\ \A s \in Names \cup Langs : Cardinality(Resolve(reg, s)) <= 1

\* A choice somebody made is used or refused, never passed over: the first of
\* option, variable, $VIRTUAL_ENV and project venv that is there decides, and
\* nothing unsafe is run; SharpDbg is taken unasked only where netcoredbg
\* serves dotnet and can not be had.
ChoiceKept ==
    /\ Asked("python") =>
          LET in == question.in
          IN  /\ in.option # "none" => answer.from = "option"
              /\ in.option = "none" /\ in.env # "none" => answer.from = "env"
              /\ answer.root # "error" =>
                    CASE answer.from = "option" -> Runs(in.option)
                      [] answer.from = "env" -> in.env = "new"
                      [] answer.from = "virtualenv" -> in.virtualEnv = "new"
                      [] answer.from = "venv" ->
                            /\ in.virtualEnv = "none"
                            /\ \E i \in 1..2 : in.venvs[i] = "new"
                                               /\ \A j \in 1..(i - 1) : in.venvs[j] = "none"
                      [] answer.from = "path" ->
                            /\ in.virtualEnv = "none" /\ \A i \in 1..2 : in.venvs[i] = "none"
                            /\ \E i \in 1..2 : Runs(in.path[i])
              /\ answer.root = "installed" => in.installed
    /\ Asked("dotnet") =>
          LET in == question.in
          IN  /\ in.pick # None => answer.adapter = in.pick
              /\ in.pick = None /\ answer.adapter = "sharp"
                    => /\ ~in.download /\ ~in.withheld
                       /\ in.serves = "native" /\ in.served = "missing"

\* The adapter a session gets is the one its files, options and environment
\* ask for, and there is exactly one such (Load, Resolve, ResolvePython).
AdapterChosen == RegistrySound /\ ChoiceKept
=============================================================================
