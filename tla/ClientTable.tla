----------------------------- MODULE ClientTable -----------------------------
(***************************************************************************)
(* The account table of the older page (main.jsx): the accounts are loaded *)
(* from the shared table at Supabase, or from the browser's stores, are     *)
(* logged in one after the other, edited by row number, and saved by        *)
(* deleting all rows and inserting the page's (routes/accounts.js).         *)
(***************************************************************************)
EXTENDS Naturals, FiniteSets, SequencesExt

CONSTANTS
  Codes,          \* the accounts
  Example,        \* what the rows of defaultClients are called
  SharedTables,   \* what the shared table may hold at first: sequences of <<code, enabled>>
  BrowserStores,  \* what the browser may have stored at first: rows, sessions and all
  Runs, MaxRows, MaxEdits, MaxSaves    \* bounds: logins of all rows, rows, edits, saves

ASSUME ClientAssumption ==
  /\ Example \notin Codes /\ {MaxRows, MaxEdits, MaxSaves} \subseteq Nat
  /\ SharedTables \subseteq Seq(Codes \X BOOLEAN)
  /\ BrowserStores \subseteq Seq(Codes \X BOOLEAN \X BOOLEAN)

VARIABLES
  clients,     \* the rows: <<code, enabled, logged in>>
  ticked,      \* selectedRows, by number
  mountLoad,   \* where the load of the opening page has got to
  hydrated, supabaseLoaded, autoLoginFired,
  loginRuns,   \* each run of runAutoLogin with its loginClients and the rows to come
  logouts,     \* the rows whose logout is under way
  saves,       \* the saves under way
  shared,      \* the table at Supabase
  browserStore,      \* the browser's store
  owed,        \* history: the accounts enabled at Supabase, with no row ticked, since the page
               \* opened for which no login was requested yet
  edits        \* bound: edits and presses so far

clientTableVars == <<clients, ticked, mountLoad, hydrated, supabaseLoaded, autoLoginFired,
                     loginRuns, logouts, saves, shared, browserStore, owed, edits>>

IdleRun == [at |-> "idle"]
Off(table) == [i \in DOMAIN table |-> <<table[i][1], table[i][2], FALSE>>]
accountPayloads(table) == [i \in DOMAIN table |-> <<table[i][1], table[i][2]>>]
EnabledIn(table) == {table[i][1] : i \in {j \in DOMAIN table : table[j][2]}}
defaultClients == <<<<Example, TRUE, FALSE>>, <<Example, TRUE, FALSE>>>>

ClientTableInit ==
  /\ clients = defaultClients /\ ticked = {} /\ mountLoad = "supabase"
  /\ hydrated = FALSE /\ supabaseLoaded = FALSE /\ autoLoginFired = FALSE
  /\ loginRuns = [r \in Runs |-> IdleRun] /\ logouts = {} /\ saves = {}
  /\ shared \in SharedTables /\ browserStore \in BrowserStores /\ owed = EnabledIn(shared) /\ edits = 0

-----------------------------------------------------------------------------
(* What a change of the rows brings about *)

SomeEnabled(table) == EnabledIn(table) # {}
\* The flag of the automatic login, after the effect has seen a table.
FiredOnSeeds(table, loaded) ==       \* fault: the flag is raised before the source is asked
  autoLoginFired \/ SomeEnabled(table)
FiredAfter(table, loaded) == autoLoginFired \/ (loaded /\ SomeEnabled(table))
FiresNow(table, loaded) == ~autoLoginFired /\ FiredAfter(table, loaded) /\ loaded

\* The rows become table: they are stored unless the first load is still to come, and
\* the automatic login starts at the first table from Supabase.  "runs" and "ticks" are
\* the runs and the ticked rows after the step that changes the rows.
RowsBecome(table, ticks, runs, loaded, ready) ==
  /\ clients' = table
  /\ supabaseLoaded' = loaded /\ hydrated' = ready
  /\ browserStore' = IF ready THEN table ELSE browserStore
  /\ autoLoginFired' = FiredAfter(table, loaded)
  /\ IF FiresNow(table, loaded)
     THEN \E r \in {x \in Runs : runs[x].at = "idle"} :
            loginRuns' = [runs EXCEPT ![r] = [at |-> "reload", of |-> table, ticks |-> ticks]]
     ELSE loginRuns' = runs

\* setClients outside a run and after the load, by the user.
RowsEdited(table, ticks) == RowsBecome(table, ticks, loginRuns, supabaseLoaded, hydrated)

\* The opening page's load: Supabase, else the browser's store, an older one or, when
\* reading fails, nothing.
MountAnswered ==
  /\ mountLoad = "supabase" /\ shared # << >>
  /\ mountLoad' = "done" /\ RowsBecome(Off(shared), ticked, loginRuns, TRUE, TRUE)
  /\ UNCHANGED <<ticked, logouts, saves, shared, owed, edits>>
MountFailed ==
  /\ mountLoad = "supabase" /\ mountLoad' = "browser"
  /\ UNCHANGED <<clients, ticked, hydrated, supabaseLoaded, autoLoginFired, loginRuns,
                 logouts, saves, shared, browserStore, owed, edits>>
MountFromBrowser ==
  /\ mountLoad = "browser" /\ mountLoad' = "done"
  /\ \E found \in {browserStore, << >>} :
       IF found # << >> THEN RowsBecome(found, ticked, loginRuns, supabaseLoaded, TRUE)
       ELSE /\ hydrated' = TRUE
            /\ UNCHANGED <<clients, supabaseLoaded, autoLoginFired, loginRuns, browserStore>>
  /\ UNCHANGED <<ticked, logouts, saves, shared, owed, edits>>

-----------------------------------------------------------------------------
(* runAutoLogin *)

\* A second run may be needed by the effect, so the button leaves one free until then.
PressAutoLogin(r) ==
  /\ edits < MaxEdits /\ edits' = edits + 1 /\ loginRuns[r].at = "idle"
  /\ autoLoginFired \/ \E x \in Runs \ {r} : loginRuns[x].at = "idle"
  /\ loginRuns' = [loginRuns EXCEPT ![r] = [at |-> "reload", of |-> clients, ticks |-> ticked]]
  /\ UNCHANGED <<clients, ticked, mountLoad, hydrated, supabaseLoaded, autoLoginFired,
                 logouts, saves, shared, browserStore, owed>>

\* The ticked rows, or else all that are enabled; rows logged in already are passed over.
Targets(table, ticks) ==
  {i \in DOMAIN table : table[i][2] /\ ~table[i][3] /\ (ticks = {} \/ i \in ticks)}
\* A patch of a row by number, whatever row has the number by now.
updateClient(table, i, in) ==
  IF i \in DOMAIN table THEN [table EXCEPT ![i] = <<@[1], @[2], in>>] ELSE table

\* The loop goes on with its next row: the row reads "Logging in..." and the broker is asked.
LoginNext(r, of, todo, table, loaded) ==
  IF todo = {}
  THEN /\ RowsBecome(table, ticked, [loginRuns EXCEPT ![r] = IdleRun], loaded, hydrated)
       /\ owed' = owed
  ELSE /\ RowsBecome(updateClient(table, Min(todo), FALSE), ticked,
                     [loginRuns EXCEPT ![r] = [at |-> "login", of |-> of, todo |-> todo]],
                     loaded, hydrated)
       /\ owed' = owed \ {of[Min(todo)][1]}

\* The table is read again; a failure, or no rows, leave the run with the rows it saw.
Reloads(r) ==
  /\ loginRuns[r].at = "reload" /\ shared # << >>
  /\ LoginNext(r, Off(shared), Targets(Off(shared), loginRuns[r].ticks), Off(shared), TRUE)
  /\ UNCHANGED <<ticked, mountLoad, logouts, saves, shared, edits>>
ReloadFails(r) ==
  /\ loginRuns[r].at = "reload"
  /\ LET todo == Targets(loginRuns[r].of, loginRuns[r].ticks)
     IN  IF todo # {} THEN LoginNext(r, loginRuns[r].of, todo, clients, supabaseLoaded)
         ELSE /\ loginRuns' = [loginRuns EXCEPT ![r] = IdleRun]
              /\ UNCHANGED <<clients, hydrated, supabaseLoaded, autoLoginFired, browserStore, owed>>
  /\ UNCHANGED <<ticked, mountLoad, logouts, saves, shared, edits>>

\* How a login can end: logged in or not, and only Nubra's may set up a secret on the way.
LoginOutcomes == {<<FALSE, FALSE>>, <<TRUE, FALSE>>, <<TRUE, TRUE>>}

\* The login of a row ends.  One that has set up a secret saves the run's rows to the
\* shared table.
LoginEnds(r, in, setup) ==
  /\ loginRuns[r].at = "login" /\ <<in, setup>> \in LoginOutcomes
  /\ LET row == Min(loginRuns[r].todo) IN
     LoginNext(r, loginRuns[r].of, loginRuns[r].todo \ {row},
               updateClient(clients, row, in), supabaseLoaded)
  /\ IF setup /\ supabaseLoaded
     THEN /\ Cardinality(saves) < MaxSaves
          /\ saves' = saves \cup {[at |-> "delete", of |-> accountPayloads(loginRuns[r].of)]}
     ELSE saves' = saves
  /\ UNCHANGED <<ticked, mountLoad, logouts, shared, edits>>

-----------------------------------------------------------------------------
(* The user *)

AddRow ==
  /\ edits < MaxEdits /\ edits' = edits + 1 /\ Len(clients) < MaxRows
  /\ RowsEdited(Append(clients, <<Example, TRUE, FALSE>>), ticked)
  /\ UNCHANGED <<ticked, mountLoad, logouts, saves, shared, owed>>
\* The rows after the deleted one move up, with their ticks.
DeleteClient(i) ==
  /\ edits < MaxEdits /\ edits' = edits + 1 /\ i \in DOMAIN clients
  /\ ticked' = {j \in ticked : j < i} \cup {j - 1 : j \in {k \in ticked : k > i}}
  /\ RowsEdited(RemoveAt(clients, i), ticked')
  /\ UNCHANGED <<mountLoad, logouts, saves, shared, owed>>
EditClient(i, code, on) ==
  /\ edits < MaxEdits /\ edits' = edits + 1 /\ i \in DOMAIN clients
  /\ RowsEdited([clients EXCEPT ![i] = <<code, on, @[3]>>], ticked)
  /\ UNCHANGED <<ticked, mountLoad, logouts, saves, shared, owed>>
ToggleTick(i) ==
  /\ edits < MaxEdits /\ edits' = edits + 1 /\ i \in DOMAIN clients
  /\ ticked' = IF i \in ticked THEN ticked \ {i} ELSE ticked \cup {i}
  /\ owed' = {}
  /\ UNCHANGED <<clients, mountLoad, hydrated, supabaseLoaded, autoLoginFired, loginRuns,
                 logouts, saves, shared, browserStore>>
LogoutClient(i) ==
  /\ edits < MaxEdits /\ edits' = edits + 1 /\ i \in DOMAIN clients
  /\ logouts' = logouts \cup {i}
  /\ UNCHANGED <<clients, ticked, mountLoad, hydrated, supabaseLoaded, autoLoginFired,
                 loginRuns, saves, shared, browserStore, owed>>
LogoutEnds(i) ==
  /\ i \in logouts /\ logouts' = logouts \ {i}
  /\ RowsEdited(updateClient(clients, i, FALSE), ticked)
  /\ UNCHANGED <<ticked, mountLoad, saves, shared, owed, edits>>
SaveToSupabase ==
  /\ edits < MaxEdits /\ edits' = edits + 1 /\ Cardinality(saves) < MaxSaves
  /\ saves' = saves \cup {[at |-> "delete", of |-> accountPayloads(clients)]}
  /\ UNCHANGED <<clients, ticked, mountLoad, hydrated, supabaseLoaded, autoLoginFired,
                 loginRuns, logouts, shared, browserStore, owed>>

-----------------------------------------------------------------------------
(* replaceAccounts: delete and insert are two requests *)

RowsDeleted(s) ==
  /\ s \in saves /\ s.at = "delete" /\ shared' = << >> /\ owed' = {}
  /\ saves' = (saves \ {s}) \cup IF s.of = << >> THEN {} ELSE {[s EXCEPT !.at = "insert"]}
  /\ UNCHANGED <<clients, ticked, mountLoad, hydrated, supabaseLoaded, autoLoginFired,
                 loginRuns, logouts, browserStore, edits>>
RowsInserted(s) ==
  /\ s \in saves /\ s.at = "insert" /\ shared' = shared \o s.of /\ saves' = saves \ {s}
  /\ UNCHANGED <<clients, ticked, mountLoad, hydrated, supabaseLoaded, autoLoginFired,
                 loginRuns, logouts, browserStore, owed, edits>>
SaveFails(s) ==
  /\ s \in saves /\ saves' = saves \ {s}
  /\ UNCHANGED <<clients, ticked, mountLoad, hydrated, supabaseLoaded, autoLoginFired,
                 loginRuns, logouts, shared, browserStore, owed, edits>>

-----------------------------------------------------------------------------
MountEnds == MountAnswered \/ MountFailed \/ MountFromBrowser
RunGoesOn(r) == Reloads(r) \/ ReloadFails(r) \/ \E in \in BOOLEAN : LoginEnds(r, in, FALSE)
ClientTableNext ==
  \/ MountEnds
  \/ \E r \in Runs : PressAutoLogin(r) \/ RunGoesOn(r) \/ LoginEnds(r, TRUE, TRUE)
  \/ AddRow \/ SaveToSupabase
  \/ \E i \in 1 .. MaxRows : DeleteClient(i) \/ ToggleTick(i) \/ LogoutClient(i) \/ LogoutEnds(i)
  \/ \E i \in 1 .. MaxRows, code \in Codes, on \in BOOLEAN : EditClient(i, code, on)
  \/ \E s \in saves : RowsDeleted(s) \/ RowsInserted(s) \/ SaveFails(s)

\* Requests are answered, one way or the other.
ClientTableSpec == ClientTableInit /\ [][ClientTableNext]_clientTableVars
  /\ WF_clientTableVars(MountEnds) /\ \A r \in Runs : WF_clientTableVars(RunGoesOn(r))

\* "opening the app in the browser restores creds and logs in hands-free": once the page
\* has read the shared table and no run of logins is under way, a login was requested for
\* every account that has been enabled there throughout, whatever was pressed or edited
\* meanwhile, as long as no row was ticked.
LogsInHandsFree ==
  supabaseLoaded /\ (\A r \in Runs : loginRuns[r] = IdleRun) => owed = {}
=============================================================================
