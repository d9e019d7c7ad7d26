---------------------------- MODULE Derivatives ----------------------------
(***************************************************************************)
(* Thumbnails on top of the library: Importer.RebuildDerivatives replaces  *)
(* an asset's thumbnail by one of the next generation, under the exclusive *)
(* lock; thumbs.Service renders further sizes when they are first asked    *)
(* for, under no lock at all, and clients keep what a versioned URL gave   *)
(* them for ever.                                                          *)
(*                                                                         *)
(* One size of a thumbnail stands for the lazily rendered ones; previews   *)
(* and posters are rebuilt like the thumbnail.                             *)
(***************************************************************************)
EXTENDS Library

CONSTANT
  RebuildFaults   \* what may go wrong in a rebuild

ASSUME DerivativesAssumption ==
  RebuildFaults \subseteq {"encode", "record", "commit", "die"}

VARIABLES
  rebuild,   \* the rebuild in progress
  asked,     \* sizes a request found missing, at the generation it read
  flight,    \* renders in progress: at most one for an asset and generation
  copies     \* a thumbnail that a client has cached since the library was last
             \* restored, with the URL's version

derivativeVars == <<rebuild, asked, flight, copies>>
derivativesVars == <<vars, derivativeVars>>

Variant(a, g) == [area |-> "variant", asset |-> a, gen |-> g]

OfKind(a, kind) == {p \in asset[a].tier : p.area = kind}

NoRebuild == [step |-> "none", of |-> {}, previous |-> {}]

DerivativesTypeOK ==
  /\ LibraryTypeOK
  /\ rebuild \in [step: {"none", "write", "record", "commit", "list", "clean"},
                  of: SUBSET Asset, previous: SUBSET Path]
  /\ asked \subseteq Asset \X Generation
  /\ flight \in [Asset \X Generation -> {"none", "write", "record"}]
  /\ copies \subseteq [asset: Asset, version: Generation, content: Generation]
  /\ \A a \in Asset, kind \in Area : Cardinality(OfKind(a, kind)) <= 1

DerivativesInit ==
  /\ LibraryInit
  /\ rebuild = NoRebuild
  /\ asked = {} /\ copies = {}
  /\ flight = [k \in Asset \X Generation |-> "none"]

libraryRest == <<intents, now, janitor, readers>>
renderVars == <<asked, flight, copies>>

-----------------------------------------------------------------------------
(* RebuildDerivatives.                                                     *)

Step(step) == rebuild' = [rebuild EXCEPT !.step = step]

BeginRebuild(a) ==
  /\ LockExclusive
  /\ asset[a].status = "live" /\ Original(a) \in files
  /\ asset[a].gen < MaxGeneration
  /\ writer' = [FreeWriter EXCEPT !.pc = "rebuild"]
  /\ rebuild' = [step |-> "write", of |-> {a}, previous |-> asset[a].tier]
  /\ UNCHANGED <<asset, files, libraryRest, renderVars>>

\* createThumbnail: Store.Write refuses a path that exists, whoever wrote it.
NewThumb(a) == Thumb(a, asset[a].gen + 1)

RebuildWrite(a) ==
  /\ rebuild.step = "write" /\ a \in rebuild.of
  /\ NewThumb(a) \notin files
  /\ files' = files \cup {NewThumb(a)}
  /\ Step("record")
  /\ UNCHANGED <<asset, writer, libraryRest, renderVars>>

\* An error of createThumbnail, its upsert after the file is written included, is
\* noted, and the generation advances anyway, over the row of the older file.
RebuildSkips(a) ==
  /\ a \in rebuild.of
  /\ \/ rebuild.step = "write" /\ ("encode" \in RebuildFaults \/ NewThumb(a) \in files)
     \/ rebuild.step = "record" /\ "record" \in RebuildFaults
  /\ Step("commit")
  /\ UNCHANGED <<asset, files, writer, libraryRest, renderVars>>

RebuildRecord(a) ==
  /\ rebuild.step = "record" /\ a \in rebuild.of
  /\ asset' = [asset EXCEPT ![a] = WithTier(asset[a], NewThumb(a))]
  /\ Step("commit")
  /\ UNCHANGED <<files, writer, libraryRest, renderVars>>

\* commitGeneration.
NextGeneration(r) ==
  [r EXCEPT !.gen = r.gen + 1,
            !.tier = {p \in r.tier : p.area = "variant" => p.gen > r.gen}]

RebuildCommit(a) ==
  /\ rebuild.step = "commit" /\ a \in rebuild.of
  /\ asset' = [asset EXCEPT ![a] = NextGeneration(asset[a])]
  /\ Step("list")
  /\ UNCHANGED <<files, writer, libraryRest, renderVars>>

\* Wrong: whatever was there before the rebuild is removed.
RebuildListAll(a) ==
  /\ rebuild.step = "list" /\ a \in rebuild.of
  /\ Step("clean")
  /\ UNCHANGED <<asset, files, writer, libraryRest, renderVars>>

RebuildList(a) ==
  /\ rebuild.step = "list" /\ a \in rebuild.of
  /\ rebuild' = [rebuild EXCEPT !.step = "clean",
                   !.previous = rebuild.previous \ asset[a].tier]
  /\ UNCHANGED <<asset, files, writer, libraryRest, renderVars>>

\* Best effort: a removal that fails is not tried again.
RebuildRemove(p) ==
  /\ rebuild.step = "clean" /\ p \in rebuild.previous
  /\ files' \in {files, files \ {p}}
  /\ rebuild' = [rebuild EXCEPT !.previous = rebuild.previous \ {p}]
  /\ UNCHANGED <<asset, writer, libraryRest, renderVars>>

Release == writer' = FreeWriter /\ rebuild' = NoRebuild

RebuildEnds ==
  /\ rebuild.step = "clean" /\ rebuild.previous = {}
  /\ Release
  /\ UNCHANGED <<asset, files, libraryRest, renderVars>>

\* A failed commit returns at once, and so does a failed listing.
RebuildFails ==
  /\ \/ "commit" \in RebuildFaults /\ rebuild.step \in {"commit", "list"}
     \/ "die" \in RebuildFaults /\ rebuild.step # "none"
  /\ Release
  /\ UNCHANGED <<asset, files, libraryRest, renderVars>>

-----------------------------------------------------------------------------
(* thumbs.Service.                                                         *)

rebuildRest == <<libraryRest, writer, rebuild>>

\* The medium size is the thumbnail itself, under the version of the row.  One
\* copy, of any request, stands for all that clients hold.
ServeThumb(a) ==
  /\ asset[a].status = "live" /\ copies = {}
  /\ \E p \in OfKind(a, "thumb") \cap files :
       copies' = {[asset |-> a, version |-> asset[a].gen, content |-> p.gen]}
  /\ UNCHANGED <<asset, files, rebuildRest, asked, flight>>

\* Get found no variant of the row's generation.
Missing(a) == OfKind(a, "thumb") # {} /\ Variant(a, asset[a].gen) \notin asset[a].tier

Ask(a) ==
  /\ asset[a].status = "live" /\ Missing(a)
  /\ asked' = asked \cup {<<a, asset[a].gen>>}
  /\ UNCHANGED <<asset, files, rebuildRest, flight, copies>>

\* render reads the row again, and then the original; what Get read of the
\* generation stays, however late this is.
BeginFlight(a, g) ==
  /\ <<a, g>> \in asked /\ flight[<<a, g>>] = "none"
  /\ asked' = asked \ {<<a, g>>}
  /\ flight' = [flight EXCEPT ![<<a, g>>] =
       IF /\ asset[a].status = "live"
          /\ asset[a].gen = g => Missing(a)
          /\ Original(a) \in files
       THEN "write" ELSE "none"]
  /\ UNCHANGED <<asset, files, rebuildRest, copies>>

\* A file that is there already is taken for this one.
WriteVariant(a, g) ==
  /\ flight[<<a, g>>] = "write"
  /\ files' = files \cup {Variant(a, g)}
  /\ flight' = [flight EXCEPT ![<<a, g>>] = "record"]
  /\ UNCHANGED <<asset, rebuildRest, asked, copies>>

\* Wrong: the last render to end wins.
NewerAlways(a, g) == TRUE

\* upsertVariant: the row must still exist, and an older render loses.
Newer(a, g) == \A p \in OfKind(a, "variant") : g >= p.gen

RecordVariant(a, g) ==
  /\ flight[<<a, g>>] = "record"
  /\ asset' = IF InCatalog(asset[a]) /\ Newer(a, g)
              THEN [asset EXCEPT ![a] = WithTier(asset[a], Variant(a, g))]
              ELSE asset
  /\ flight' = [flight EXCEPT ![<<a, g>>] = "none"]
  /\ UNCHANGED <<files, rebuildRest, asked, copies>>

\* The timeout of a flight, an error, or the death of the server.
FlightFails(a, g) ==
  /\ flight[<<a, g>>] # "none"
  /\ flight' = [flight EXCEPT ![<<a, g>>] = "none"]
  /\ UNCHANGED <<asset, files, rebuildRest, asked, copies>>

-----------------------------------------------------------------------------
Rebuilding ==
  \/ RebuildEnds \/ RebuildFails \/ \E p \in Path : RebuildRemove(p)
  \/ \E a \in Asset : \/ BeginRebuild(a) \/ RebuildWrite(a) \/ RebuildSkips(a)
                      \/ RebuildRecord(a) \/ RebuildCommit(a) \/ RebuildList(a)

Rendering ==
  \E a \in Asset :
    \/ ServeThumb(a) \/ Ask(a)
    \/ \E g \in Generation : \/ BeginFlight(a, g) \/ WriteVariant(a, g)
                             \/ RecordVariant(a, g) \/ FlightFails(a, g)

\* An archive is restored with the server stopped: its renders are gone.  What
\* clients hold of the lost library is not followed any further.
Restarted ==
  /\ asked' = {} /\ copies' = {}
  /\ flight' = [k \in Asset \X Generation |-> "none"]
  /\ UNCHANGED rebuild

DerivativesNext ==
  \/ Rebuilding \/ Rendering
  \/ LibraryNext /\ IF RestoreArchive THEN Restarted ELSE UNCHANGED derivativeVars

DerivativesSpec == DerivativesInit /\ [][DerivativesNext]_derivativesVars

-----------------------------------------------------------------------------
(* Properties.                                                             *)

\* What the service would serve of a live row is on disk, while rebuilds,
\* purges and late renders run beside it.
Servable(r) == {p \in r.tier : p.area = "thumb" \/ p.gen = r.gen}

ServableHasFile ==
  \A a \in Asset : asset[a].status = "live" => Servable(asset[a]) \subseteq files

\* A render of an older generation that ends late does not replace the row of
\* a newer one; only an older archive does.
LateRenderLoses ==
  [][~RestoreArchive =>
       \A a \in Asset :
         \A p \in OfKind(a, "variant"), q \in OfKind(a, "variant")' :
           q.gen >= p.gen]_derivativesVars

StaleCopy(a) ==
  LET r == asset[a] IN
    r.status = "live" /\ \E c \in copies :
      c.asset = a /\ c.version = r.gen /\ Thumb(a, c.content) \notin r.tier

\* A client never holds a stale copy under a live URL: unless a rebuild is at
\* it, what was cached under the row's version is what the row names.
NoStaleCopy == rebuild.step = "none" => \A a \in Asset : ~StaleCopy(a)

\* A rebuild that has committed its generation leaves no stale copy under the
\* asset's URL, also where an earlier one that failed had left some.  A copy is
\* stale when the row names another file: where the new thumbnail has failed, the
\* older one is what the row names, and is served under the new version.
CommitRefreshes ==
  rebuild.step \in {"list", "clean"} => \A a \in rebuild.of : ~StaleCopy(a)

\* Both: what is served is there, and once a rebuild has committed, what clients
\* keep under the version of the row is what the row names.
ServedIsRight == ServableHasFile /\ CommitRefreshes

\* Once its renders have ended, no derivative of a purged asset is left on disk
\* but those still to be removed.
DerivativesErased ==
  \A p \in files :
    (asset[p.asset].status = "purged" /\ \A g \in Generation : flight[<<p.asset, g>>] = "none")
      => p \in intents
=============================================================================
