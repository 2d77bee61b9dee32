------------------------------ MODULE DcpLoad -------------------------------
(***************************************************************************)
(* DcpPipeline from the documents on: the caller reads the asset map, the  *)
(* packing list and, if the package has one, the composition playlist of   *)
(* each package, gives up as soon as one of them is refused, and passes    *)
(* what was parsed to resolve and apply. The packages of a supplemental    *)
(* are read when resolve has returned. A caller may compare a packing list *)
(* with its asset map, too; resolve does not ask for it.                   *)
(***************************************************************************)
EXTENDS DcpPipeline, DcpDocuments

CONSTANT Dcps    \* sets of shows that are told by documents, see Dcp

-----------------------------------------------------------------------------
(* What is loaded                                                           *)

Dcp(composition_id, packages, merge_packages, merge_policies) ==
  [composition_id |-> composition_id, packages |-> packages, merge_packages |-> merge_packages,
   policies |-> merge_policies]

ASSUME DocumentsAssumption ==
  \A group \in Dcps : \A dcp \in group :
    /\ dcp \in [composition_id : Uuid, packages : Seq(Elements(dcp.packages)),
                merge_packages : Seq(Elements(dcp.merge_packages)), policies : Seq(Merge!MergePolicy)]
    /\ \A package \in Elements(dcp.packages) \cup Elements(dcp.merge_packages) : IsPackage(package)

VARIABLES
  files,      \* the packages that are still to be read, as documents
  parsed,     \* what the last step has parsed, or None
  checked,    \* every package was read from documents and compared
  aborted     \* a package was refused

load_vars == <<vars, files, parsed, checked, aborted>>

-----------------------------------------------------------------------------
(* Packages *)

Accepted(read) ==
  /\ Got(read.packing_list)
  /\ read.files.cpl # None => Got(read.playlist)
  /\ read.files.compared =>
       PackingLists!ValidateAgainstAssetMap(read.packing_list.value, read.asset_map.value) = {}

Entry(assets, id) ==
  LET at == {i \in DOMAIN assets : assets[i].asset_id = id}
  IN IF at = {} THEN None ELSE assets[CHOOSE i \in at : TRUE]

\* What resolve and apply see of an accepted package.
PackageOf(loaded) ==
  LET Listed(id) == Entry(loaded.packing_list.value.assets, id)
      Mapped(id) == Entry(loaded.asset_map.value.assets, id)
  IN [pkl_id  |-> loaded.packing_list.value.pkl_id,
      pkl     |-> [u \in Uuid |-> IF Listed(u) = None THEN None ELSE Listed(u).asset_type],
      backing |-> [u \in Uuid |-> IF Mapped(u) = None THEN None ELSE Mapped(u).chunk_list[1].path],
      cpls    |-> [u \in Uuid |-> IF loaded.playlist # None /\ loaded.playlist.value.composition_id = u
                                  THEN loaded.playlist.value.reels ELSE None]]

-----------------------------------------------------------------------------
(* Behaviour *)

LoadInit ==
  /\ \/ /\ show \in Shows
        /\ files = [packages |-> <<>>, merge_packages |-> <<>>] /\ checked = FALSE
     \/ \E group \in Dcps : \E dcp \in group :
          /\ show = [dcp EXCEPT !.packages = <<>>, !.merge_packages = <<>>]
          /\ files = [packages |-> dcp.packages, merge_packages |-> dcp.merge_packages] /\ checked = TRUE
  /\ Start
  /\ parsed = None /\ aborted = FALSE

\* load_package. A package that is refused ends the program.
Load(package) ==
  /\ parsed' = Parse(package)
  /\ aborted' = ~Accepted(parsed')
  /\ checked' = (checked /\ package.compared)

AppendLoaded(packages) == IF aborted' THEN packages ELSE Append(packages, PackageOf(parsed'))

LoadPackage ==
  /\ ~aborted /\ files.packages # <<>>
  /\ Load(Head(files.packages))
  /\ files' = [files EXCEPT !.packages = Tail(@)]
  /\ show' = [show EXCEPT !.packages = AppendLoaded(@)]
  /\ r_request' = [r_request EXCEPT !.packages = show'.packages]
  /\ UNCHANGED <<stage, r_pc, origin, resolved_reels, source_packages, missing_assets,
                 uses_external_dependency, has_broken_dependency, r_diagnostics, r_graph,
                 merge_vars, timeline_vars>>

\* The packages of the policies are read after resolve, before apply.
ReadyToMerge ==
  /\ stage = "resolve" /\ r_pc = "done" /\ r_graph # None
  /\ show.policies # <<>> /\ files.merge_packages # <<>>

LoadMergePackage ==
  /\ ~aborted /\ ReadyToMerge
  /\ Load(Head(files.merge_packages))
  /\ files' = [files EXCEPT !.merge_packages = Tail(@)]
  /\ show' = [show EXCEPT !.merge_packages = AppendLoaded(@)]
  /\ UNCHANGED <<stage, resolver_vars, merge_vars, timeline_vars>>

\* resolve, apply and build, as soon as their packages are read.
Run ==
  /\ ~aborted /\ files.packages = <<>> /\ ~ReadyToMerge
  /\ Next
  /\ parsed' = None
  /\ UNCHANGED <<files, checked, aborted>>

LoadNext == LoadPackage \/ LoadMergePackage \/ Run

LoadSpec == LoadInit /\ [][LoadNext]_load_vars /\ WF_load_vars(LoadNext)

-----------------------------------------------------------------------------
(* Properties *)

\* The reader of the parsers refuses a document exactly if it is not
\* well-formed: with a tag left open or closed under another name, something
\* after the end, or a text that cannot be decoded, and whatever it has skipped.
ReaderAcceptsTheMarkup ==
  parsed # None =>
    LET Told(result, tokens) ==
          result # None =>
            (~Legality!WellFormed(tokens) <=> \E d \in result.diagnostics : d.code = "xml_malformed")
    IN /\ Told(parsed.asset_map, parsed.files.assetmap)
       /\ Told(parsed.packing_list, parsed.files.pkl)
       /\ Told(parsed.playlist, parsed.files.cpl)

\* The three parse functions accept a document exactly if it is legal by the
\* object specifications: each diagnostic that is an error is one of them and no
\* condition is left to another member. An accepted asset map leads, for each
\* chunk, to the file that a walk along the written path ends at.
LoadedIffLegal ==
  parsed # None =>
    LET Agrees(result, root, Legal(_)) == result # None => (result.value # None <=> root # Xml!NoNode /\ Legal(root))
    IN /\ Agrees(parsed.asset_map, RootOf(parsed.files.assetmap), Legality!LegalAssetMap)
       /\ Agrees(parsed.packing_list, RootOf(parsed.files.pkl), Legality!LegalPackingList)
       /\ Agrees(parsed.playlist, RootOf(parsed.files.cpl), Legality!LegalCpl)
       /\ parsed.asset_map.value # None =>
            Legality!PathsAreKept(parsed.asset_map.value, RootOf(parsed.files.assetmap))

\* Each diagnostic of the three parse functions about a document that can be
\* read leads, by its path, to the node that it complains of, or to the node in
\* which one is missing; a list of several items is entered at the right one.
DiagnosticsPointIntoTheDocument ==
  parsed # None =>
    LET Leads(result, root, name) ==
          result # None /\ root # Xml!NoNode /\ root.name[2] = name =>
            \A d \in result.diagnostics : Legality!TellsOf(d, root)
    IN /\ Leads(parsed.asset_map, RootOf(parsed.files.assetmap), "AssetMap")
       /\ Leads(parsed.packing_list, RootOf(parsed.files.pkl), "PackingList")
       /\ Leads(parsed.playlist, RootOf(parsed.files.cpl), "CompositionPlaylist")

\* If the caller has compared every packing list with its asset map, resolve can
\* find a reference broken only because a package lists the asset under another
\* type than that of a track file: what is listed is backed.
CheckedPackagesAreBacked ==
  checked /\ (\E d \in r_diagnostics : d.code = "ov_vf.broken_reference") =>
    \E i \in DOMAIN show.packages : \E u \in Uuid :
      /\ show.packages[i].pkl[u] \notin {None, "track_file"}
      /\ \E k \in DOMAIN Resolver!CompositionReels : \E l \in Present(Resolver!CompositionReels[k].refs) :
           Resolver!CompositionReels[k].refs[l].asset_id = u
=============================================================================
