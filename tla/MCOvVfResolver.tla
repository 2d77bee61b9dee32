-------------------------- MODULE MCOvVfResolver --------------------------
(***************************************************************************)
(* Requests for OvVfResolver: three packages, two of which may share a     *)
(* pkl_id, every way each of them can list and back the first asset, the   *)
(* cases that differ for the second one, and a CPL that is owned, stray or *)
(* owned twice.                                                            *)
(***************************************************************************)
EXTENDS OvVfResolver

CONSTANTS cpl, a1, a2, p1, p2, p3, r1, r2, path, rate

MCUuid == {cpl, a1, a2}
MCPklId == {p1, p2, p3}
MCReelId == {r1, r2}
MCRate == {rate}
MCPath == {path}

Ref(a) == [asset_id |-> a, edit_rate |-> rate]

Lanes(picture, sound, subtitle) ==
  [l \in Lane |-> CASE l = "picture" -> picture [] l = "sound" -> sound [] l = "subtitle" -> subtitle]

\* Two shapes of composition: one reel with two lanes, or two reels.
Compositions ==
  {<<[reel_id |-> r1, refs |-> Lanes(Ref(a1), Ref(a2), None)]>>,
   <<[reel_id |-> r1, refs |-> Lanes(None, Ref(a1), None)],
     [reel_id |-> r2, refs |-> Lanes(Ref(a1), None, Ref(a2))]>>}

\* How a package knows an id: not at all, listed with the wrong type, listed
\* without backing, or backed. status maps each id to one of these.
MakePackage(id, reels, status) ==
  [pkl_id  |-> id,
   pkl     |-> [u \in Uuid |->
                  CASE status[u] = "absent" -> None
                    [] status[u] = "wrong_type" -> "unknown"
                    [] OTHER -> IF u = cpl THEN "composition_playlist" ELSE "track_file"],
   backing |-> [u \in Uuid |-> IF status[u] \in {"backed", "wrong_type"} THEN path ELSE None],
   cpls    |-> [u \in Uuid |-> IF u = cpl /\ status[u] # "absent" THEN reels ELSE None]]

PklIds == {<<p1, p2, p3>>, <<p1, p2, p2>>, <<p1, p1, p2>>, <<p2, p1, p1>>}

Ownerships == {<<"backed", "absent", "absent">>, <<"absent", "backed", "unbacked">>,
               <<"backed", "backed", "absent">>, <<"wrong_type", "absent", "unbacked">>}

\* The second asset: local, external, twice external, broken here or there, missing.
SecondAsset == {<<"backed", "backed", "absent">>, <<"absent", "backed", "absent">>,
                <<"absent", "backed", "backed">>, <<"wrong_type", "backed", "absent">>,
                <<"absent", "unbacked", "absent">>, <<"absent", "absent", "absent">>}

MCRequests ==
  {[composition_id |-> cpl,
    packages |-> [i \in 1 .. 3 |->
      MakePackage(ids[i], reels,
                  [u \in Uuid |-> CASE u = cpl -> own[i] [] u = a1 -> s1[i] [] u = a2 -> s2[i]])]] :
     ids \in PklIds, reels \in Compositions, own \in Ownerships,
     s1 \in [1 .. 3 -> {"absent", "wrong_type", "unbacked", "backed"}],
     s2 \in SecondAsset}
=============================================================================
