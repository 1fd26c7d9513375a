------------------------ MODULE CameraRendererProofs ------------------------
(***************************************************************************)
(* For all headers, profiles and geometries, wherever renders break off:   *)
(* each picture shows the whole of what was asked for, and the renderer    *)
(* leaves no window behind.  The invariant says, for each place in the     *)
(* update and in the initialization, which parts of the window agree with  *)
(* the request by then; a part that a broken update left behind is always  *)
(* one that the next update replaces.                                      *)
(***************************************************************************)
EXTENDS CameraRenderer, TLAPS

Scene == [header : Headers, config : Configs, surface : Surfaces \cup {None},
          volume : Surfaces \cup {None}, chute : Inlets \cup {None}]

\* The one window, if there is one, is the renderer's.
Windows ==
  /\ opened \in Nat
  /\ \/ _plotter = None /\ window = [w \in {} |-> None]
     \/ _plotter \in 1 .. opened /\ window \in [{_plotter} -> Scene]

Updating == {"update", "update volume", "update chute"}
Building == {"add volume", "add surface", "add chute", "add lights"}

\* A scene that is the renderer's was built with its header and profile, and shows
\* sides only if it has the data for them.
Built ==
  /\ _header # None => /\ _plotter # None
                       /\ window[_plotter].header = _header
                       /\ window[_plotter].config = _config
  /\ _plotter # None /\ "volume" \notin data => window[_plotter].volume = None
  /\ pc \in {"open", "closed"} => _plotter = None /\ _header = None
  /\ pc \in Building => _plotter # None /\ _header = None
                        /\ window[_plotter].header = request.header
                        /\ window[_plotter].config = request.config

\* What the window shows of the request so far.
Agrees ==
  /\ pc \in Updating => /\ _header # None
                        /\ _header = request.header /\ _config = request.config
  /\ pc \in {"update volume", "update chute", "add chute", "add lights"} =>
       window[_plotter].surface = Faces(request.surface)
  /\ pc = "update volume" => ("volume" \in data <=> Sides(request.surface) # None)
  /\ pc \in {"update chute", "add surface", "add chute", "add lights"} =>
       window[_plotter].volume = Sides(request.surface)
  /\ pc = "add lights" => window[_plotter].chute = request.inlet
  /\ pc = "shown" => _plotter # None /\ window[_plotter] = Picture(request)

Typed ==
  /\ pc \in {"idle", "closed", "initialize", "open", "shown"} \cup Updating \cup Building
  /\ pc \notin {"idle", "closed"} => request \in Requests
  /\ _header \in Headers \cup {None} /\ _config \in Configs \cup {None}
  /\ data \subseteq {"surface", "volume", "chute"}

IInv == Typed /\ Windows /\ Built /\ Agrees /\ PictureIsRequested

-----------------------------------------------------------------------------

LEMMA PictureTyped ==
  ASSUME NEW r \in Requests
  PROVE  /\ r.header \in Headers /\ r.config \in Configs /\ r.inlet \in Inlets
         /\ Sides(r.surface) \in Surfaces \cup {None} /\ Faces(r.surface) \in Surfaces \cup {None}
         /\ None \notin Headers /\ None \notin Configs
         /\ Picture(r) \in Scene
BY NoneAssumption DEF Requests, Sides, Faces, Picture, Scene

LEMMA InitIInv == Init => IInv
BY DEF Init, IInv, Typed, Windows, Built, Agrees, PictureIsRequested, Updating, Building

LEMMA OpenWindows ==
  ASSUME IInv
  PROVE  /\ opened \in Nat /\ opened + 1 \in 1 .. opened + 1 /\ opened + 1 # None
         /\ _plotter = None => window = [w \in {} |-> None] /\ DOMAIN window = {}
         /\ _plotter # None => DOMAIN window = {_plotter}
<1>1. opened \in Nat /\ opened + 1 \in Nat /\ None \notin Nat
  BY NoneAssumption DEF IInv, Windows
<1>2. CASE _plotter = None
  <2>1. _plotter \notin 1 .. opened
    BY <1>1, <1>2
  <2>2. window = [w \in {} |-> None]
    BY <2>1 DEF IInv, Windows
  <2> QED BY <1>1, <1>2, <2>2
<1>3. CASE _plotter # None
  BY <1>1, <1>3 DEF IInv, Windows
<1> QED BY <1>2, <1>3

\* The window is closed and the scene forgotten.
LEMMA ForgetKeeps ==
  ASSUME IInv, Forget, window' = shut(_plotter), UNCHANGED <<opened, request>>,
         pc' \in {"idle", "closed"} \/ (pc' = "open" /\ request \in Requests),
         frame' = frame
  PROVE  IInv'
<1>1. window' = [w \in {} |-> None]
  <2>1. CASE _plotter = None
    BY <2>1, OpenWindows DEF shut
  <2>2. CASE _plotter # None
    <3>1. DOMAIN window = {_plotter}
      BY <2>2, OpenWindows
    <3>2. window' = [v \in {} |-> window[v]]
      BY <2>2, <3>1 DEF shut, Without
    <3>3. [v \in {} |-> window[v]] = [w \in {} |-> None]
      OBVIOUS
    <3> QED BY <3>2, <3>3
  <2> QED BY <2>1, <2>2
<1>2. Typed' /\ Windows'
  BY <1>1 DEF IInv, Typed, Windows, Forget
<1>3. Built' /\ Agrees'
  BY DEF Built, Agrees, Forget, Updating, Building
<1>4. PictureIsRequested'
  BY DEF IInv, PictureIsRequested, Picture, Sides, Faces
<1> QED BY <1>2, <1>3, <1>4 DEF IInv

\* A part of the scene in the renderer's window is replaced.
LEMMA ShowKeeps ==
  ASSUME IInv, _plotter # None,
         NEW value,
         NEW field \in {"surface", "volume", "chute"},
         value \in (IF field = "chute" THEN Inlets ELSE Surfaces) \cup {None},
         show(field, value), UNCHANGED <<_plotter, opened>>
  PROVE  /\ Windows'
         /\ window[_plotter]'.header = window[_plotter].header
         /\ window[_plotter]'.config = window[_plotter].config
         /\ window[_plotter]'.surface = IF field = "surface" THEN value ELSE window[_plotter].surface
         /\ window[_plotter]'.volume = IF field = "volume" THEN value ELSE window[_plotter].volume
         /\ window[_plotter]'.chute = IF field = "chute" THEN value ELSE window[_plotter].chute
<1>1. window \in [{_plotter} -> Scene] /\ _plotter \in 1 .. opened /\ opened \in Nat
  BY DEF IInv, Windows
<1>2. window[_plotter] \in Scene
  BY <1>1
<1> DEFINE scene == [window[_plotter] EXCEPT ![field] = value]
<1>3. window' = [window EXCEPT ![_plotter] = scene]
  BY DEF show
<1>4. scene \in Scene
      /\ scene.header = window[_plotter].header
      /\ scene.config = window[_plotter].config
      /\ scene.surface = (IF field = "surface" THEN value ELSE window[_plotter].surface)
      /\ scene.volume = (IF field = "volume" THEN value ELSE window[_plotter].volume)
      /\ scene.chute = (IF field = "chute" THEN value ELSE window[_plotter].chute)
  BY <1>2 DEF Scene
<1> HIDE DEF scene
<1>5. window'[_plotter] = scene /\ window' \in [{_plotter} -> Scene]
  BY <1>1, <1>3, <1>4
<1> QED BY <1>1, <1>4, <1>5 DEF Windows

\* The steps.
LEMMA NextIInv == IInv /\ [Next]_vars => IInv'
<1> SUFFICES ASSUME IInv, [Next]_vars PROVE IInv'
  OBVIOUS
<1> USE DEF Updating, Building
<1>1. PictureIsRequested /\ Typed /\ Windows /\ Built /\ Agrees
  BY DEF IInv
<1>2. None \notin Nat /\ opened \in Nat
  BY <1>1, NoneAssumption DEF Windows
<1>3. UNCHANGED frame => PictureIsRequested'
  BY <1>1 DEF PictureIsRequested, Picture, Sides, Faces
<1>4. _plotter # None => /\ _plotter \in 1 .. opened /\ window \in [{_plotter} -> Scene]
                         /\ window[_plotter] \in Scene
  BY <1>1 DEF Windows
<1>5. ASSUME request \in Requests
      PROVE  /\ Sides(request.surface) \in Surfaces \cup {None}
             /\ Faces(request.surface) \in Surfaces \cup {None}
             /\ request.inlet \in Inlets \cup {None}
             /\ request.header \in Headers /\ request.config \in Configs
  BY <1>5, PictureTyped
<1>6. CASE render
  <2>1. PICK r \in Requests :
          request' = r /\ pc' = IF same_scene(r) THEN "update" ELSE "initialize"
    BY <1>6 DEF render
  <2>2. UNCHANGED <<_plotter, _header, _config, data, window, opened, frame>>
    BY <1>6 DEF render
  <2>3. Typed' /\ Windows' /\ Built'
    BY <1>1, <2>1, <2>2 DEF Typed, Windows, Built
  <2>4. Agrees'
    <3>1. CASE same_scene(r)
      BY <1>1, <2>1, <2>2, <3>1, PictureTyped DEF Agrees, same_scene
    <3>2. CASE ~same_scene(r)
      BY <2>1, <2>2, <3>2 DEF Agrees
    <3> QED BY <3>1, <3>2
  <2> QED BY <1>3, <2>2, <2>3, <2>4 DEF IInv
<1>7. CASE UpdateSurface
  <2>1. /\ pc = "update" /\ request \in Requests /\ _plotter # None
        /\ UNCHANGED <<_plotter, _header, _config, data, opened, request, frame>>
    BY <1>1, <1>7 DEF UpdateSurface, Typed, Agrees, Built
  <2>2. CASE fits(request)
    <3>1. show("surface", Faces(request.surface)) /\ pc' = "update volume"
      BY <1>7, <2>2 DEF UpdateSurface
    <3>2. /\ Windows'
          /\ window[_plotter]'.header = window[_plotter].header
          /\ window[_plotter]'.config = window[_plotter].config
          /\ window[_plotter]'.surface = Faces(request.surface)
          /\ window[_plotter]'.volume = window[_plotter].volume
      BY <1>5, <2>1, <3>1, ShowKeeps
    <3>3. Typed' /\ Built'
      BY <1>1, <2>1, <3>1, <3>2 DEF Typed, Built
    <3>4. Agrees'
      BY <1>1, <2>1, <2>2, <3>1, <3>2 DEF Agrees, fits, Faces, Sides
    <3> QED BY <1>3, <2>1, <3>2, <3>3, <3>4 DEF IInv
  <2>3. CASE ~fits(request)
    <3>1. pc' = "initialize" /\ UNCHANGED window
      BY <1>7, <2>3 DEF UpdateSurface
    <3> QED BY <1>1, <1>3, <2>1, <3>1 DEF IInv, Typed, Windows, Built, Agrees
  <2> QED BY <2>2, <2>3
<1>8. CASE UpdateVolume
  <2>1. /\ pc = "update volume" /\ request \in Requests /\ _plotter # None
        /\ UNCHANGED <<_plotter, _header, _config, data, opened, request, frame>>
        /\ pc' \in {"update chute", "initialize"}
    BY <1>1, <1>8 DEF UpdateVolume, Typed, Agrees, Built
  <2>2. /\ Windows'
        /\ window[_plotter]'.header = window[_plotter].header
        /\ window[_plotter]'.config = window[_plotter].config
        /\ window[_plotter]'.surface = window[_plotter].surface
        /\ window[_plotter]'.volume = Sides(request.surface)
    <3>1. CASE "volume" \in data /\ Sides(request.surface) # None
      <4>1. show("volume", Sides(request.surface))
        BY <1>8, <3>1 DEF UpdateVolume
      <4> QED BY <1>5, <2>1, <4>1, ShowKeeps
    <3>2. CASE ~("volume" \in data /\ Sides(request.surface) # None)
      <4>1. UNCHANGED window
        BY <1>8, <3>2 DEF UpdateVolume
      <4> QED BY <1>1, <2>1, <3>2, <4>1 DEF Windows, Agrees, Built
    <3> QED BY <3>1, <3>2
  <2>3. Typed' /\ Built'
    <3>1. "volume" \notin data => Sides(request.surface) = None
      BY <1>1, <2>1 DEF Agrees
    <3> QED BY <1>1, <2>1, <2>2, <3>1 DEF Typed, Built
  <2>4. Agrees'
    BY <1>1, <2>1, <2>2 DEF Agrees, Sides, Faces
  <2> QED BY <1>3, <2>1, <2>2, <2>3, <2>4 DEF IInv
<1>9. CASE UpdateChute
  <2>1. /\ pc = "update chute" /\ request \in Requests /\ _plotter # None /\ pc' = "shown"
        /\ UNCHANGED <<_plotter, _header, _config, data, opened, request, frame>>
        /\ show("chute", request.inlet)
    BY <1>1, <1>9 DEF UpdateChute, Typed, Agrees, Built
  <2>2. /\ Windows'
        /\ window[_plotter]'.header = window[_plotter].header
        /\ window[_plotter]'.config = window[_plotter].config
        /\ window[_plotter]'.surface = window[_plotter].surface
        /\ window[_plotter]'.volume = window[_plotter].volume
        /\ window[_plotter]'.chute = request.inlet
    BY <1>5, <2>1, ShowKeeps
  <2>3. Typed' /\ Built'
    BY <1>1, <2>1, <2>2 DEF Typed, Built
  <2>4. window[_plotter]' = Picture(request)
    <3>1. window[_plotter]' \in Scene
      BY <1>2, <2>1, <2>2, NoneAssumption DEF Windows
    <3> QED BY <1>1, <2>1, <2>2, <3>1 DEF Built, Agrees, Scene, Picture
  <2>5. Agrees'
    BY <2>1, <2>4 DEF Agrees, Picture, Sides, Faces
  <2> QED BY <1>3, <2>1, <2>2, <2>3, <2>5 DEF IInv
<1>10. CASE CloseOld
  <2>1. request \in Requests
    BY <1>1, <1>10 DEF CloseOld, Typed
  <2> QED BY <1>10, <2>1, ForgetKeeps DEF CloseOld
<1>11. CASE Open
  <2>1. /\ pc = "open" /\ _plotter = None /\ _header = None /\ request \in Requests
        /\ opened' = opened + 1 /\ _plotter' = opened' /\ pc' = "add volume"
        /\ window' = [w \in DOMAIN window \cup {opened'} |->
                        IF w = opened' THEN Empty(request.header, request.config) ELSE window[w]]
        /\ UNCHANGED <<_header, _config, data, request, frame>>
    BY <1>1, <1>11 DEF Open, Built, Typed
  <2>2. DOMAIN window = {}
    BY <2>1, OpenWindows
  <2>3. window' = [w \in {_plotter'} |-> Empty(request.header, request.config)]
    <3>1. \A w \in {opened'} :
            (IF w = opened' THEN Empty(request.header, request.config) ELSE window[w])
              = Empty(request.header, request.config)
      OBVIOUS
    <3>2. DOMAIN window \cup {opened'} = {opened'}
      BY <2>2
    <3> QED BY <2>1, <3>1, <3>2
  <2>4. Empty(request.header, request.config) \in Scene
    BY <2>1, <1>5 DEF Empty, Scene
  <2>5. window[_plotter]' = Empty(request.header, request.config)
    BY <2>3
  <2>6. Windows'
    <3>1. window' \in [{_plotter'} -> Scene]
      BY <2>3, <2>4, Zenon
    <3>2. _plotter' = opened + 1 /\ opened' = opened + 1
      BY <2>1
    <3>3. _plotter' \in 1 .. opened' /\ opened' \in Nat
      BY <1>2, <3>2
    <3> QED BY <3>1, <3>3, Zenon DEF Windows
  <2>7. Typed'
    BY <1>1, <2>1 DEF Typed
  <2>8. _plotter' # None
    BY <2>1, OpenWindows
  <2>9. /\ window[_plotter]'.header = request.header
        /\ window[_plotter]'.config = request.config
        /\ window[_plotter]'.volume = None
    BY <2>5 DEF Empty
  <2>10. Built' /\ Agrees'
    BY <2>1, <2>8, <2>9 DEF Built, Agrees
  <2> QED BY <1>3, <2>1, <2>6, <2>7, <2>10 DEF IInv
<1>12. CASE AddVolume
  <2>1. /\ pc = "add volume" /\ request \in Requests /\ _plotter # None /\ pc' = "add surface"
        /\ UNCHANGED <<_plotter, _header, _config, opened, request, frame>>
        /\ show("volume", Sides(request.surface))
        /\ data' = data \cup (IF Sides(request.surface) = None THEN {} ELSE {"volume"})
    BY <1>1, <1>12 DEF AddVolume, Typed, Built
  <2>2. /\ Windows'
        /\ window[_plotter]'.header = window[_plotter].header
        /\ window[_plotter]'.config = window[_plotter].config
        /\ window[_plotter]'.volume = Sides(request.surface)
    BY <1>5, <2>1, ShowKeeps
  <2>3. Typed' /\ Built' /\ Agrees'
    BY <1>1, <2>1, <2>2 DEF Typed, Built, Agrees, Sides, Faces
  <2> QED BY <1>3, <2>1, <2>2, <2>3 DEF IInv
<1>13. CASE AddSurface
  <2>1. /\ pc = "add surface" /\ request \in Requests /\ _plotter # None /\ pc' = "add chute"
        /\ UNCHANGED <<_plotter, _header, _config, opened, request, frame>>
        /\ show("surface", Faces(request.surface))
        /\ data' = data \cup (IF Faces(request.surface) = None THEN {} ELSE {"surface"})
    BY <1>1, <1>13 DEF AddSurface, Typed, Built
  <2>2. /\ Windows'
        /\ window[_plotter]'.header = window[_plotter].header
        /\ window[_plotter]'.config = window[_plotter].config
        /\ window[_plotter]'.surface = Faces(request.surface)
        /\ window[_plotter]'.volume = window[_plotter].volume
    BY <1>5, <2>1, ShowKeeps
  <2>3. Typed' /\ Built' /\ Agrees'
    BY <1>1, <2>1, <2>2 DEF Typed, Built, Agrees, Sides, Faces
  <2> QED BY <1>3, <2>1, <2>2, <2>3 DEF IInv
<1>14. CASE AddChute
  <2>1. /\ pc = "add chute" /\ request \in Requests /\ _plotter # None /\ pc' = "add lights"
        /\ UNCHANGED <<_plotter, _header, _config, opened, request, frame>>
        /\ show("chute", request.inlet) /\ data' = data \cup {"chute"}
    BY <1>1, <1>14 DEF AddChute, Typed, Built
  <2>2. /\ Windows'
        /\ window[_plotter]'.header = window[_plotter].header
        /\ window[_plotter]'.config = window[_plotter].config
        /\ window[_plotter]'.surface = window[_plotter].surface
        /\ window[_plotter]'.volume = window[_plotter].volume
        /\ window[_plotter]'.chute = request.inlet
    BY <1>5, <2>1, ShowKeeps
  <2>3. Typed' /\ Built' /\ Agrees'
    BY <1>1, <2>1, <2>2 DEF Typed, Built, Agrees, Sides, Faces
  <2> QED BY <1>3, <2>1, <2>2, <2>3 DEF IInv
<1>15. CASE Ready
  <2>1. /\ pc = "add lights" /\ request \in Requests /\ _plotter # None /\ pc' = "shown"
        /\ _header' = request.header /\ _config' = request.config
        /\ UNCHANGED <<_plotter, data, window, opened, request, frame>>
    BY <1>1, <1>15 DEF Ready, Typed, Built
  <2>2. window[_plotter] = Picture(request)
    BY <1>1, <1>4, <2>1 DEF Built, Agrees, Scene, Picture
  <2>3. Typed' /\ Windows' /\ Built'
    BY <1>1, <1>5, <2>1 DEF Typed, Windows, Built
  <2>4. Agrees'
    BY <2>1, <2>2 DEF Agrees, Picture, Sides, Faces
  <2> QED BY <1>3, <2>1, <2>3, <2>4 DEF IInv
<1>16. CASE Raise
  <2>1. pc \notin {"idle", "closed"} /\ pc' = "idle" /\ UNCHANGED <<opened, request, frame>>
    BY <1>16 DEF Raise
  <2>2. CASE Forget /\ window' = shut(_plotter)
    BY <2>1, <2>2, ForgetKeeps
  <2>3. CASE UNCHANGED <<_plotter, _header, _config, data, window>>
    BY <1>1, <1>3, <2>1, <2>3 DEF IInv, Typed, Windows, Built, Agrees
  <2> QED BY <1>16, <2>2, <2>3 DEF Raise
<1>17. CASE Shown
  <2>1. /\ pc = "shown" /\ frame' = [picture |-> window[_plotter], of |-> request] /\ pc' = "idle"
        /\ UNCHANGED <<_plotter, _header, _config, data, window, opened, request>>
    BY <1>17 DEF Shown
  <2>2. PictureIsRequested'
    BY <1>1, <2>1 DEF Agrees, PictureIsRequested, Picture, Sides, Faces
  <2> QED BY <1>1, <2>1, <2>2 DEF IInv, Typed, Windows, Built, Agrees
<1>18. CASE close
  BY <1>18, ForgetKeeps DEF close
<1>19. CASE UNCHANGED vars
  <2>1. UNCHANGED <<_plotter, _header, _config, data, window, opened, request, pc, frame>>
    BY <1>19 DEF vars
  <2>2. Typed' /\ Windows' /\ Built'
    BY <1>1, <2>1 DEF Typed, Windows, Built
  <2>3. Agrees'
    BY <1>1, <2>1 DEF Agrees, Picture, Sides, Faces
  <2> QED BY <1>3, <2>1, <2>2, <2>3 DEF IInv
<1> QED BY <1>6, <1>7, <1>8, <1>9, <1>10, <1>11, <1>12, <1>13, <1>14, <1>15, <1>16, <1>17,
           <1>18, <1>19 DEF Next

-----------------------------------------------------------------------------

(* A picture shows all that its request asks for, whatever broke off       *)
(* before (renderer.py:328-490).                                           *)
THEOREM PicturesAreRequested == Spec => []PictureIsRequested
<1>1. IInv => PictureIsRequested
  BY DEF IInv
<1> QED BY <1>1, InitIInv, NextIInv, PTL DEF Spec

(* The renderer leaves no window behind, however renders end               *)
(* (renderer.py:318-326, 398-400).                                         *)
THEOREM NoWindowLeft == Spec => []OneWindow
<1>1. IInv => OneWindow
  BY OpenWindows DEF IInv, Built, OneWindow
<1> QED BY <1>1, InitIInv, NextIInv, PTL DEF Spec

=============================================================================
