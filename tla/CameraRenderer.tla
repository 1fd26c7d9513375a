--------------------------- MODULE CameraRenderer ---------------------------
(***************************************************************************)
(* synthetic_camera/renderer.py, VtkPbrRenderer: one window, kept from a   *)
(* render to the next and changed in place while the header and the        *)
(* profile stay, rebuilt when they do not.  Every call into PyVista and    *)
(* VTK, which are external, may raise, and the renderer goes on with what  *)
(* it has when the next request comes.                                     *)
(***************************************************************************)
EXTENDS Naturals, FiniteSets

CONSTANTS
  Headers, Configs,
  Surfaces,        \* what an observation's surface may be over the boundary
  Inlets,          \* its inlet, which the chute is turned to
  Hollow,          \* the surfaces without sides: at the floor, or not over the boundary
  Away,            \* the surfaces without faces: not over the boundary
  Good,            \* the profiles whose checks, window and byte limit hold
  MaxWindows       \* bounds the windows that are opened

ASSUME CameraRendererAssumption ==
  Away \subseteq Hollow /\ Hollow \subseteq Surfaces /\ Good \subseteq Configs /\ MaxWindows \in Nat

CONSTANT None
ASSUME NoneAssumption == None \notin Headers \cup Configs \cup Surfaces \cup Inlets \cup Nat

VARIABLES
  _plotter, _header, _config,               \* of the renderer, or None
  data,         \* which of _surface_data, _volume_data and _chute_data it has
  window,       \* what each window shows: a function from the open windows
  opened,       \* how many there were
  request,      \* what render is asked for
  pc,
  frame         \* the last picture, with what it was asked for

vars == <<_plotter, _header, _config, data, window, opened, request, pc, frame>>

Requests == [header : Headers, config : Configs, surface : Surfaces, inlet : Inlets]

\* What a window shows of a request: the sides follow from the surface.
Sides(surface) == IF surface \in Hollow THEN None ELSE surface
Faces(surface) == IF surface \in Away THEN None ELSE surface
Picture(r) == [header |-> r.header, config |-> r.config, surface |-> Faces(r.surface),
               volume |-> Sides(r.surface), chute |-> r.inlet]

Empty(header, config) ==
  [header |-> header, config |-> config, surface |-> None, volume |-> None, chute |-> None]

Init ==
  /\ _plotter = None /\ _header = None /\ _config = None
  /\ data = {}
  /\ window = [w \in {} |-> None] /\ opened = 0
  /\ request = None /\ pc = "idle" /\ frame = None

Without(w) == [v \in DOMAIN window \ {w} |-> window[v]]

\* Mutant: the window goes with the last reference to it.
shut_later(w) == window

\* plotter.close(), if there is one
shut(w) == IF w = None THEN window ELSE Without(w)

\* close
Forget ==
  /\ _plotter' = None /\ _header' = None /\ _config' = None
  /\ data' = {}

same_scene(r) == _plotter # None /\ _header = r.header /\ _config = r.config

\* render, up to the scene: a bad profile or geometry raises before it.
render ==
  /\ pc = "idle"
  /\ \E r \in Requests :
       /\ request' = r
       /\ pc' = IF same_scene(r) THEN "update" ELSE "initialize"
  /\ UNCHANGED <<_plotter, _header, _config, data, window, opened, frame>>

-----------------------------------------------------------------------------
(* _update_scene, a copy a step.                                            *)
show(field, value) == window' = [window EXCEPT ![_plotter] = [@ EXCEPT ![field] = value]]

\* Mutant: the scene without sides is not told from the scene with them.
fits_surface(r) == "surface" \in data

\* The scene has the data that the new geometry needs.
fits(r) == "surface" \in data /\ ("volume" \in data <=> Sides(r.surface) # None)

UpdateSurface ==
  /\ pc = "update"
  /\ IF fits(request)
       THEN show("surface", Faces(request.surface)) /\ pc' = "update volume"
       ELSE pc' = "initialize" /\ UNCHANGED window
  /\ UNCHANGED <<_plotter, _header, _config, data, opened, request, frame>>

UpdateVolume ==
  /\ pc = "update volume"
  /\ IF "volume" \in data /\ Sides(request.surface) # None
       THEN show("volume", Sides(request.surface)) ELSE UNCHANGED window
  /\ pc' = IF "chute" \in data THEN "update chute" ELSE "initialize"
  /\ UNCHANGED <<_plotter, _header, _config, data, opened, request, frame>>

UpdateChute ==
  /\ pc = "update chute"
  /\ show("chute", request.inlet)
  /\ pc' = "shown"
  /\ UNCHANGED <<_plotter, _header, _config, data, opened, request, frame>>

-----------------------------------------------------------------------------
(* _initialize_scene: close, the new window, and the meshes in order.       *)
CloseOld ==
  /\ pc = "initialize"
  /\ Forget /\ window' = shut(_plotter)
  /\ pc' = "open"
  /\ UNCHANGED <<opened, request, frame>>

Open ==
  /\ pc = "open" /\ opened < MaxWindows
  /\ opened' = opened + 1 /\ _plotter' = opened'
  /\ window' = [w \in DOMAIN window \cup {opened'} |->
                  IF w = opened' THEN Empty(request.header, request.config) ELSE window[w]]
  /\ pc' = "add volume"
  /\ UNCHANGED <<_header, _config, data, request, frame>>

\* A mesh without faces is not added.
AddVolume ==
  /\ pc = "add volume"
  /\ show("volume", Sides(request.surface))
  /\ data' = data \cup (IF Sides(request.surface) = None THEN {} ELSE {"volume"})
  /\ pc' = "add surface"
  /\ UNCHANGED <<_plotter, _header, _config, opened, request, frame>>

AddSurface ==
  /\ pc = "add surface"
  /\ show("surface", Faces(request.surface))
  /\ data' = data \cup (IF Faces(request.surface) = None THEN {} ELSE {"surface"})
  /\ pc' = "add chute"
  /\ UNCHANGED <<_plotter, _header, _config, opened, request, frame>>

AddChute ==
  /\ pc = "add chute"
  /\ show("chute", request.inlet)
  /\ data' = data \cup {"chute"}
  /\ pc' = "add lights"
  /\ UNCHANGED <<_plotter, _header, _config, opened, request, frame>>

\* The lights and the camera, and the scene is the renderer's.
Ready ==
  /\ pc = "add lights"
  /\ _header' = request.header /\ _config' = request.config
  /\ pc' = "shown"
  /\ UNCHANGED <<_plotter, data, window, opened, request, frame>>

-----------------------------------------------------------------------------
\* Where an exception closes the window.
in_try == {"add volume", "add surface", "add chute", "add lights"}

\* An exception: a check of the profile or the geometry, or a call that fails.  Where
\* the window should be closed plotter.close() may raise too, and nothing is forgotten.
Raise ==
  /\ pc \notin {"idle", "closed"}
  /\ \/ pc \in in_try /\ Forget /\ window' = shut(_plotter)
     \/ UNCHANGED <<_plotter, _header, _config, data, window>>
  /\ pc' = "idle"
  /\ UNCHANGED <<opened, request, frame>>

\* The picture is taken, of the size and in the bytes that the profile allows.
Shown ==
  /\ pc = "shown" /\ request.config \in Good
  /\ frame' = [picture |-> window[_plotter], of |-> request]
  /\ pc' = "idle"
  /\ UNCHANGED <<_plotter, _header, _config, data, window, opened, request>>

\* The worker's last call.
close ==
  /\ pc = "idle" /\ pc' = "closed"
  /\ Forget /\ window' = shut(_plotter)
  /\ UNCHANGED <<opened, request, frame>>

Next ==
  \/ render \/ UpdateSurface \/ UpdateVolume \/ UpdateChute
  \/ CloseOld \/ Open \/ AddVolume \/ AddSurface \/ AddChute \/ Ready
  \/ Raise \/ Shown \/ close

Spec == Init /\ [][Next]_vars

-----------------------------------------------------------------------------
(* A picture shows what its request asks for, all of it, whatever was      *)
(* drawn in this window before and wherever an earlier render broke off    *)
(* (renderer.py:328-490): the header and the profile it was built with,    *)
(* and the surface, the sides and the chute of the one observation.        *)
PictureIsRequested == frame # None => frame.picture = Picture(frame.of)

(* No window is left behind: the only open one is the one that the         *)
(* renderer will close, and after close there is none (318-326, 398-400).  *)
OneWindow ==
  /\ DOMAIN window \subseteq {_plotter}
  /\ pc = "closed" => DOMAIN window = {}
=============================================================================
