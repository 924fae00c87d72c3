------------------------ MODULE MCForecastExtension ------------------------
(* Six hours are requested, a cycle may be three hours old, horizons and    *)
(* the end of UKV's hourly series lie within the window, and files have     *)
(* holes, begin late or end early.                                          *)
EXTENDS ForecastExtension

Two(preferred, fallback) == [preferred |-> preferred, fallback |-> fallback]

None == Two("none", "none")

Request(weather, waves, current, step) ==
  [weather |-> weather, waves |-> waves, current |-> current, hours |-> 6, step |-> step,
   waveStep |-> 3, dry_run |-> FALSE, overwrite |-> TRUE]

WeatherRequests ==
  {Request(w, None, None, step) : step \in {1, 3},
     w \in {Two("gfs", "none"), Two("noaa_hrrr", "gfs"), Two("existing-file", "gfs"),
            Two("ukmo_ukv", "ecmwf_aifs_open"), Two("metno_nordic", "metno_nordic")}}
  \union {[Request(Two("ecmwf_ifs_open", "ukmo_ukv"), None, None, 1) EXCEPT !.hours = hours] :
             hours \in {1, 5}}

WaveRequests ==
  {Request(None, w, None, 3) : w \in {Two("gfs_wave", "copernicus_global_waves"),
                                      Two("copernicus_global_waves", "gfs_wave")}}

CurrentRequests ==
  {Request(None, None, c, step) : step \in {1, 2, 3},
     c \in {Two("copernicus_nws", "offline-tidal"), Two("copernicus_nws", "noaa_rtofs_global"),
            Two("existing-file", "offline-tidal"), Two("noaa_rtofs_global", "copernicus_global"),
            Two("marine_ie_irish_sea", "offline-tidal"), Two("offline-tidal", "none")}}

WholeRequests ==
  {Request(Two("noaa_hrrr", "gfs"), Two("copernicus_global_waves", "gfs_wave"),
           Two("copernicus_nws", "offline-tidal"), 3)}

MCRequests ==
  LET all == WeatherRequests \union WaveRequests \union CurrentRequests \union WholeRequests
  IN  all \union {[r EXCEPT !.dry_run = TRUE] : r \in all}
          \union {[r EXCEPT !.overwrite = FALSE] : r \in WaveRequests}

Parts(param, times) == [i \in DOMAIN times |-> Message(param, times[i], 1)]

Input(label, file) == [label |-> label, region |-> "requested", file |-> file]

MCInputs ==
  {<<>>,
   <<Input("weather", File(Parts("wind", <<0, 1>>), FALSE)),
     Input("current", File(Parts("current", <<1, 1, 2>>), FALSE))>>,
   <<Input("weather", File(Parts("wind", <<0, 1>>), FALSE)),
     Input("current", File(Parts("current", <<2, 3>>), FALSE))>>,
   <<Input("weather", File(Parts("rain", <<0>>), FALSE))>>,
   <<Input("waves", File(Parts("wave", <<NoTime, 0>>), FALSE)), Input("waves", NoFile)>>,
   <<Input("waves", File(Parts("wave", <<0, 1>>), TRUE))>>,
   <<Input("waves", File(Parts("wave", <<0>>), FALSE)), Input("current", File(<<>>, FALSE))>>}

MCMerges == [inputs : MCInputs,
             command : [how : {"merge", "environment"}, overwrite : BOOLEAN, through : {0}]]

MCHorizonOf == [s \in {"noaa_hrrr", "ukmo_ukv", "metno_nordic"} |-> 7]
               @@ [s \in {"copernicus_nws", "copernicus_global_waves"} |-> 4]
               @@ [s \in {"noaa_rtofs_global", "marine_ie_irish_sea"} |-> 8]

MCCycles == {-3, -1, 1}

MCGivenFiles == {{}, {0, 1, 2, 3, 4, 5, 6}, {0, 1, 5}, {-1, 1, 3}, {2, 4, 6}, {0, 3, 6, 9}}
=============================================================================
