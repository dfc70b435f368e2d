SPECIFICATION CoreSpec
PROPERTIES AllReturn Stops
