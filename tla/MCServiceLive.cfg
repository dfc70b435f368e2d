SPECIFICATION ServiceSpec
PROPERTIES Answered RequestsAreAnswered TapIsRead TypedIsRead
